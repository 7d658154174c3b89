------------------------------- MODULE Memory -------------------------------
(***************************************************************************)
(* Kernel memory: the page pools (old_palloc.c on bitmap.c), blocks from    *)
(* arenas (malloc.c), user frames (palloc.c, frame.c) and page directories  *)
(* (pagedir.c).  Threads allocate and free concurrently.  Bits of a pool    *)
(* are set under its lock and cleared without it, one at a time.  There is  *)
(* one size of small blocks and one of big ones.                            *)
(***************************************************************************)
EXTENDS Integers, Sequences, FiniteSets, SequencesExt, FiniteSetsExt

CONSTANTS
  MemThreads,      \* threads that call malloc () and free ()
  MemProcs,        \* threads that build and destroy page directories
  KernelPages,     \* pages of kernel_pool
  FrameCount,      \* frames of frame_table.frame_pool
  Upages,          \* user pages, as numbers
  TableSpan,       \* user pages per page table
  blocks_per_arena,
  BigPages,        \* pages of a big block
  MaxHeld          \* bound on the blocks a thread keeps

NoThread == "nobody"
BITMAP_ERROR == -1
KPage == 0 .. KernelPages - 1
Frame == 0 .. FrameCount - 1
TableOf(u) == u \div TableSpan

ASSUME MemoryAssumption ==
  /\ KernelPages \in Nat /\ FrameCount \in Nat /\ Upages \subseteq Nat
  /\ TableSpan \in Nat \ {0} /\ blocks_per_arena \in Nat \ {0}
  /\ BigPages \in Nat \ {0} /\ MaxHeld \in Nat
  /\ NoThread \notin MemThreads \cup MemProcs

VARIABLES
  used_map,    \* set bits of kernel_pool
  frame_map,   \* set bits of frame_pool
  arena,       \* header at the start of a page, or NoArena
  free_list,   \* free_list of the descriptor: blocks <<page, index>>
  pool_lock, desc_lock,
  held,        \* blocks each thread has got from malloc () and not freed
  pagedir,     \* page directory of each process
  mt,          \* where each thread is in its call
  lost,        \* history: kernel pages that nobody refers to any more
  panic        \* a thread has followed a bad pointer or failed an ASSERT

memVars == <<used_map, frame_map, arena, free_list, pool_lock, desc_lock, held,
             pagedir, mt, lost, panic>>

NoArena == [desc |-> "none", free_cnt |-> 0]
NoPagedir == [page |-> BITMAP_ERROR, table |-> <<>>, pte |-> <<>>]
User == [pc |-> "user", cnt |-> 0, idx |-> BITMAP_ERROR, k |-> 0, ret |-> "user",
         arg |-> 0]
MemT == MemThreads \cup MemProcs

\* After malloc_init and palloc_init; frame_table_init has taken the user pool.
MemInit ==
  /\ used_map = {} /\ frame_map = {}
  /\ arena = [p \in KPage |-> NoArena]
  /\ free_list = <<>>
  /\ pool_lock = NoThread /\ desc_lock = NoThread
  /\ held = [t \in MemT |-> {}]
  /\ pagedir = [t \in MemT |-> NoPagedir]
  /\ mt = [t \in MemT |-> User]
  /\ lost = {}
  /\ panic = FALSE

MemAt(t, pc) == mt[t].pc = pc /\ ~ panic
MemGoto(t, pc) == mt' = [mt EXCEPT ![t] = IF pc = "user" THEN User ELSE [@ EXCEPT !.pc = pc]]
MemCall(t, cnt, ret) ==
  mt' = [mt EXCEPT ![t] = [@ EXCEPT !.pc = "scan", !.cnt = cnt, !.k = 0, !.ret = ret]]

---------------------------------------------------------------------------
\* Pages: old_palloc_get_multiple and old_palloc_free_multiple.

Consecutive(p, cnt) == p .. p + cnt - 1
bitmap_scan(cnt) ==
  LET S == {p \in KPage : /\ p + cnt <= KernelPages
                          /\ Consecutive(p, cnt) \cap used_map = {}}
  IN IF S = {} THEN BITMAP_ERROR ELSE Min(S)

\* bitmap_scan_and_flip under pool->lock: the search, then one bit at a time.
palloc_scan(t) ==
  /\ MemAt(t, "scan") /\ pool_lock = NoThread
  /\ pool_lock' = t
  /\ mt' = [mt EXCEPT ![t].pc = "flip", ![t].idx = bitmap_scan(mt[t].cnt)]
  /\ UNCHANGED <<used_map, frame_map, arena, free_list, desc_lock, held, pagedir, lost, panic>>
palloc_flip(t) ==
  /\ MemAt(t, "flip")
  /\ IF mt[t].idx # BITMAP_ERROR /\ mt[t].k < mt[t].cnt
     THEN /\ used_map' = used_map \cup {mt[t].idx + mt[t].k}
          /\ mt' = [mt EXCEPT ![t].k = @ + 1]
          /\ UNCHANGED pool_lock
     ELSE /\ pool_lock' = NoThread /\ MemGoto(t, mt[t].ret) /\ UNCHANGED used_map
  /\ UNCHANGED <<frame_map, arena, free_list, desc_lock, held, pagedir, lost, panic>>

\* old_palloc_free_multiple: the page is filled with 0xcc, then the bits are cleared
\* without the lock.  The ASSERT on bitmap_all is panic.
palloc_free(t) ==
  /\ MemAt(t, "unflip")
  /\ IF mt[t].k < mt[t].cnt
     THEN /\ used_map' = used_map \ {mt[t].idx + mt[t].k}
          /\ mt' = [mt EXCEPT ![t].k = @ + 1]
          /\ panic' = (mt[t].idx + mt[t].k \notin used_map)
     ELSE MemGoto(t, mt[t].ret) /\ UNCHANGED <<used_map, panic>>
  /\ UNCHANGED <<frame_map, arena, free_list, pool_lock, desc_lock, held, pagedir, lost>>
FreePages(t, idx, cnt, ret) ==
  mt' = [mt EXCEPT ![t] = [@ EXCEPT !.pc = "unflip", !.idx = idx, !.cnt = cnt,
                                    !.k = 0, !.ret = ret]]

---------------------------------------------------------------------------
\* malloc and free.

malloc(t) ==
  \/ /\ MemAt(t, "user") /\ t \in MemThreads /\ Cardinality(held[t]) < MaxHeld
     /\ desc_lock = NoThread
     /\ desc_lock' = t
     /\ IF free_list = <<>> THEN MemCall(t, 1, "new_arena") ELSE MemGoto(t, "pop")
     /\ UNCHANGED <<used_map, frame_map, arena, free_list, pool_lock, held, pagedir, lost, panic>>
  \/ /\ MemAt(t, "new_arena")
     /\ IF mt[t].idx = BITMAP_ERROR
        THEN /\ desc_lock' = NoThread /\ MemGoto(t, "user")
             /\ UNCHANGED <<arena, free_list>>
        ELSE /\ arena' = [arena EXCEPT ![mt[t].idx] =
                            [desc |-> "small", free_cnt |-> blocks_per_arena]]
             /\ free_list' = free_list \o [i \in 1 .. blocks_per_arena |-> <<mt[t].idx, i>>]
             /\ MemGoto(t, "pop") /\ UNCHANGED desc_lock
     /\ UNCHANGED <<used_map, frame_map, pool_lock, held, pagedir, lost, panic>>
  \/ /\ MemAt(t, "pop")
     /\ LET b == Head(free_list)
        IN /\ arena' = [arena EXCEPT ![b[1]].free_cnt = @ - 1]
           /\ held' = [held EXCEPT ![t] = @ \cup {b}]
     /\ free_list' = Tail(free_list)
     /\ desc_lock' = NoThread
     /\ MemGoto(t, "user")
     /\ UNCHANGED <<used_map, frame_map, pool_lock, pagedir, lost, panic>>

\* A request that no descriptor serves: whole pages, without a lock of malloc's own.
malloc_big(t) ==
  \/ /\ MemAt(t, "user") /\ t \in MemThreads /\ Cardinality(held[t]) < MaxHeld
     /\ MemCall(t, BigPages, "new_big")
     /\ UNCHANGED <<used_map, frame_map, arena, free_list, pool_lock, desc_lock, held,
                    pagedir, lost, panic>>
  \/ /\ MemAt(t, "new_big")
     /\ IF mt[t].idx = BITMAP_ERROR THEN UNCHANGED <<arena, held>>
        ELSE /\ arena' = [arena EXCEPT ![mt[t].idx] = [desc |-> "big", free_cnt |-> BigPages]]
             /\ held' = [held EXCEPT ![t] = @ \cup {<<mt[t].idx, 0>>}]
     /\ MemGoto(t, "user")
     /\ UNCHANGED <<used_map, frame_map, free_list, pool_lock, desc_lock, pagedir, lost, panic>>

ArenaUnused(cnt) == cnt >= blocks_per_arena
OtherArena(page) == SelectSeq(free_list, LAMBDA b : b[1] # page)

\* Fault: the blocks of the arena stay on the free list.
WithoutArena_not(page) == free_list
\* list_remove of every block of the arena.
WithoutArena(page) == OtherArena(page)

free(t, b) ==
  /\ MemAt(t, "user") /\ b \in held[t]
  /\ held' = [held EXCEPT ![t] = @ \ {b}]
  /\ \/ /\ arena[b[1]].desc = "small" /\ desc_lock = NoThread
        /\ LET cnt == arena[b[1]].free_cnt + 1
           IN IF ArenaUnused(cnt)
              THEN /\ free_list' = WithoutArena(b[1])
                   /\ arena' = [arena EXCEPT ![b[1]] = NoArena]
                   /\ panic' = (cnt # blocks_per_arena)
                   /\ desc_lock' = t
                   /\ FreePages(t, b[1], 1, "unlock_desc")
              ELSE /\ free_list' = <<b>> \o free_list
                   /\ arena' = [arena EXCEPT ![b[1]].free_cnt = cnt]
                   /\ UNCHANGED <<mt, panic, desc_lock>>
     \/ /\ arena[b[1]].desc = "big"
        /\ arena' = [arena EXCEPT ![b[1]] = NoArena]
        /\ FreePages(t, b[1], arena[b[1]].free_cnt, "user")
        /\ UNCHANGED <<free_list, panic, desc_lock>>
     \/ /\ arena[b[1]] = NoArena       \* ASSERT (a->magic == ARENA_MAGIC)
        /\ panic' = TRUE
        /\ UNCHANGED <<free_list, arena, mt, desc_lock>>
  /\ UNCHANGED <<used_map, frame_map, pool_lock, pagedir, lost>>
free_unlock(t) ==
  /\ MemAt(t, "unlock_desc")
  /\ desc_lock' = NoThread /\ MemGoto(t, "user")
  /\ UNCHANGED <<used_map, frame_map, arena, free_list, pool_lock, held, pagedir, lost, panic>>

---------------------------------------------------------------------------
\* Page directories and user frames.

pagedir_create(t) ==
  \/ /\ MemAt(t, "user") /\ t \in MemProcs /\ pagedir[t] = NoPagedir
     /\ MemCall(t, 1, "new_pd")
     /\ UNCHANGED <<used_map, frame_map, arena, free_list, pool_lock, desc_lock, held,
                    pagedir, lost, panic>>
  \/ /\ MemAt(t, "new_pd")
     /\ pagedir' = [pagedir EXCEPT ![t].page = mt[t].idx]
     /\ MemGoto(t, "user")
     /\ UNCHANGED <<used_map, frame_map, arena, free_list, pool_lock, desc_lock, held, lost, panic>>

FrameMarked(f) == frame_map \cup {f}
\* palloc_page: a frame is marked under the lock of the pool.  BITMAP_ERROR is not
\* tested (palloc.c:122): the frame entry is then one before the array, which is written,
\* and whatever its kpage is gets mapped.  The model ends there, with panic.
palloc_page(t, u) ==
  /\ MemAt(t, "user") /\ pagedir[t] # NoPagedir
  /\ LET avail == Frame \ frame_map
     IN IF avail = {} THEN panic' = TRUE /\ UNCHANGED <<frame_map, mt>>
        ELSE /\ frame_map' = FrameMarked(Min(avail))
             /\ mt' = [mt EXCEPT ![t] = [@ EXCEPT !.pc = "install", !.arg = u,
                                                  !.idx = Min(avail)]]
             /\ UNCHANGED panic
  /\ UNCHANGED <<used_map, arena, free_list, pool_lock, desc_lock, held, pagedir, lost>>

Mapped(t) == DOMAIN pagedir[t].pte
AddPte(t, u, f) == [pagedir EXCEPT ![t].pte =
  [x \in Mapped(t) \cup {u} |-> IF x = u THEN f ELSE pagedir[t].pte[x]]]

AlreadyMapped(t, u) == u \in Mapped(t)
\* install_page, pagedir_set_page and lookup_page; a frame that cannot be mapped
\* stays marked (palloc.c:138).  The frame waits in `cnt' while a table is allocated.
install_page(t) ==
  \/ /\ MemAt(t, "install")
     /\ IF AlreadyMapped(t, mt[t].arg) THEN MemGoto(t, "user") /\ UNCHANGED pagedir
        ELSE IF TableOf(mt[t].arg) \in DOMAIN pagedir[t].table
        THEN /\ pagedir' = AddPte(t, mt[t].arg, mt[t].idx)
             /\ MemGoto(t, "user")
        ELSE /\ mt' = [mt EXCEPT ![t] = [@ EXCEPT !.pc = "scan", !.cnt = 1, !.k = 0,
                                                  !.ret = "new_table",
                                                  !.arg = <<@, mt[t].idx>>]]
             /\ UNCHANGED pagedir
     /\ UNCHANGED <<used_map, frame_map, arena, free_list, pool_lock, desc_lock, held, lost, panic>>
  \/ /\ MemAt(t, "new_table")
     /\ IF mt[t].idx = BITMAP_ERROR THEN UNCHANGED pagedir
        ELSE LET u == mt[t].arg[1]
                 tab == TableOf(u)
             IN pagedir' = [AddPte(t, u, mt[t].arg[2]) EXCEPT ![t].table =
                  [x \in DOMAIN @ \cup {tab} |-> IF x = tab THEN mt[t].idx ELSE @[x]]]
     /\ MemGoto(t, "user")
     /\ UNCHANGED <<used_map, frame_map, arena, free_list, pool_lock, desc_lock, held, lost, panic>>

\* pagedir_destroy frees the directory and nothing it refers to (pagedir.c:38).
pagedir_destroy(t) ==
  /\ MemAt(t, "user") /\ pagedir[t] # NoPagedir
  /\ pagedir' = [pagedir EXCEPT ![t] = NoPagedir]
  /\ lost' = lost \cup Range(pagedir[t].table)
  /\ FreePages(t, pagedir[t].page, 1, "user")
  /\ UNCHANGED <<used_map, frame_map, arena, free_list, pool_lock, desc_lock, held, panic>>

MemStep(t) ==
  \/ palloc_scan(t) \/ palloc_flip(t) \/ palloc_free(t)
  \/ malloc(t) \/ malloc_big(t) \/ free_unlock(t)
  \/ \E b \in held[t] : free(t, b)
  \/ pagedir_create(t) \/ install_page(t) \/ pagedir_destroy(t)
  \/ \E u \in Upages : palloc_page(t, u)
MemNext == \E t \in MemT : MemStep(t)
MemSpec == MemInit /\ [][MemNext]_memVars

---------------------------------------------------------------------------
\* Properties.

\* Types of the variables.
MemTypeOK ==
  /\ used_map \subseteq KPage /\ frame_map \subseteq Frame /\ lost \subseteq KPage
  /\ arena \in [KPage -> [desc : {"none", "small", "big"}, free_cnt : Nat]]
  /\ free_list \in Seq(KPage \X (1 .. blocks_per_arena))
  /\ pool_lock \in MemT \cup {NoThread} /\ desc_lock \in MemT \cup {NoThread}
  /\ \A t \in MemT : held[t] \subseteq KPage \X (0 .. blocks_per_arena)

SmallArenas == {p \in KPage : arena[p].desc = "small"}
HeldBlocks == UNION {held[t] : t \in MemT}
\* malloc and free: every block of every arena is either on the free list, once, or
\* held by one thread, and free_cnt counts those on the list.  A block on the list or
\* held is in an arena that has not been given back.
BlocksPartitioned ==
  /\ \A i, j \in 1 .. Len(free_list) : free_list[i] = free_list[j] => i = j
  /\ Range(free_list) \cap HeldBlocks = {}
  /\ \A t, u \in MemT : t # u => held[t] \cap held[u] = {}
  /\ Range(free_list) \cup {b \in HeldBlocks : b[2] # 0}
       = SmallArenas \X (1 .. blocks_per_arena)
  /\ \A p \in SmallArenas :
       arena[p].free_cnt = Cardinality({b \in Range(free_list) : b[1] = p})

\* Pages a thread is about to get, or about to give back.
Getting(t) == IF mt[t].pc \in {"new_arena", "new_big", "new_pd", "new_table"}
                   /\ mt[t].idx # BITMAP_ERROR
              THEN Consecutive(mt[t].idx, mt[t].cnt)
              ELSE IF mt[t].pc = "flip" /\ mt[t].idx # BITMAP_ERROR
              THEN Consecutive(mt[t].idx, mt[t].k) ELSE {}
Giving(t) == IF mt[t].pc = "unflip"
             THEN mt[t].idx + mt[t].k .. mt[t].idx + mt[t].cnt - 1 ELSE {}
Owned == [x \in {"small", "big", "lost"} |->
            CASE x = "small" -> SmallArenas
              [] x = "big" -> UNION {Consecutive(p, BigPages) :
                                       p \in {q \in KPage : arena[q].desc = "big"}}
              [] OTHER -> lost]
ProcPages(t) == ({pagedir[t].page} \ {BITMAP_ERROR}) \cup Range(pagedir[t].table)
Shares == {Owned[x] : x \in DOMAIN Owned}
          \cup {ProcPages(t) \cup Getting(t) \cup Giving(t) : t \in MemT}
\* The pool: a page is marked exactly as long as one owner has it (an arena, a big
\* block, a page directory or table, a thread in the middle of a call, or the page
\* tables that pagedir_destroy forgets), though pages are freed without the lock.
PagesOwnedOnce ==
  /\ used_map = UNION Shares
  /\ Cardinality(used_map) =
       FoldSet(LAMBDA t, n : n + Cardinality(ProcPages(t)) + Cardinality(Getting(t))
                               + Cardinality(Giving(t)), 0, MemT)
       + Cardinality(Owned["small"]) + Cardinality(Owned["big"]) + Cardinality(lost)

\* palloc_page and install_page: no frame is mapped twice, in one page directory or
\* in two, and a frame that is mapped is marked.
FrameMappedOnce ==
  \A t1, t2 \in MemProcs : \A u1 \in Mapped(t1), u2 \in Mapped(t2) :
    /\ pagedir[t1].pte[u1] \in frame_map
    /\ pagedir[t1].pte[u1] = pagedir[t2].pte[u2] => t1 = t2 /\ u1 = u2

\* "UPAGE must not already be mapped" (palloc.c:199): a mapping stays until the
\* directory is destroyed.
MappingKept ==
  [][\A t \in MemProcs : \A u \in Mapped(t) :
       pagedir'[t] = NoPagedir \/ pagedir'[t].pte[u] = pagedir[t].pte[u]]_memVars

\* The ASSERTs of free (), block_to_arena () and old_palloc_free_multiple () hold, and no
\* bad pointer is followed but the one palloc_page makes of BITMAP_ERROR when every frame
\* is taken (palloc.c:122).
MallocAssertions == panic => frame_map = Frame

\* Every block, page and frame has one owner, the counts and bitmaps of malloc.c, old_palloc.c
\* and palloc.c agree with it, their ASSERTs hold and mappings stay.
MemoryConsistent ==
  /\ [](MemTypeOK /\ BlocksPartitioned /\ PagesOwnedOnce /\ FrameMappedOnce /\ MallocAssertions)
  /\ MappingKept
=============================================================================
