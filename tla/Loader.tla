------------------------------- MODULE Loader --------------------------------
(***************************************************************************)
(* load() of userprog/process.c: the checks of an executable's headers, the *)
(* loop that fills its pages, and the stack with the arguments of main.     *)
(* Addresses are unsigned and wrap at AddrMod.  A byte of the file stands    *)
(* for itself as its offset + 1, a zeroed byte is 0.                        *)
(*                                                                          *)
(* palloc_free_upage passes the address of a page table entry to            *)
(* palloc_free_page, whose ASSERT on its offset fails unless the entry is   *)
(* the first of its table; a kernel write to a page that is not mapped, or   *)
(* read only, ends in kill() and its PANIC.                                 *)
(***************************************************************************)
EXTENDS Integers, Sequences, FiniteSets, SequencesExt, FiniteSetsExt

CONSTANTS PGSIZE, PHYS_BASE, AddrMod, EntriesPerTable,
          FileLength,
          Loads       \* the loads: [valid, readable, phdrs, argv], argv the lengths of the words

VARIABLES exe, ldpc, hdr, seg, image, esp, pushed
ldVars == <<exe, ldpc, hdr, seg, image, esp, pushed>>

Word == 4
ROUND_UP(x, n) == ((x + n - 1) \div n) * n
ROUND_DOWN(x, n) == (x \div n) * n
pg_ofs(a) == a % PGSIZE
PageOf(a) == ROUND_DOWN(a, PGSIZE)
is_user_vaddr(a) == a < PHYS_BASE
Wrap(a) == a % AddrMod
NoSegment == [read |-> 0, zero |-> 0, upage |-> 0, ofs |-> 0, writable |-> FALSE]
NoMemory == [u \in {} |-> <<>>]
Over == {"loaded", "failed", "panic"}

LoadInit == /\ exe \in Loads /\ ldpc = "open" /\ hdr = 1 /\ seg = NoSegment
            /\ image = NoMemory /\ esp = PHYS_BASE /\ pushed = <<>>
To(pc) == ldpc' = pc

\* The page directory, the file and its first header.
load_open == /\ ldpc = "open"
             /\ \/ To("failed")                         \* no page, or no such file
                \/ To(IF exe.valid THEN "headers" ELSE "failed")
             /\ UNCHANGED <<exe, hdr, seg, image, esp, pushed>>

\* Fault: the end of the region is not compared with its start.
NoWrap_unchecked(ph) == TRUE
NoWrap(ph) == Wrap(ph.vaddr + ph.memsz) >= ph.vaddr
validate_segment(ph) ==
  /\ pg_ofs(ph.offset) = pg_ofs(ph.vaddr)
  /\ ph.offset <= FileLength
  /\ ph.memsz >= ph.filesz
  /\ ph.memsz # 0
  /\ is_user_vaddr(ph.vaddr) /\ is_user_vaddr(Wrap(ph.vaddr + ph.memsz))
  /\ NoWrap(ph)
  /\ ph.vaddr >= PGSIZE
ReadBytes(ph) == IF ph.filesz > 0 THEN Wrap(pg_ofs(ph.vaddr) + ph.filesz) ELSE 0
Segment(ph) ==
  [read |-> ReadBytes(ph),
   zero |-> Wrap(ROUND_UP(Wrap(pg_ofs(ph.vaddr) + ph.memsz), PGSIZE) - ReadBytes(ph)),
   upage |-> PageOf(ph.vaddr), ofs |-> PageOf(ph.offset), writable |-> ph.writable]
\* One turn of the loop over the program headers.
load_header ==
  /\ ldpc = "headers"
  /\ IF hdr > Len(exe.phdrs) THEN To("stack") /\ UNCHANGED <<hdr, seg>>
     ELSE LET ph == exe.phdrs[hdr]
          IN /\ hdr' = hdr + 1
             /\ CASE hdr > exe.readable \/ ph.type = "refused" -> To("failed") /\ UNCHANGED seg
                  [] ph.type = "ignored" /\ hdr <= exe.readable -> To("headers") /\ UNCHANGED seg
                  [] ph.type = "PT_LOAD" /\ hdr <= exe.readable ->
                       IF validate_segment(ph) THEN seg' = Segment(ph) /\ To("segment")
                       ELSE To("failed") /\ UNCHANGED seg
  /\ UNCHANGED <<exe, image, esp, pushed>>

Map(u, bytes, writable) ==
  [x \in DOMAIN image \cup {u} |-> IF x = u THEN [bytes |-> bytes, writable |-> writable]
                                   ELSE image[x]]
\* palloc_free_upage: the step it leaves the kernel in.
palloc_free_upage(u, pages) ==
  IF u \in pages /\ (u \div PGSIZE) % EntriesPerTable # 0 THEN "panic" ELSE "failed"
\* One turn of load_segment's loop: palloc_page fails when the page is mapped already, or
\* when there is no page for a table.
load_page ==
  /\ ldpc = "segment"
  /\ UNCHANGED <<exe, hdr, esp, pushed>>
  /\ IF seg.read = 0 /\ seg.zero = 0 THEN To("headers") /\ UNCHANGED <<seg, image>>
     ELSE LET n == Min({seg.read, PGSIZE})
              page == [i \in 1 .. PGSIZE |-> IF i <= n THEN seg.ofs + i ELSE 0]
          IN \/ To("failed") /\ UNCHANGED <<seg, image>>
             \/ /\ seg.upage \notin DOMAIN image
                /\ IF seg.ofs + n > FileLength /\ n > 0
                   THEN /\ To(palloc_free_upage(seg.upage, {seg.upage}))
                        /\ UNCHANGED <<seg, image>>
                   ELSE /\ image' = Map(seg.upage, page, seg.writable)
                        /\ seg' = [seg EXCEPT !.read = @ - n, !.zero = @ - (PGSIZE - n),
                                              !.upage = @ + PGSIZE, !.ofs = @ + n]
                        /\ UNCHANGED ldpc
---------------------------------------------------------------------------
argc == Len(exe.argv)
size_of_char_arg(i) == exe.argv[i] + 1
SumFrom(i) == FoldLeft(LAMBDA n, k : n + k, 0, [j \in 1 .. argc - i + 1 |-> size_of_char_arg(i + j - 1)])
arg_pointers(i) == PHYS_BASE - SumFrom(i)
word_align(a) == ROUND_DOWN(a, Word)
upage0 == PHYS_BASE - PGSIZE
Sentinel(a) == word_align(a) - Word
esp_limit == PHYS_BASE - PGSIZE + 12
Push(a, size, val) == [at |-> a, size |-> size, val |-> val]
\* The pointers that the loop pushes below p before it meets esp_limit.
PointersPushed(p) ==
  Min({k \in 0 .. argc : k = argc \/ p - k * Word < esp_limit})
\* Every write of setup_stack, in order.
Pushes ==
  LET strings == [k \in 1 .. argc |-> Push(arg_pointers(argc - k + 1),
                                           size_of_char_arg(argc - k + 1), <<argc - k + 1>>)]
      null == Sentinel(arg_pointers(1))
      n == PointersPushed(null)
      pointers == [k \in 1 .. n |-> Push(null - k * Word, Word, <<arg_pointers(argc - k + 1)>>)]
      low == null - n * Word
  IN strings \o <<Push(null, Word, <<0>>)>> \o pointers
       \o <<Push(low - Word, Word, <<low>>), Push(low - 2 * Word, Word, <<argc>>),
            Push(low - 3 * Word, Word, <<0>>)>>
Writes(w, pages) == \A a \in w.at .. w.at + w.size - 1 :
                      PageOf(a) \in DOMAIN pages /\ pages[PageOf(a)].writable
\* When the pointers do not fit, upage is given back before the last pushes: the ASSERT.
setup_stack ==
  /\ ldpc = "stack"
  /\ \/ To(palloc_free_upage(upage0, DOMAIN image)) /\ UNCHANGED <<image, esp, pushed>>
     \/ /\ upage0 \notin DOMAIN image
        /\ image' = Map(upage0, [i \in 1 .. PGSIZE |-> 0], TRUE)
        /\ LET bad == \/ PointersPushed(Sentinel(arg_pointers(1))) < argc
                      \/ \E i \in DOMAIN Pushes : ~ Writes(Pushes[i], image')
           IN IF bad THEN To("panic") /\ UNCHANGED <<esp, pushed>>
              ELSE /\ To("loaded") /\ pushed' = Pushes /\ esp' = Last(Pushes).at
  /\ UNCHANGED <<exe, hdr, seg>>

LoadNext == load_open \/ load_header \/ load_page \/ setup_stack
LoadSpec == LoadInit /\ [][LoadNext]_ldVars
---------------------------------------------------------------------------
\* Whatever a program header says, load_segment maps nothing at page 0 and nothing at
\* PHYS_BASE or above, and a page is mapped whole.
ImageInUserSpace ==
  \A u \in DOMAIN image : /\ pg_ofs(u) = 0 /\ u >= PGSIZE /\ u + PGSIZE <= PHYS_BASE
                          /\ DOMAIN image[u].bytes = 1 .. PGSIZE

Needed == PHYS_BASE - word_align(arg_pointers(1)) + Word * (argc + 4)
Fits == Needed <= PGSIZE
ByteAt(a) == image[PageOf(a)].bytes[pg_ofs(a) + 1]
Overwritten(a) == \E i \in DOMAIN pushed : a \in pushed[i].at .. pushed[i].at + pushed[i].size - 1
\* A loaded program finds every byte of its segments: p_filesz bytes of the file from
\* p_offset on, zeros up to p_memsz, and none of them overwritten by the arguments (when
\* those fit on their page).
SegmentsLoaded ==
  ldpc = "loaded" /\ Fits =>
    \A i \in DOMAIN exe.phdrs :
      LET ph == exe.phdrs[i]
      IN ph.type = "PT_LOAD" =>
           \A k \in 0 .. ph.memsz - 1 :
             /\ PageOf(ph.vaddr + k) \in DOMAIN image /\ ~ Overwritten(ph.vaddr + k)
             /\ ByteAt(ph.vaddr + k) = IF k < ph.filesz THEN ph.offset + k + 1 ELSE 0

PushedAt(a) == LET S == {i \in DOMAIN pushed : pushed[i].at = a}
               IN IF S = {} THEN <<-1>> ELSE pushed[Min(S)].val
\* When the arguments fit on the stack page, main finds the return address, argc and argv
\* where the calling convention wants them, argv[i] points to word i, argv[argc] is null,
\* and no two of the writes of setup_stack overlap.
ArgumentsPassed ==
  ldpc = "loaded" /\ Fits =>
    /\ esp % Word = 0
    /\ PushedAt(esp) = <<0>> /\ PushedAt(esp + Word) = <<argc>>
    /\ PushedAt(esp + 2 * Word) = <<esp + 3 * Word>>
    /\ \A i \in 1 .. argc :
         LET p == PushedAt(esp + (2 + i) * Word)[1] IN PushedAt(p) = <<i>>
    /\ PushedAt(esp + (3 + argc) * Word) = <<0>>
    /\ \A i, j \in DOMAIN pushed : i < j =>
         \/ pushed[i].at >= pushed[j].at + pushed[j].size
         \/ pushed[j].at >= pushed[i].at + pushed[i].size

\* load() panics only where it gives a page back or the arguments are too long: a segment
\* that the file is too short for, a segment on the stack page, or arguments that need more
\* than the stack page.
PanicsOnlyThere ==
  ldpc = "panic" =>
    \/ ~ Fits
    \/ \E i \in DOMAIN exe.phdrs : LET ph == exe.phdrs[i]
                                  IN ph.type = "PT_LOAD" /\ ph.vaddr + ph.memsz > upage0
    \/ seg.ofs + Min({seg.read, PGSIZE}) > FileLength

\* load () puts a program and its arguments where they belong or refuses it, and panics
\* only where it is known to.
LoadedRight == ImageInUserSpace /\ SegmentsLoaded /\ ArgumentsPassed /\ PanicsOnlyThere
=============================================================================
