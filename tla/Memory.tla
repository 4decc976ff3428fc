------------------------------- MODULE Memory -------------------------------
(***************************************************************************)
(* src/memory1/code.c and src/memory2/code.c: the init function takes      *)
(* memory from one allocator after another and gives each block back       *)
(* before it asks for the next; a refused request ends it with an error.   *)
(***************************************************************************)
EXTENDS CodeKo

CONSTANT PAGES   \* free pages of the machine

ASSUME PagesAssumption == PAGES \in Nat

VARIABLES
  free_pages,  \* pages the kernel has left
  block,       \* the block held: its kind and its number of pages
  kmaps        \* kmap() mappings of its first page

memoryVars == <<free_pages, block, kmaps>>

NoBlock == [kind |-> "none", pages |-> 0]

MemoryInit == free_pages = PAGES /\ block = NoBlock /\ kmaps = 0

MemoryLoad == block' = NoBlock /\ kmaps' = 0 /\ UNCHANGED free_pages

\* Any allocation may fail, an allocation for which there is no room must.
Alloc(d, a, kind, n, b) ==
  /\ dir = d
  /\ pc = a
  /\ \/ /\ n <= free_pages
        /\ free_pages' = free_pages - n
        /\ block' = [kind |-> kind, pages |-> n]
        /\ pc' = b
     \/ /\ pc' = "error"
        /\ UNCHANGED <<free_pages, block>>
  /\ UNCHANGED <<dir, kmaps, fault>>

\* The allocator believes what its caller says about the block.
Free(d, a, kind, n, b) ==
  /\ Goto(d, a, b)
  /\ free_pages' = free_pages + n
  /\ block' = NoBlock
  /\ fault' = IF block.kind = kind THEN fault ELSE "bad_free"
  /\ UNCHANGED kmaps

-----------------------------------------------------------------------------
(* memory1: one page; eight pages by struct page; eight pages by address *)

MemPage ==
  \/ Alloc("memory1", "alloc_page", "pages", 1, "free_page")
  \/ Free("memory1", "free_page", "pages", 1, "alloc_pages")

\* Faulty variant: the block of order 3 is freed with order 0.
MemPagesOrderZero ==
  \/ Alloc("memory1", "alloc_pages", "pages", 8, "free_pages_1")
  \/ Free("memory1", "free_pages_1", "pages", 1, "get_free_pages")

MemPages ==
  \/ Alloc("memory1", "alloc_pages", "pages", 8, "free_pages_1")
  \/ Free("memory1", "free_pages_1", "pages", 8, "get_free_pages")

MemAddress ==
  \/ Alloc("memory1", "get_free_pages", "pages", 8, "free_pages_2")
  \/ Free("memory1", "free_pages_2", "pages", 8, "return")

Memory1 == MemPage \/ MemPages \/ MemAddress

-----------------------------------------------------------------------------
(* memory2: slab objects, 40960 bytes of vmalloc() memory, high memory *)

MemZeroed ==
  \/ Alloc("memory2", "kzalloc", "slab", 0, "kzfree")
  \/ Free("memory2", "kzfree", "slab", 0, "kmalloc")

MemObject ==
  \/ Alloc("memory2", "kmalloc", "slab", 0, "kfree")
  \/ Free("memory2", "kfree", "slab", 0, "vmalloc")

MemVirtual ==
  \/ Alloc("memory2", "vmalloc", "vmalloc", 10, "vfree")
  \/ Free("memory2", "vfree", "vmalloc", 10, "alloc_highmem")

Kmap(a, n, b) ==
  /\ Goto("memory2", a, b)
  /\ kmaps' = kmaps + n
  /\ UNCHANGED <<free_pages, block, fault>>

MemHigh ==
  \/ Alloc("memory2", "alloc_highmem", "pages", 8, "kmap")
  \/ Kmap("kmap", 1, "kunmap")
  \/ Kmap("kunmap", -1, "free_highmem")
  \/ Free("memory2", "free_highmem", "pages", 8, "return")

Memory2 == MemZeroed \/ MemObject \/ MemVirtual \/ MemHigh

=============================================================================
