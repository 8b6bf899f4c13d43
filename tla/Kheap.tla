------------------------------- MODULE Kheap -------------------------------
(***************************************************************************)
(* The kernel heap of mm/kheap.c: first fit over a doubly linked list of   *)
(* blocks in one static arena, split on allocation, merged with both       *)
(* neighbours on release, and page-aligned allocations that hide the       *)
(* pointer of their block in the word before the pointer they return.      *)
(*                                                                         *)
(* Addresses and sizes count 4-byte words from the start of the arena.     *)
(* Of the memory itself three things are kept: the block headers, the      *)
(* addresses that hold the word MAGIC_USED, and the hidden pointers.       *)
(* What callers write into their own payload is never MAGIC_USED.          *)
(* Callers release a pointer once, and resize only what kmalloc or         *)
(* krealloc gave them (fs/ramfs.c and fs/diskfs.c are the only ones).      *)
(***************************************************************************)
EXTENDS Integers

CONSTANTS
  HEAP_SIZE,   \* words of the arena
  HDR,         \* words of a block header
  ALIGN,       \* granularity of sizes
  PAGE,        \* granularity of kmalloc_aligned
  Requests     \* sizes callers ask for

ASSUME KheapConstants ==
  /\ HDR \in Nat \ {0} /\ ALIGN \in Nat \ {0} /\ PAGE \in Nat \ {0}
  /\ HEAP_SIZE \in Nat /\ HEAP_SIZE > HDR
  /\ Requests \subseteq Nat

VARIABLES
  blk,       \* headers of the listed blocks, by address
  magic,     \* addresses that hold MAGIC_USED
  hidden,    \* words that hold the raw pointer of an aligned allocation
  handed     \* history: pointers callers hold, with the size they asked for

khVars == <<blk, magic, hidden, handed>>

NULL == -1
Addr == 0 .. (HEAP_SIZE - 1)
BlockT == [size : Nat, free : BOOLEAN, next : Addr \cup {NULL},
           prev : Addr \cup {NULL}]

\* Size n rounded up to a multiple of a.
align_up(n, a) == n + ((a - (n % a)) % a)

kheap_init ==
  [b \in {0} |-> [size |-> HEAP_SIZE - HDR, free |-> TRUE,
                  next |-> NULL, prev |-> NULL]]

KhInit ==
  /\ blk = kheap_init
  /\ magic = {}
  /\ hidden = [a \in {} |-> 0]
  /\ handed = [p \in {} |-> [n |-> 0, aligned |-> FALSE]]

----------------------------------------------------------------------------
(* Operations on the list.  A state of the heap is a record of blk, magic  *)
(* and hidden.                                                             *)

Heap == [blk |-> blk, magic |-> magic, hidden |-> hidden]
Candidates(h, n) == {b \in DOMAIN h.blk : h.blk[b].free /\ h.blk[b].size >= n}

\* The list is in address order (ListTilesHeap), so the first fit is the
\* candidate at the lowest address.
IsFirstFit(h, n, b) ==
  b \in Candidates(h, n) /\ \A c \in Candidates(h, n) : b <= c

\* A block is always split.
SplitsAlways(h, b, n) == TRUE

Splits(h, b, n) == h.blk[b].size >= n + HDR + ALIGN

\* The header of the rest overwrites the words where it lands.
split_block(h, b, n) ==
  LET nb == b + HDR + n
      nx == h.blk[b].next
  IN  IF ~Splits(h, b, n) THEN h
      ELSE [blk |-> [x \in DOMAIN h.blk \cup {nb} |->
                       CASE x = nb -> [size |-> h.blk[b].size - n - HDR,
                                       free |-> TRUE, next |-> nx, prev |-> b]
                         [] x = b  -> [h.blk[b] EXCEPT !.size = n, !.next = nb]
                         [] x = nx /\ x # nb /\ x # b ->
                              [h.blk[x] EXCEPT !.prev = nb]
                         [] OTHER  -> h.blk[x]],
            magic |-> h.magic \ {nb},
            hidden |-> [a \in DOMAIN h.hidden \ (nb .. (nb + HDR - 1)) |->
                          h.hidden[a]]]

TakeBlock(h, b, n) ==
  LET s == split_block(h, b, n)
  IN  [s EXCEPT !.blk[b].free = FALSE, !.magic = s.magic \cup {b}]

\* The merged block without the header it took in.
MergeNextNoHeader(f, b) ==
  LET x == f[b].next
  IN  IF x = NULL \/ ~f[x].free THEN f
      ELSE [y \in DOMAIN f \ {x} |->
              CASE y = b -> [f[b] EXCEPT !.size = @ + f[x].size,
                                         !.next = f[x].next]
                [] y = f[x].next /\ y # b -> [f[y] EXCEPT !.prev = b]
                [] OTHER -> f[y]]

\* coalesce: first the next block is taken in, then the block goes into the
\* previous one.
MergeNext(f, b) ==
  LET x == f[b].next
  IN  IF x = NULL \/ ~f[x].free THEN f
      ELSE [y \in DOMAIN f \ {x} |->
              CASE y = b -> [f[b] EXCEPT !.size = @ + HDR + f[x].size,
                                         !.next = f[x].next]
                [] y = f[x].next /\ y # b -> [f[y] EXCEPT !.prev = b]
                [] OTHER -> f[y]]

MergePrev(f, b) ==
  LET q == f[b].prev
  IN  IF q = NULL \/ ~f[q].free THEN f
      ELSE [y \in DOMAIN f \ {b} |->
              CASE y = q -> [f[q] EXCEPT !.size = @ + HDR + f[b].size,
                                         !.next = f[b].next]
                [] y = f[b].next /\ y # q -> [f[y] EXCEPT !.prev = q]
                [] OTHER -> f[y]]

\* The previous block is forgotten.
coalesce_forward(f, b) == MergeNext(f, b)

coalesce(f, b) == MergePrev(MergeNext(f, b), b)

ReleaseBlock(h, b) ==
  [h EXCEPT !.blk = coalesce([h.blk EXCEPT ![b].free = TRUE], b),
            !.magic = h.magic \ {b}]

\* Hidden pointers are forgotten.
FreeTargetDirect(h, p) == IF p - HDR \in h.magic THEN p - HDR ELSE NULL

\* The block kfree releases: the one whose header is right before the pointer
\* or, failing the magic there, the one of the hidden pointer.
FreeTarget(h, p) ==
  IF p - HDR \in h.magic THEN p - HDR
  ELSE IF p - 1 \in DOMAIN h.hidden /\ h.hidden[p - 1] - HDR \in h.magic
       THEN h.hidden[p - 1] - HDR
       ELSE NULL

KfreeFrom(h, p) ==
  LET b == FreeTarget(h, p) IN IF b = NULL THEN h ELSE ReleaseBlock(h, b)

SetHeap(h) == blk' = h.blk /\ magic' = h.magic /\ hidden' = h.hidden

Hand(hs, p, n, al) ==
  handed' = [q \in DOMAIN hs \cup {p} |->
               IF q = p THEN [n |-> n, aligned |-> al] ELSE hs[q]]
Without(p) == [q \in DOMAIN handed \ {p} |-> handed[q]]
----------------------------------------------------------------------------
(* Calls. *)

\* kmalloc and kcalloc that find room (a size of 0 is refused, and so is a
\* size no free block holds; both leave the heap alone).
Kmalloc(n, b) ==
  /\ n > 0
  /\ IsFirstFit(Heap, align_up(n, ALIGN), b)
  /\ SetHeap(TakeBlock(Heap, b, align_up(n, ALIGN)))
  /\ Hand(handed, b + HDR, n, FALSE)

\* Over-allocates and returns the first page boundary inside the payload; the
\* word before it remembers the block.
KmallocAligned(n, b) ==
  LET want == align_up(align_up(n, ALIGN) + PAGE + HDR, ALIGN)
      raw  == b + HDR
      p    == align_up(raw, PAGE)
      h    == TakeBlock(Heap, b, want)
  IN  /\ IsFirstFit(Heap, want, b)
      /\ blk' = h.blk /\ magic' = h.magic
      /\ hidden' = IF p = raw THEN h.hidden
                   ELSE [a \in DOMAIN h.hidden \cup {p - 1} |->
                           IF a = p - 1 THEN raw ELSE h.hidden[a]]
      /\ Hand(handed, p, n, TRUE)

Kfree(p) ==
  /\ p \in DOMAIN handed
  /\ SetHeap(KfreeFrom(Heap, p))
  /\ handed' = Without(p)

\* krealloc of a block that is large enough, or to size 0, or by a new block
\* and a copy; without room for the new block nothing changes.
KreallocInPlace(p, n) ==
  /\ p \in DOMAIN handed /\ ~handed[p].aligned /\ n > 0
  /\ p - HDR \in magic /\ blk[p - HDR].size >= n
  /\ handed' = [handed EXCEPT ![p].n = n]
  /\ UNCHANGED <<blk, magic, hidden>>

KreallocToZero(p) == ~handed[p].aligned /\ Kfree(p)

KreallocMove(p, n, b) ==
  /\ p \in DOMAIN handed /\ ~handed[p].aligned /\ n > 0
  /\ ~(p - HDR \in magic /\ blk[p - HDR].size >= n)
  /\ IsFirstFit(Heap, align_up(n, ALIGN), b)
  /\ SetHeap(KfreeFrom(TakeBlock(Heap, b, align_up(n, ALIGN)), p))
  /\ Hand(Without(p), b + HDR, n, FALSE)

KhNext ==
  \/ \E n \in Requests, b \in DOMAIN blk : Kmalloc(n, b) \/ KmallocAligned(n, b)
  \/ \E p \in DOMAIN handed : Kfree(p) \/ KreallocToZero(p)
  \/ \E p \in DOMAIN handed, n \in Requests : KreallocInPlace(p, n)
  \/ \E p \in DOMAIN handed, n \in Requests, b \in DOMAIN blk :
       KreallocMove(p, n, b)

KhSpec == KhInit /\ [][KhNext]_khVars
----------------------------------------------------------------------------
(* Properties. *)

End(b) == b + HDR + blk[b].size

\* Headers lie in the arena and have sizes and links of their types, through
\* every split and merge of kheap.c.
KhTypeOK ==
  /\ DOMAIN blk \subseteq Addr
  /\ \A b \in DOMAIN blk : blk[b] \in BlockT
  /\ magic \subseteq Addr
  /\ \A p \in DOMAIN handed : handed[p] \in [n : Nat, aligned : BOOLEAN]

\* The list is the arena: from the head on, every block ends where the next
\* one starts and the last one ends with the arena; prev is the inverse of
\* next, and nothing that split_block or coalesce leaves behind overlaps.
ListTilesHeap ==
  /\ 0 \in DOMAIN blk /\ blk[0].prev = NULL
  /\ \A b \in DOMAIN blk :
       /\ IF blk[b].next = NULL THEN End(b) = HEAP_SIZE
          ELSE /\ blk[b].next = End(b) /\ End(b) \in DOMAIN blk
               /\ blk[End(b)].prev = b
       /\ \A c \in DOMAIN blk : b < c => End(b) <= c

\* Two free blocks are never neighbours: one kfree merges all that can be
\* merged, so memory is not lost to fragments that touch.
NoFreeNeighbours ==
  \A b \in DOMAIN blk : blk[b].free =>
    blk[b].next = NULL \/ ~blk[blk[b].next].free

\* The block of a pointer a caller holds.
OwnerOf(p, b) ==
  /\ b \in DOMAIN blk /\ ~blk[b].free
  /\ IF handed[p].aligned THEN p = align_up(b + HDR, PAGE) ELSE p = b + HDR
  /\ p + handed[p].n <= End(b)

\* Every pointer a caller holds has a used block of its own that holds all it
\* asked for, every used block has such a pointer, and kfree will find it:
\* aligned pointers included, no memory is leaked or given out twice.
PointersOwnBlocks ==
  /\ \A p \in DOMAIN handed : OwnerOf(p, FreeTarget(Heap, p))
  /\ \A p, q \in DOMAIN handed :
       FreeTarget(Heap, p) = FreeTarget(Heap, q) => p = q
  /\ \A b \in DOMAIN blk : ~blk[b].free =>
       \E p \in DOMAIN handed : FreeTarget(Heap, p) = b
=============================================================================
