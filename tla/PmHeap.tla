-------------------------------- MODULE PmHeap ------------------------------
(***************************************************************************)
(* The physical memory allocator, os/pm-alloc.c, with its pool of handles, *)
(* os/helper-pool.c, as os/os_alloc.c loads and unloads it.                *)
(*                                                                         *)
(* The free list lives in the free memory itself: the first unit of a free *)
(* block is its node.  Any other unit holds User, what a client wrote there *)
(* or an earlier node.  Addresses are unit numbers, -1 ends a list.        *)
(* Every call runs in one critical section.                                *)
(***************************************************************************)
EXTENDS Integers, FiniteSets, SequencesExt

CONSTANTS HeapUnits,      \* uTotalUnits
          MaxHandles,     \* uMaxHandles
          HeapBase,       \* uPhysicalAddress, in units
          UnitBytes,      \* __PM_ALLOC_UNIT
          HeapWord,       \* 2^32
          Requests,       \* uNumBytes that clients ask for
          Justifies       \* uJustify that clients ask for

ASSUME HeapAssumption ==
    /\ HeapUnits \in Nat \ {0} /\ HeapBase \in Nat /\ UnitBytes \in Nat \ {0}
    /\ MaxHandles \in Nat \ {0}
    /\ Requests \subseteq Nat /\ Justifies \subseteq 0 .. HeapWord - 1

HeapHandles == 1 .. MaxHandles

VARIABLES root,      \* gpPMRoot is set
          node,      \* the memory: a node or User in each unit
          npFreeList, uFreeUnits,
          pool,      \* pPoolHead and pNext of each handle, 0 is NULL
          handle     \* uPhysical (in units, without the base), uSize and the
                     \* justification it was asked for (history)

heapVars == <<root, node, npFreeList, uFreeUnits, pool, handle>>

User == [uUnits |-> 0, npNext |-> -2, npPrev |-> -2]
Addr == 0 .. HeapUnits - 1
Nodes == [uUnits : 0 .. HeapUnits, npNext : -2 .. HeapUnits - 1,
          npPrev : -2 .. HeapUnits - 1]
NoHandle == [addr |-> 0, uSize |-> 0, just |-> 0]

HeapTypeOK ==
    /\ root \in BOOLEAN
    /\ node \in [Addr -> Nodes]
    /\ npFreeList \in Addr \cup {-1}
    /\ uFreeUnits \in 0 .. HeapUnits
    /\ pool.head \in HeapHandles \cup {0}
    /\ pool.pNext \in [HeapHandles -> HeapHandles \cup {0}]
    /\ \A h \in HeapHandles : /\ handle[h].addr \in Addr
                              /\ handle[h].uSize \in 0 .. HeapUnits

-----------------------------------------------------------------------------
\* os_create_pool: every handle is in the chain.
os_create_pool ==
    [head |-> 1,
     pNext |-> [h \in HeapHandles |-> IF h + 1 \in HeapHandles THEN h + 1 ELSE 0]]

os_get_pool_status == pool.head # 0

\* os_get_from_pool unlinks the head.
os_get_from_pool(p) == [head |-> p.pNext[p.head], pNext |-> [p.pNext EXCEPT ![p.head] = 0]]

\* os_put_back_to_pool refuses a handle that still has a successor.
os_put_back_to_pool(p, h) ==
    IF p.pNext[h] # 0 THEN p
    ELSE [head |-> h, pNext |-> [p.pNext EXCEPT ![h] = p.head]]

-----------------------------------------------------------------------------
\* The nodes of the free list of memory m from p on; a link that does not
\* ascend is taken for corruption and ends the walk.
Walk(m, p) ==
    LET walk[q \in Addr \cup {-1, -2}] ==
            IF q < 0 THEN <<>>
            ELSE <<q>> \o (IF m[q].npNext > q THEN walk[m[q].npNext] ELSE <<>>)
    IN walk[p]

\* Units that are not a node of the list l hold what a client or an earlier
\* node left there.
NodesOf(m, l) == [p \in Addr |-> IF p \in Range(Walk(m, l)) THEN m[p] ELSE User]

Link(m, p, field, v) ==
    IF p < 0 THEN m
    ELSE [m EXCEPT ![p] = IF field = "next" THEN [@ EXCEPT !.npNext = v]
                                            ELSE [@ EXCEPT !.npPrev = v]]

\* The links of __insert_new_free_block.
Inserted(m, new, units, next, prev) ==
    LET m1 == [m EXCEPT ![new] = [uUnits |-> units, npNext |-> next, npPrev |-> prev]]
    IN Link(Link(m1, next, "prev", new), prev, "next", new)

\* The block behind it joins it.
MergeNext(m, new) ==
    LET next == m[new].npNext
        after == m[next].npNext
    IN IF next >= 0 /\ new + m[new].uUnits = next
       THEN Link([m EXCEPT ![new].npNext = after,
                           ![new].uUnits = @ + m[next].uUnits],
                 after, "prev", new)
       ELSE m

\* As MergePrev, but the successor keeps pointing back to the joined block.
MergePrevNoBack(m, new) ==
    LET prev == m[new].npPrev
    IN IF prev >= 0 /\ prev + m[prev].uUnits = new
       THEN [m EXCEPT ![prev].npNext = m[new].npNext,
                      ![prev].uUnits = @ + m[new].uUnits]
       ELSE m

\* It joins the block before it.
MergePrev(m, new) ==
    LET prev == m[new].npPrev
    IN IF prev >= 0 /\ prev + m[prev].uUnits = new
       THEN Link([m EXCEPT ![prev].npNext = m[new].npNext,
                           ![prev].uUnits = @ + m[new].uUnits],
                 m[new].npNext, "prev", prev)
       ELSE m

insert_new_free_block(m, new, units, next, prev, check_merge) ==
    LET m1 == Inserted(m, new, units, next, prev)
    IN IF check_merge THEN MergePrev(MergeNext(m1, new), new) ELSE m1

-----------------------------------------------------------------------------
\* The justification that is used for uJustify = j: a multiple of the unit, a
\* power of two, rounded up; -1 when that does not fit in a word.
HighBit(j) == CHOOSE b \in {2 ^ i : i \in 0 .. 30} : b <= j /\ j < 2 * b
Rounded(j) == IF j <= UnitBytes THEN 0
              ELSE IF HighBit(j) = j THEN j
              ELSE IF (2 * HighBit(j)) % HeapWord = 0 THEN -1
              ELSE 2 * HighBit(j)

\* Units to the next boundary of a justification of ju units.
Skip(p, ju) == ju - ((p + (HeapBase % ju)) % ju)

\* A free block fits a request for n units.  (The units to skip are counted
\* as ju when the block is on a boundary already.)
Fits(p, n, ju) == /\ node[p].uUnits >= n
                  /\ ju # 0 => node[p].uUnits >= n + Skip(p, ju)

\* The smallest block that fits, the first of them in the list; -1 if none.
BestFit(n, ju) ==
    LET fit == {p \in Range(Walk(node, npFreeList)) : Fits(p, n, ju)}
    IN IF fit = {} THEN -1
       ELSE CHOOSE p \in fit : \A q \in fit :
                \/ node[p].uUnits < node[q].uUnits
                \/ node[p].uUnits = node[q].uUnits /\ p <= q

\* The head of the block before the boundary stays in the list, and a tail.
SplitInThree(b, n, ju) ==
    LET head == Skip(b, ju)
        tail == node[b].uUnits - n - head
        m1 == Inserted(node, b, head, node[b].npNext, node[b].npPrev)
    IN [mem |-> IF tail = 0 THEN m1
                ELSE Inserted(m1, b + n + head, tail, m1[b].npNext, b),
        list |-> npFreeList,
        at |-> b + head]

\* The rest of the block takes its place in the list.
SplitInTwo(b, n) ==
    [mem |-> Inserted(node, b + n, node[b].uUnits - n, node[b].npNext, node[b].npPrev),
     list |-> IF b = npFreeList THEN b + n ELSE npFreeList,
     at |-> b]

\* As Unlinked, but the first block stays the first.
UnlinkedKeepingFirst(b) ==
    [mem |-> Link(Link(node, node[b].npNext, "prev", node[b].npPrev),
                  node[b].npPrev, "next", node[b].npNext),
     list |-> npFreeList,
     at |-> b]

\* The whole block leaves the list.
Unlinked(b) ==
    [mem |-> Link(Link(node, node[b].npNext, "prev", node[b].npPrev),
                  node[b].npPrev, "next", node[b].npNext),
     list |-> IF node[b].npPrev < 0 /\ b = npFreeList THEN node[b].npNext ELSE npFreeList,
     at |-> b]

Carve(b, n, ju) ==
    IF node[b].uUnits = n THEN Unlinked(b)
    ELSE IF ju # 0 /\ (b + (HeapBase % ju)) % ju # 0 THEN SplitInThree(b, n, ju)
    ELSE SplitInTwo(b, n)

\* pm_alloc_physical_justify; a refused request changes nothing.
pm_alloc_physical_justify(bytes, j) ==
    LET n == (bytes + UnitBytes - 1) \div UnitBytes
        ju == Rounded(j) \div UnitBytes
        b == BestFit(n, ju)
        c == Carve(b, n, ju)
        h == pool.head
    IN /\ root
       /\ bytes # 0
       /\ Rounded(j) # -1
       /\ os_get_pool_status
       /\ n <= uFreeUnits
       /\ b # -1
       /\ node' = NodesOf(c.mem, c.list)
       /\ npFreeList' = c.list
       /\ uFreeUnits' = uFreeUnits - n
       /\ pool' = os_get_from_pool(pool)
       /\ handle' = [handle EXCEPT ![h] = [addr |-> c.at, uSize |-> n, just |-> Rounded(j)]]
       /\ UNCHANGED root

-----------------------------------------------------------------------------
\* The free block after which p is to be inserted: the last one before it; -1
\* when there is none.
AfterMe(p) ==
    LET before == {q \in Range(Walk(node, npFreeList)) : q < p}
    IN IF before = {} THEN -1 ELSE CHOOSE q \in before : \A r \in before : r <= q

\* pm_free_physical: the handle goes back first, then the block; a handle
\* that is not in use, or a block that is free, is refused.
pm_free_physical(h) ==
    LET p == handle[h].addr
        n == handle[h].uSize
        a == AfterMe(p)
        next == IF a = -1 THEN npFreeList ELSE node[a].npNext
    IN /\ root
       /\ n # 0
       /\ handle' = [handle EXCEPT ![h] = NoHandle]
       /\ pool' = os_put_back_to_pool(pool, h)
       /\ IF p \in Range(Walk(node, npFreeList))
          THEN UNCHANGED <<node, npFreeList, uFreeUnits>>
          ELSE /\ npFreeList' = IF a = -1 THEN p ELSE npFreeList
               /\ node' = NodesOf(insert_new_free_block(node, p, n, next, a, TRUE),
                                  npFreeList')
               /\ uFreeUnits' = uFreeUnits + n
       /\ UNCHANGED root

-----------------------------------------------------------------------------
\* __pm_alloc_physical_init: one free block, all handles in the pool.
FreshHeap ==
    /\ node' = [p \in Addr |-> IF p = 0 THEN [uUnits |-> HeapUnits, npNext |-> -1,
                                              npPrev |-> -1]
                               ELSE User]
    /\ npFreeList' = 0
    /\ uFreeUnits' = HeapUnits
    /\ pool' = os_create_pool
    /\ handle' = [h \in HeapHandles |-> NoHandle]

\* __os_alloc_physical_init, when the module is loaded; a second one fails.
os_alloc_physical_init == ~root /\ root' = TRUE /\ FreshHeap

\* __os_alloc_physical_deinit, when the module is removed; what clients have
\* not given back is reported and lost.  (With all handles in use the report
\* follows a null pointer; that case is left out.)
os_alloc_physical_deinit ==
    /\ root
    /\ uFreeUnits # HeapUnits => os_get_pool_status
    /\ root' = FALSE
    /\ node' = [p \in Addr |-> User]
    /\ npFreeList' = 0
    /\ uFreeUnits' = 0
    /\ pool' = os_create_pool
    /\ handle' = [h \in HeapHandles |-> NoHandle]

HeapInit ==
    /\ root = FALSE
    /\ node = [p \in Addr |-> User]
    /\ npFreeList = 0
    /\ uFreeUnits = 0
    /\ pool = os_create_pool
    /\ handle = [h \in HeapHandles |-> NoHandle]

HeapNext ==
    \/ \E bytes \in Requests, j \in Justifies : pm_alloc_physical_justify(bytes, j)
    \/ \E h \in HeapHandles : pm_free_physical(h)
    \/ os_alloc_physical_init
    \/ os_alloc_physical_deinit

HeapSpec == HeapInit /\ [][HeapNext]_heapVars

-----------------------------------------------------------------------------
OwnedBy(h) == handle[h].addr .. (handle[h].addr + handle[h].uSize - 1)
OwnedUnits == UNION {OwnedBy(h) : h \in HeapHandles}
FreeBlocks == Range(Walk(node, npFreeList))

\* The free list, in the memory that clients return in any order, is sorted,
\* linked both ways and merged, and its blocks are exactly the memory no handle
\* owns (__insert_new_free_block, the splits of pm_alloc_physical_justify).
FreeListIsTheRest == root =>
    LET chain == Walk(node, npFreeList)
    IN /\ UNION {p .. (p + node[p].uUnits - 1) : p \in FreeBlocks} = Addr \ OwnedUnits
       /\ \A i \in DOMAIN chain :
             /\ node[chain[i]].npPrev = IF i = 1 THEN -1 ELSE chain[i - 1]
             /\ node[chain[i]].npNext = IF i = Len(chain) THEN -1 ELSE chain[i + 1]
             /\ i > 1 => chain[i - 1] + node[chain[i - 1]].uUnits < chain[i]
       /\ uFreeUnits = Cardinality(Addr \ OwnedUnits)

\* The pool's chain holds exactly the handles that are not in use, each once.
HandlesConserved == root =>
    LET chain[h \in HeapHandles \cup {0}] ==
            IF h = 0 THEN {} ELSE {h} \cup chain[pool.pNext[h]]
    IN chain[pool.head] = {h \in HeapHandles : handle[h].uSize = 0}

\* "justification is rounded to 2^n boundary": the physical address of a
\* block is a multiple of what was asked for.
JustifiedOnBoundary ==
    \A h \in HeapHandles : handle[h].uSize # 0 /\ handle[h].just # 0
        => (UnitBytes * (HeapBase + handle[h].addr)) % handle[h].just = 0

\* A request without justification is refused only when no run of free units
\* is long enough: freeing in any order leaves no seam in the list.
NoFalseRefusal == root =>
    \A n \in 1 .. HeapUnits :
        (\E a \in 0 .. HeapUnits - n : (a .. (a + n - 1)) \cap OwnedUnits = {})
            => BestFit(n, 0) # -1

\* Every handle in use owns its block alone, whatever others do.
Blocks == INSTANCE BlockHeap WITH owned <- [h \in HeapHandles |-> OwnedBy(h)]
GivesDisjointBlocks == Blocks!BlockSpec

\* The heap as its clients may rely on it.
HeapIsSound ==
    HeapTypeOK /\ FreeListIsTheRest /\ HandlesConserved /\ JustifiedOnBoundary /\ NoFalseRefusal
=============================================================================
