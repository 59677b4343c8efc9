-------------------------------- MODULE Slab --------------------------------
(***************************************************************************)
(* The paged slab of runtime/src/utils/slab.rs that holds the lifecycle of *)
(* every io_uring operation.  A key is its index in the concatenation of   *)
(* all pages; page i has PAGE_INITIAL_SIZE * 2^i slots.  Vacant slots of a *)
(* page form a linked list through the page itself, with `next' its head.  *)
(***************************************************************************)
EXTENDS Integers, FiniteSets, FiniteSetsExt

CONSTANTS
  NUM_PAGES,
  PAGE_INITIAL_SIZE,
  COMPACT_INTERVAL,
  GENERATIONS,        \* the wrap-around of the u32 generation counter
  Vals,
  NoVal               \* not in use

(* 1 << n.                                                                 *)
pow2[n \in Nat] == IF n = 0 THEN 1 ELSE 2 * pow2[n - 1]

ASSUME SlabAssumption ==
  /\ NUM_PAGES \in Nat \ {0}
  /\ \E e \in 0 .. PAGE_INITIAL_SIZE : PAGE_INITIAL_SIZE = pow2[e]
  /\ COMPACT_INTERVAL \in Nat \ {0}
  /\ GENERATIONS \in Nat \ {0}
  /\ GENERATIONS % COMPACT_INTERVAL = 0
  /\ NoVal \notin Vals

VARIABLES
  pages,       \* pages[i]: None, or the Page
  w_page_id,
  generation

slabVars == <<pages, w_page_id, generation>>

PageIds == 0 .. NUM_PAGES - 1
PageSize(i) == PAGE_INITIAL_SIZE * pow2[i]
PrevLen(i) == PageSize(i) - PAGE_INITIAL_SIZE
Keys == 0 .. PrevLen(NUM_PAGES) - 1

None == [slots |-> << >>, used |-> 0, initialized |-> 0, next |-> 0,
         allocated |-> FALSE]

Uninit == [tag |-> "Uninit"]
Vacant(n) == [tag |-> "Vacant", next |-> n]
Occupied(v) == [tag |-> "Occupied", val |-> v]

NewPage(i) ==
  [slots |-> [s \in 0 .. PageSize(i) - 1 |-> Uninit],
   used |-> 0, initialized |-> 0, next |-> 0, allocated |-> TRUE]

IsFull(i) == pages[i].allocated /\ pages[i].used = PageSize(i)

(* Number of significant bits: POINTER_WIDTH - leading_zeros.              *)
BitLength(n) ==
  CHOOSE b \in 0 .. n : n < pow2[b] /\ (b > 0 => pow2[b - 1] <= n)

PageIdOf ==
  [key \in Keys |->
     Min({BitLength((key + PAGE_INITIAL_SIZE) \div (2 * PAGE_INITIAL_SIZE)),
          NUM_PAGES - 1})]
get_page_id(key) == PageIdOf[key]

-----------------------------------------------------------------------------
SlabInit ==
  /\ pages = [i \in PageIds |-> None]
  /\ w_page_id = 0
  /\ generation = 0

(* Page::alloc followed by Page::set on a page that is not full.           *)
AllocSet(page, v) ==
  LET slot == page.next
      fresh == slot >= page.initialized
  IN  [page EXCEPT
         !.slots[slot] = Occupied(v),
         !.used = @ + 1,
         !.initialized = IF fresh THEN @ + 1 ELSE @,
         !.next = IF fresh THEN @ + 1 ELSE page.slots[slot].next]

(* The pages insert looks at; it panics "out of slot" if all are full.     *)
Candidates == {i \in w_page_id .. NUM_PAGES - 1 : ~IsFull(i)}

insert(v) ==
  /\ Candidates # {}
  /\ LET i == Min(Candidates)
         page == IF pages[i].allocated THEN pages[i] ELSE NewPage(i)
     IN  /\ pages' = [pages EXCEPT ![i] = AllocSet(page, v)]
         /\ w_page_id' = i
  /\ UNCHANGED generation

(* get: the entry a key denotes, if it is occupied.                        *)
EntryOf(key) ==
  LET i == get_page_id(key)
      slot == key - PrevLen(i)
  IN  IF pages[i].allocated /\ slot < pages[i].initialized
        THEN pages[i].slots[slot] ELSE Uninit

get(key) == EntryOf(key).tag = "Occupied"

(* Mutant: the removed slot is not put at the head of the free list.       *)
PageRemove_lost(page, slot) ==
  [page EXCEPT !.slots[slot] = Vacant(page.next), !.used = @ - 1]

(* Page::remove.                                                           *)
PageRemove(page, slot) ==
  [page EXCEPT !.slots[slot] = Vacant(page.next), !.next = slot,
               !.used = @ - 1]

(* Mutant: compaction does not look whether the last page is empty.        *)
mark_remove_unchecked(ps) ==
  LET last == Max({i \in PageIds : ps[i].allocated} \cup {0})
      compact == generation' % COMPACT_INTERVAL = 0
  IN  /\ generation' = (generation + 1) % GENERATIONS
      /\ w_page_id' = IF compact THEN 0 ELSE w_page_id
      /\ pages' = IF compact /\ last > 0 THEN [ps EXCEPT ![last] = None] ELSE ps

(* mark_remove, given the pages as the removal left them: every            *)
(* COMPACT_INTERVAL removals drop the last page if it is empty.            *)
mark_remove(ps) ==
  LET last == Max({i \in PageIds : ps[i].allocated} \cup {0})
      compact == generation' % COMPACT_INTERVAL = 0
  IN  /\ generation' = (generation + 1) % GENERATIONS
      /\ w_page_id' = IF compact THEN 0 ELSE w_page_id
      /\ pages' = IF compact /\ ps[last].used = 0 /\ last > 0
                    THEN [ps EXCEPT ![last] = None] ELSE ps

(* Ref::remove, on a Ref that get returned.                                *)
RefRemove(key) ==
  /\ get(key)
  /\ LET i == get_page_id(key)
     IN  mark_remove([pages EXCEPT ![i] = PageRemove(@, key - PrevLen(i))])

(* Slab::remove of a key that is not there: None if its page does not      *)
(* exist, otherwise the removal is counted all the same.                   *)
RemoveMissing(key) ==
  /\ ~get(key)
  /\ pages[get_page_id(key)].allocated
  /\ mark_remove(pages)

SlabNext ==
  \/ \E v \in Vals : insert(v)
  \/ \E key \in Keys : RefRemove(key) \/ RemoveMissing(key)

SlabSpec == SlabInit /\ [][SlabNext]_slabVars

-----------------------------------------------------------------------------
Live == {i \in PageIds : pages[i].allocated}
SlotsWith(i, tag) == {s \in DOMAIN pages[i].slots : pages[i].slots[s].tag = tag}

(* Successive values of `next' along the free list of page i.              *)
Chain(i) ==
  LET hop[n \in 0 .. PageSize(i)] ==
        IF n = 0 THEN pages[i].next
        ELSE LET s == hop[n - 1]
             IN  IF s \in SlotsWith(i, "Vacant") THEN pages[i].slots[s].next
                                                 ELSE s
  IN  hop

(* The free list visits every vacant slot and then the first uninitialized *)
(* one: no slot is lost, none is handed out twice, and the list has no     *)
(* cycle, however inserts and removes alternate.  So the debug_assert_eq!s *)
(* and the unreachable_unchecked of Page::alloc hold: the next slot is the *)
(* end of a full page, the first uninitialized slot, or a vacant one.      *)
FreeListExact ==
  \A i \in Live :
    LET p == pages[i]
        visited == {Chain(i)[n] : n \in 0 .. PageSize(i)}
    IN  /\ p.used = PageSize(i) => p.next = PageSize(i)
        /\ p.next = p.initialized \/ p.next \in SlotsWith(i, "Vacant")
        /\ visited = SlotsWith(i, "Vacant") \cup {pages[i].initialized}
        /\ pages[i].used = Cardinality(SlotsWith(i, "Occupied"))
        /\ SlotsWith(i, "Uninit") = pages[i].initialized .. PageSize(i) - 1

(* The slab as its user sees it, through get.                              *)
AbstractMap ==
  [key \in Keys |-> LET e == EntryOf(key)
                    IN  IF e.tag = "Occupied" THEN e.val ELSE NoVal]

(* The slab implements the map: an inserted key was not in use, keeps its  *)
(* value until it is removed, and compaction removes nothing else.         *)
Abstract == INSTANCE SlabMap WITH map <- AbstractMap
ImplementsMap == Abstract!Spec

=============================================================================
