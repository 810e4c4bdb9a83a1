---------------------------- MODULE ResultCache -----------------------------
(***************************************************************************)
(* The LRU result cache of cache/cache.go with its map, its list and its   *)
(* two-phase operations: Get looks the element up under the read lock,     *)
(* inspects the entry with no lock, and takes the lock again to drop the   *)
(* entry or to move it to the front; Put reads the version before it takes *)
(* the lock.  Clients are requests: a request that misses may store its    *)
(* result under the same key.  The scheduler sets the version and cleans   *)
(* up, the CacheClear RPC clears.                                          *)
(*                                                                         *)
(* An entry's age and version are abstracted to one bit: it is current     *)
(* until it outlives the TTL or, in a version-aware cache, until the       *)
(* version changes (versions are times of day and never come back).  Left  *)
(* out: the hit and miss counters, which nothing reads; what an entry      *)
(* holds; the disabled cache, which does nothing.  used is a history       *)
(* variable.                                                               *)
(***************************************************************************)
EXTENDS ContainerList, SequencesExt

CONSTANTS
    Clients,
    Keys,
    MaxEntries,     \* cache.max_entries
    VersionAware,   \* cache.version_aware
    ClearOverlaps   \* whether Clear may run between the two phases of a Get

ASSUME CacheAssumption ==
    /\ MaxEntries \in Nat \ {0}
    /\ VersionAware \in BOOLEAN /\ ClearOverlaps \in BOOLEAN
    /\ Root \notin Elems /\ Nil \notin Elems /\ Root # Nil
    /\ IsFiniteSet(Clients) /\ IsFiniteSet(Elems)
    /\ Cardinality(Elems) >= MaxEntries + Cardinality(Clients)     \* memory enough

VARIABLES
    items,      \* items[k]: the element of key k, or Nil
    order,      \* the list
    item,       \* item[e]: the cacheItem of element e, its key and whether it is current
    pc, key, elem,
    tag,        \* tag[c]: whether the version that a Put has read is still c.version
    sweep,      \* the keys that Cleanup has still to visit; it holds the lock meanwhile
    panicked,   \* the type assertion in evict has failed
    used        \* the cached keys, most recently used first

vars == <<items, order, item, pc, key, elem, tag, sweep, panicked, used>>

Init ==
    /\ items = [k \in Keys |-> Nil]
    /\ order = NewList
    /\ item = [e \in Elems |-> Nil]
    /\ pc = [c \in Clients |-> "idle"]
    /\ key = [c \in Clients |-> Nil]
    /\ elem = [c \in Clients |-> Nil]
    /\ tag = [c \in Clients |-> FALSE]
    /\ sweep = {}
    /\ panicked = FALSE
    /\ used = <<>>

Cached == {k \in Keys : items[k] # Nil}

\* The elements that some Get holds a pointer to.
Held == {elem[c] : c \in Clients} \ {Nil}

\* The garbage collector returns an element when no pointer leads to it.
Fresh ==
    Elems \ Reachable(order, {Root} \union {items[k] : k \in Cached} \union Held)

Stale(e) == ~item[e].current

\* The cacheItem i with its entry replaced or aged; it keeps its key.
Dated(i, current) == [key |-> i.key, current |-> current]

\* A step under the lock, while the process is alive and Cleanup is not at work.
Free == ~panicked /\ sweep = {}

Go(c, point) == pc' = [pc EXCEPT ![c] = point]

\* The request is over, with its local variables.
Done(c) ==
    /\ Go(c, "idle")
    /\ key' = [key EXCEPT ![c] = Nil]
    /\ elem' = [elem EXCEPT ![c] = Nil]
    /\ tag' = [tag EXCEPT ![c] = FALSE]

-----------------------------------------------------------------------------
(* Get                                                                     *)

GetLookup(c, k) ==
    /\ pc[c] = "idle" /\ Free
    /\ key' = [key EXCEPT ![c] = k]
    /\ elem' = [elem EXCEPT ![c] = items[k]]
    /\ Go(c, IF items[k] = Nil THEN "missed" ELSE "inspect")
    /\ UNCHANGED <<items, order, item, tag, sweep, panicked, used>>

\* The age and the version of the entry are read with no lock held.
GetInspect(c) ==
    /\ pc[c] = "inspect" /\ ~panicked
    /\ Go(c, IF Stale(elem[c]) THEN "drop" ELSE "touch")
    /\ UNCHANGED <<items, order, item, key, elem, tag, sweep, panicked, used>>

MutGetDrop(c) ==    \* remove is called without the lock
    /\ pc[c] = "drop" /\ ~panicked
    /\ order' = IF items[key[c]] = Nil THEN order ELSE RemoveElem(order, items[key[c]])
    /\ items' = [items EXCEPT ![key[c]] = Nil]
    /\ used' = RemoveFirst(used, key[c])
    /\ elem' = [elem EXCEPT ![c] = Nil]
    /\ Go(c, "missed")
    /\ UNCHANGED <<item, key, tag, sweep, panicked>>

\* remove deletes whatever element the key has by now.
GetDrop(c) ==
    /\ pc[c] = "drop" /\ Free
    /\ order' = IF items[key[c]] = Nil THEN order ELSE RemoveElem(order, items[key[c]])
    /\ items' = [items EXCEPT ![key[c]] = Nil]
    /\ used' = RemoveFirst(used, key[c])
    /\ elem' = [elem EXCEPT ![c] = Nil]
    /\ Go(c, "missed")
    /\ UNCHANGED <<item, key, tag, sweep, panicked>>

MutGetTouch(c) ==   \* a hit does not refresh the entry
    /\ pc[c] = "touch" /\ Free
    /\ used' = IF items[key[c]] = elem[c] THEN <<key[c]>> \o RemoveFirst(used, key[c]) ELSE used
    /\ Done(c)
    /\ UNCHANGED <<items, order, item, sweep, panicked>>

GetTouch(c) ==
    /\ pc[c] = "touch" /\ Free
    /\ order' = MoveToFront(order, elem[c])
    /\ used' = IF items[key[c]] = elem[c] THEN <<key[c]>> \o RemoveFirst(used, key[c]) ELSE used
    /\ Done(c)
    /\ UNCHANGED <<items, item, sweep, panicked>>

-----------------------------------------------------------------------------
(* Put                                                                     *)

\* A request that missed gives up: it only asked, was shed, or its search failed.
GiveUp(c) ==
    /\ pc[c] = "missed" /\ ~panicked
    /\ Done(c)
    /\ UNCHANGED <<items, order, item, sweep, panicked, used>>

PutTag(c) ==
    /\ pc[c] = "missed" /\ ~panicked
    /\ tag' = [tag EXCEPT ![c] = TRUE]
    /\ Go(c, "store")
    /\ UNCHANGED <<items, order, item, key, elem, sweep, panicked, used>>

PutOverwrite(c) ==
    /\ pc[c] = "store" /\ Free
    /\ items[key[c]] # Nil
    /\ order' = MoveToFront(order, items[key[c]])
    /\ item' = [item EXCEPT ![items[key[c]]] = Dated(@, tag[c])]
    /\ used' = <<key[c]>> \o RemoveFirst(used, key[c])
    /\ Done(c)
    /\ UNCHANGED <<items, sweep, panicked>>

MutFull == order.len > MaxEntries
Full == order.len >= MaxEntries

\* evict: nothing for an empty list.
Evicts == Full /\ Back(order) # Nil
EvictedOrder == IF Evicts THEN RemoveElem(order, Back(order)) ELSE order
EvictedItems == IF Evicts THEN [items EXCEPT ![item[Back(order)].key] = Nil] ELSE items

\* evict asserts that the last element holds an item; the sentinel holds none.
EvictPanics == Full /\ Back(order) = Root

PutInsert(c) ==
    /\ pc[c] = "store" /\ Free
    /\ items[key[c]] = Nil
    /\ panicked' = EvictPanics
    /\ IF EvictPanics
       THEN UNCHANGED <<items, order, item, used, pc, key, elem, tag>>
       ELSE /\ LET e == CHOOSE x \in Fresh : TRUE IN
                 /\ order' = PushFront(EvictedOrder, e)
                 /\ items' = [EvictedItems EXCEPT ![key[c]] = e]
                 /\ item' = [item EXCEPT ![e] = [key |-> key[c], current |-> tag[c]]]
            /\ used' = <<key[c]>> \o (IF Full /\ used # <<>> THEN Front(used) ELSE used)
            /\ Done(c)
    /\ UNCHANGED sweep

-----------------------------------------------------------------------------
(* The other callers                                                       *)

\* No entry made so far is current, nor any that a Put is about to store.
SetVersion ==
    /\ VersionAware /\ Free
    /\ item' = [e \in Elems |-> IF item[e] = Nil THEN Nil ELSE Dated(item[e], FALSE)]
    /\ tag' = [c \in Clients |-> FALSE]
    /\ UNCHANGED <<items, order, pc, key, elem, sweep, panicked, used>>

\* The loop over the map, in any order, with the lock held throughout.
Cleanup ==
    /\ Free /\ Cached # {}
    /\ sweep' = Cached
    /\ UNCHANGED <<items, order, item, pc, key, elem, tag, panicked, used>>

CleanupVisit(k) ==
    /\ k \in sweep /\ ~panicked
    /\ IF Stale(items[k])
       THEN /\ order' = RemoveElem(order, items[k])
            /\ items' = [items EXCEPT ![k] = Nil]
            /\ used' = RemoveFirst(used, k)
       ELSE UNCHANGED <<order, items, used>>
    /\ sweep' = sweep \ {k}
    /\ UNCHANGED <<item, pc, key, elem, tag, panicked>>

Clear ==
    /\ ClearOverlaps \/ \A c \in Clients : elem[c] = Nil
    /\ Cached # {} /\ Free
    /\ items' = [k \in Keys |-> Nil]
    /\ order' = Collect(InitList(order), Held)
    /\ used' = <<>>
    /\ UNCHANGED <<item, pc, key, elem, tag, sweep, panicked>>

\* An entry outlives the TTL.
Expire(e) ==
    /\ item[e] # Nil /\ ~panicked
    /\ item[e].current
    /\ e \in {items[k] : k \in Cached}
    /\ item' = [item EXCEPT ![e] = Dated(@, FALSE)]
    /\ UNCHANGED <<items, order, pc, key, elem, tag, sweep, panicked, used>>

Next ==
    \/ \E c \in Clients, k \in Keys : GetLookup(c, k)
    \/ \E c \in Clients : GetInspect(c) \/ GetDrop(c) \/ GetTouch(c)
    \/ \E c \in Clients : GiveUp(c) \/ PutTag(c) \/ PutOverwrite(c) \/ PutInsert(c)
    \/ SetVersion \/ Cleanup \/ Clear
    \/ \E k \in Keys : CleanupVisit(k)
    \/ \E e \in Elems : Expire(e)

Spec == Init /\ [][Next]_vars

-----------------------------------------------------------------------------
(* Properties                                                              *)

Points == {"idle", "inspect", "drop", "touch", "missed", "store"}

Item == [key : Keys, current : BOOLEAN]

\* Every variable has its type, and as long as no Clear falls between the phases of
\* a Get (ClearOverlaps) no step of Get, Put, Clear or Cleanup loses count of the
\* list: its length (order.Len) is that of a list with that many elements, never
\* negative and never more than there are elements.  Cleanup only visits keys of the
\* map, though Gets inspect their entries meanwhile; and a Put always finds a new
\* element.
TypeOK ==
    /\ items \in [Keys -> Elems \union {Nil}]
    /\ order \in Lists /\ order.len <= Cardinality(Elems)
    /\ item \in [Elems -> Item \union {Nil}]
    /\ pc \in [Clients -> Points]
    /\ key \in [Clients -> Keys \union {Nil}]
    /\ elem \in [Clients -> Elems \union {Nil}]
    /\ tag \in [Clients -> BOOLEAN]
    /\ sweep \subseteq Cached
    /\ panicked \in BOOLEAN
    /\ \A c \in Clients : pc[c] = "store" => Fresh # {}

\* The list is the elements of the cached keys in order of last use: what evict
\* takes from the back is the entry that has not been used for longest, and what it
\* deletes from the map is that entry's own key.  (As long as no Clear falls between
\* the phases of a Get.)
ListIsRecencyOrder ==
    /\ Represents(order, [i \in 1..Len(used) |-> items[used[i]]])
    /\ \A i \in 1..Len(used) : item[items[used[i]]].key = used[i]
    /\ ToSet(used) = Cached

\* cache.max_entries bounds the number of entries ("LRU maximum entries" of the
\* configuration reference), whatever Gets, Puts, Cleanup and version changes do to
\* the map and the list between the phases of a Get, as long as no Clear falls
\* there.  With that overlap the bound does not hold: MoveToFront links an element
\* that is in no map, and an evict that finds it at the back makes no room.
CapacityBound == Cardinality(Cached) <= MaxEntries

\* The last element of a list that is not empty holds an item, as the unchecked
\* type assertion of evict supposes.
EvictFindsAnItem == ~panicked
=============================================================================
