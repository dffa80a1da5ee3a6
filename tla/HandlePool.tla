----------------------------- MODULE HandlePool -----------------------------
(***************************************************************************)
(* The rooting of values: js/src/gc/pool.rs and scope.rs.  A scope roots   *)
(* values in slots that the collector traces, and hands out pointers to    *)
(* them (handles).  The innermost scope takes slots from the root stack,   *)
(* which is cut when the scope is dropped; a scope that has others nested  *)
(* in it takes them from pages of its own, which are found through an      *)
(* intrusive list.  Pages, and the allocators that hold them, are reused.  *)
(*                                                                         *)
(* Scopes of different requests may be dropped in any order.  `handles' is *)
(* what the program holds on to: a handle lives as long as its scope, and  *)
(* no two may have the same slot.  A collection may move or free every     *)
(* value that no slot it traces refers to.  It may come after every step,  *)
(* so what a slot holds dangles as soon as the slot is not traced, and no  *)
(* more than this is told of it.                                           *)
(***************************************************************************)
EXTENDS Integers, Sequences, FiniteSets

CONSTANTS
    Scopes,         \* scopes; bound on those that are alive at a time.  Identities do not matter:
                    \* one that is not in use is taken, here and below
    Handles,        \* handles; bound on those that are alive at a time
    Pages,          \* addresses of private pages
    Boxes,          \* addresses of private allocations (PrivatePages)
    PageSize,       \* slots of a page
    MaxFreeAllocs,  \* released private allocations that are kept
    MaxLevels,      \* bound on levels
    Null            \* no page, no allocation

ASSUME PoolAssumption ==
    /\ PageSize \in Nat \ {0} /\ MaxFreeAllocs \in Nat /\ MaxLevels \in Nat
    /\ Null \notin Pages \cup Boxes

VARIABLES
    levels,      \* a base on the root stack, and whether its scope is alive, per scope
    top,         \* slots in use on the root stack
    stack,       \* the slots of the stack's pages
    scopes,      \* the live scopes: their level and private allocation
    boxes,       \* private allocations: pages, cursor, list pointers
    activeHead,  \* the head of the list of private allocations
    memory,      \* the slots of private pages
    freePages,   \* the freelist of pages
    freeAllocs,  \* the freelist of private allocations
    handles      \* the live handles: their scope and address

stackVars == <<levels, top, stack>>
privateVars == <<boxes, activeHead, memory, freePages, freeAllocs>>
poolVars == <<levels, top, stack, scopes, boxes, activeHead, memory, freePages, freeAllocs, handles>>

Slots == 1..PageSize

\* Page::new: zeroed.
NewPage == [i \in Slots |-> "null"]

\* Addresses: slot i of the root stack, or a slot of a private page.
OnStack(i) == [page |-> Null, slot |-> i]
InPage(p, i) == [page |-> p, slot |-> i]

NewBox == [page |-> Null, cursor |-> 0, full |-> {}, next |-> Null, prev |-> Null, active |-> FALSE]

-----------------------------------------------------------------------------
(* Tracing (HandlePool::trace).                                            *)

\* A set that holds the list's head and, with an allocation, the next one.
HoldsList(set) ==
    /\ activeHead # Null => activeHead \in set
    /\ \A b \in set : boxes[b].next # Null => boxes[b].next \in set

\* The walk from the head reaches what every such set holds.
Walked == {b \in Boxes : \A set \in SUBSET Boxes : HoldsList(set) => b \in set}

\* PrivatePages::trace: full pages, and the current one up to the cursor.
TracedIn(b, p, i) == p \in boxes[b].full \/ (p = boxes[b].page /\ i <= boxes[b].cursor)

TracedOnStack(i) == i <= top
TracedInPage(p, i) == \E b \in Walked : TracedIn(b, p, i)

\* What slots hold after a step and the collection that may follow: a traced one is updated,
\* what any other refers to may be gone.
Collected(content, traced) == IF traced \/ content = "null" THEN content ELSE "dangling"

CollectStack(slots) == [i \in DOMAIN slots |-> Collected(slots[i], TracedOnStack(i)')]
CollectMemory(mem) == [p \in Pages |-> [i \in Slots |-> Collected(mem[p][i], TracedInPage(p, i)')]]

-----------------------------------------------------------------------------
(* Scopes and the root stack.                                              *)

\* push_level.
PushLevel == levels' = Append(levels, [base |-> top, alive |-> TRUE])

\* A new scope: one for a realm that is entered or is current, or one nested in another.
NewScope ==
    /\ DOMAIN scopes # Scopes /\ Len(levels) < MaxLevels
    /\ PushLevel
    /\ LET new == CHOOSE sc \in Scopes : sc \notin DOMAIN scopes
       IN scopes' = [sc \in DOMAIN scopes \cup {new} |->
                       IF sc = new THEN [level |-> Len(levels) + 1, private |-> Null] ELSE scopes[sc]]
    /\ UNCHANGED <<top, stack, handles>> /\ UNCHANGED privateVars

\* is_innermost.
IsInnermost(sc) == scopes[sc].level = Len(levels)

\* from_marked_location: the handle of the value that was rooted.
NewHandle(sc, at) ==
    /\ DOMAIN handles # Handles
    /\ LET new == CHOOSE h \in Handles : h \notin DOMAIN handles
       IN handles' = [h \in DOMAIN handles \cup {new} |->
                        IF h = new THEN [scope |-> sc, at |-> at] ELSE handles[h]]

\* stack_alloc, for the innermost scope: the next slot, on a new page if the others are full.
StackAlloc(sc) ==
    /\ IsInnermost(sc)
    /\ top' = top + 1
    /\ LET slots == IF top = Len(stack) THEN stack \o NewPage ELSE stack
       IN stack' = CollectStack([slots EXCEPT ![top + 1] = "value"])
    /\ NewHandle(sc, OnStack(top + 1))
    /\ UNCHANGED <<levels, scopes>> /\ UNCHANGED privateVars

\* Mutant: the stack is cut to the base of the scope that is dropped.
Kept_Before(lv, level) == level - 1

\* pop_level: the levels up to the last scope that is alive stay.
Kept(lv, level) ==
    CHOOSE k \in 0..Len(lv) :
        /\ k # 0 => lv[k].alive /\ k # level
        /\ \A i \in (k + 1)..Len(lv) : lv[i].alive => i = level

PopLevel(level) ==
    LET k == Kept(levels, level)
    IN /\ levels' = [i \in 1..k |-> IF i = level THEN [levels[i] EXCEPT !.alive = FALSE] ELSE levels[i]]
       /\ top' = IF k < Len(levels) THEN levels[k + 1].base ELSE top
       /\ stack' = CollectStack(stack)

-----------------------------------------------------------------------------
(* Private allocations.                                                    *)

\* take_alloc, or a new allocation.
NewAllocs == {b \in Boxes : \A sc \in DOMAIN scopes : scopes[sc].private # b}
TakeAlloc == IF freeAllocs # {} THEN freeAllocs ELSE {b \in NewAllocs : b = CHOOSE x \in NewAllocs : TRUE}

\* register: at the head of the list.
Register(bs, b) ==
    [x \in Boxes |->
        IF x = b THEN [bs[b] EXCEPT !.cursor = 0, !.active = TRUE, !.next = activeHead, !.prev = Null]
        ELSE IF x = activeHead THEN [bs[x] EXCEPT !.prev = b] ELSE bs[x]]

\* take_page, or a new page.
NewPages == {p \in Pages : \A b \in Boxes : p \notin boxes[b].full /\ p # boxes[b].page}
TakePage == IF freePages # {} THEN freePages ELSE {p \in NewPages : p = CHOOSE x \in NewPages : TRUE}

\* PrivatePages::alloc: the next slot of the allocation's page, which is taken if there is none
\* or the one before is full.
AllocIn(bs, b, sc) ==
    LET box == bs[b]
        turn == box.page = Null \/ box.cursor = PageSize
        slot == IF box.cursor = PageSize THEN 1 ELSE box.cursor + 1
    IN \E p \in IF turn THEN TakePage ELSE {box.page} :
       /\ boxes' = [bs EXCEPT ![b].page = p, ![b].cursor = slot,
                              ![b].full = IF turn /\ box.page # Null THEN @ \cup {box.page} ELSE @]
       /\ freePages' = IF turn THEN freePages \ {p} ELSE freePages
       /\ memory' = CollectMemory([memory EXCEPT ![p] =
                        [(IF turn /\ freePages = {} THEN NewPage ELSE @) EXCEPT ![slot] = "value"]])
       /\ NewHandle(sc, InPage(p, slot))

\* private_alloc, for a scope that others are nested in.
PrivateAlloc(sc) ==
    /\ ~IsInnermost(sc)
    /\ \/ /\ scopes[sc].private # Null
          /\ UNCHANGED <<scopes, activeHead, freeAllocs>>
          /\ AllocIn(boxes, scopes[sc].private, sc)
       \/ /\ scopes[sc].private = Null
          /\ \E b \in TakeAlloc :
               /\ scopes' = [scopes EXCEPT ![sc].private = b]
               /\ activeHead' = b
               /\ freeAllocs' = freeAllocs \ {b}
               /\ AllocIn(Register(boxes, b), b, sc)
    /\ UNCHANGED stackVars

\* ScopeAlloc::alloc.
Alloc(sc) == StackAlloc(sc) \/ PrivateAlloc(sc)

\* unregister.
Unregister(b) ==
    LET prev == boxes[b].prev
        next == boxes[b].next
    IN [x \in Boxes |->
          IF x = prev THEN [boxes[x] EXCEPT !.next = next]
          ELSE IF x = next THEN [boxes[x] EXCEPT !.prev = prev] ELSE boxes[x]]

\* recycle: the pages go to the freelist, as does the allocation if there is room for it (else
\* its memory is that of a new one).
Recycle(b) ==
    /\ boxes' = [Unregister(b) EXCEPT ![b] =
                    IF Cardinality(freeAllocs) < MaxFreeAllocs
                      THEN [@ EXCEPT !.active = FALSE, !.page = Null, !.full = {}] ELSE NewBox]
    /\ activeHead' = IF boxes[b].prev # Null THEN activeHead ELSE boxes[b].next
    /\ freePages' = freePages \cup boxes[b].full \cup ({boxes[b].page} \ {Null})
    /\ freeAllocs' = IF Cardinality(freeAllocs) < MaxFreeAllocs THEN freeAllocs \cup {b} ELSE freeAllocs
    /\ memory' = CollectMemory(memory)

\* Dropping a scope: its private allocation is recycled, its level is popped.  Its handles are
\* gone with it.
DropScope(sc) ==
    /\ IF scopes[sc].private # Null THEN Recycle(scopes[sc].private) ELSE UNCHANGED privateVars
    /\ PopLevel(scopes[sc].level)
    /\ scopes' = [x \in DOMAIN scopes \ {sc} |-> scopes[x]]
    /\ handles' = [h \in {x \in DOMAIN handles : handles[x].scope # sc} |-> handles[h]]

-----------------------------------------------------------------------------
\* init_pool.
PoolInit ==
    /\ levels = <<>> /\ top = 0 /\ stack = <<>>
    /\ scopes = [sc \in {} |-> Null]
    /\ boxes = [b \in Boxes |-> NewBox] /\ activeHead = Null
    /\ memory = [p \in Pages |-> NewPage]
    /\ freePages = {} /\ freeAllocs = {} /\ handles = [h \in {} |-> Null]

PoolNext ==
    \/ NewScope
    \/ \E sc \in DOMAIN scopes : Alloc(sc) \/ DropScope(sc)

PoolSpec == PoolInit /\ [][PoolNext]_poolVars

-----------------------------------------------------------------------------
(* Properties.                                                             *)

Held(at) == IF at.page = Null THEN stack[at.slot] ELSE memory[at.page][at.slot]

\* "dropping one scope cannot invalidate another scope's handles": a handle's slot is its own
\* and is traced until its scope is dropped, whatever collections, other scopes and their drops,
\* in whatever order, do (ScopeAlloc::alloc, pop_level, recycle).
HandlesKeepTheirSlots ==
    /\ \A h \in DOMAIN handles : Held(handles[h].at) = "value"
    /\ \A h, g \in DOMAIN handles : handles[h].at = handles[g].at => h = g

\* The collector never looks at a slot whose value it may have freed (HandlePool::trace: "the
\* slots below `top` hold values of their tags").
NothingTracedDangles ==
    /\ \A i \in 1..top : stack[i] # "dangling"
    /\ \A p \in Pages, i \in Slots : TracedInPage(p, i) => memory[p][i] # "dangling"

\* Both: what is rooted stays, and what is traced is there.
RootsStay == HandlesKeepTheirSlots /\ NothingTracedDangles

=============================================================================
