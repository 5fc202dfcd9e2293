----------------------------- MODULE ContextItems -----------------------------
(***************************************************************************)
(* The context manager: items in lifecycle states and memory layers, with  *)
(* promotion, demotion, eviction by capacity, sweeping by age and          *)
(* invalidation.                                                           *)
(* Code: src/src/context/context-manager.js, context-lifecycle.js,         *)
(* context-memory-layers.js, context-promotion.js, context-demotion.js,    *)
(* context-invalidation-events.js, context-source-registry.js.             *)
(*                                                                         *)
(* A call either returns or throws; what it changed before it threw stays  *)
(* changed.  Timestamps are left out: which of its items a sweep finds too *)
(* old, and which of equally important ones an eviction takes first, is a  *)
(* choice.                                                                 *)
(***************************************************************************)
EXTENDS Naturals, FiniteSets

CONSTANTS Item,           \* the ids of the items
          WORKING_LAYERS, \* the working layers in use, of N0 to N3
          Capacity,       \* the capacity of each of them
          Importance,     \* the importance of each item, as a number
          NoItem          \* no item of this id is registered

ASSUME ContextAssumption ==
  /\ WORKING_LAYERS \subseteq {"N0", "N1", "N2", "N3"}
  /\ Capacity \in [WORKING_LAYERS -> Nat] /\ Importance \in [Item -> Nat]
  /\ IsFiniteSet(Item)

VARIABLE items

contextVars == <<items>>

LIFECYCLE_STATES ==
  {"CREATED", "ACTIVE", "COMPRESSED", "STALE", "INVALIDATED", "ARCHIVED"}
MEMORY_LAYERS == WORKING_LAYERS \cup {"ARCHIVE"}

Priority ==
  [l \in MEMORY_LAYERS |->
     CASE l = "N0" -> 0 [] l = "N1" -> 1 [] l = "N2" -> 2 [] l = "N3" -> 3
       [] l = "ARCHIVE" -> 4]

ContextItem == [lifecycle: LIFECYCLE_STATES, layer: MEMORY_LAYERS]

TERMINAL_STATES == {"INVALIDATED", "ARCHIVED"}

canTransition(from, to) ==
  to \in CASE from = "CREATED" -> {"ACTIVE", "STALE", "INVALIDATED", "ARCHIVED"}
           [] from \in {"ACTIVE", "STALE"} ->
                {"ACTIVE", "COMPRESSED", "STALE", "INVALIDATED", "ARCHIVED"} \ {from}
           [] from = "COMPRESSED" -> {"ACTIVE", "STALE", "INVALIDATED", "ARCHIVED"}
           [] OTHER -> {}

Registered == {i \in Item : items[i] # NoItem}
In(layer) == {i \in Registered : items[i].layer = layer}

\* What the items of S become, the others unchanged.
Change(S, f(_)) ==
  items' = [i \in Item |-> IF i \in S THEN f(items[i]) ELSE items[i]]
Turned(S, state) == Change(S, LAMBDA x : [x EXCEPT !.lifecycle = state])

-----------------------------------------------------------------------------
(* Registration, transitions and time.                                      *)

Register(i) ==
  \E layer \in WORKING_LAYERS :
    items' = [items EXCEPT ![i] = [lifecycle |-> "CREATED", layer |-> layer]]

Unregister(i) == i \in Registered /\ items' = [items EXCEPT ![i] = NoItem]

TransitionItem(i) ==
  \E next \in LIFECYCLE_STATES :
    /\ i \in Registered /\ canTransition(items[i].lifecycle, next)
    /\ Turned({i}, next)

\* Items are too old an hour, a day or a week after their timestamp; stale and
\* terminal ones never are.
SweepStale ==
  \E S \in SUBSET {i \in Registered :
                   items[i].lifecycle \in {"CREATED", "ACTIVE", "COMPRESSED"}} :
    Turned(S, "STALE")

-----------------------------------------------------------------------------
(* Layers.                                                                  *)

SetLayer(i) ==
  \E layer \in MEMORY_LAYERS :
    i \in Registered /\ Change({i}, LAMBDA x : [x EXCEPT !.layer = layer])

PromoteItem(i) ==
  \E layer \in WORKING_LAYERS :
    /\ i \in Registered /\ Priority[layer] < Priority[items[i].layer]
    /\ Change({i}, LAMBDA x :
         [x EXCEPT !.layer = layer,
                   !.lifecycle = IF @ = "COMPRESSED" THEN "ACTIVE" ELSE @])

DemoteItem(i) ==
  \E layer \in MEMORY_LAYERS :
    /\ i \in Registered /\ Priority[layer] > Priority[items[i].layer]
    /\ Change({i}, LAMBDA x :
         [x EXCEPT !.layer = layer,
                   !.lifecycle = IF layer = "ARCHIVE" /\ canTransition(@, "COMPRESSED")
                                 THEN "COMPRESSED" ELSE @])

PromoteArchive ==
  Change({i \in Registered : items[i].lifecycle \notin {"CREATED", "ACTIVE"}},
         LAMBDA x : [x EXCEPT !.layer = "ARCHIVE"])

-----------------------------------------------------------------------------
(* Eviction.                                                                *)

\* Mutant: the most important are evicted first.
EvictedBefore_Most(i, j) == Importance[i] > Importance[j]

EvictedBefore(i, j) == Importance[i] < Importance[j]

Surplus(layer) ==
  IF Cardinality(In(layer)) > Capacity[layer]
  THEN Cardinality(In(layer)) - Capacity[layer] ELSE 0

\* The selections the eviction may make: per layer its surplus, none of them
\* after one that is kept.
Selections ==
  {E \in SUBSET Registered :
     /\ \A i \in E : items[i].layer \in WORKING_LAYERS
     /\ \A layer \in WORKING_LAYERS :
          /\ Cardinality(E \cap In(layer)) = Surplus(layer)
          /\ \A i \in E \cap In(layer), j \in In(layer) \ E :
               ~EvictedBefore(j, i)}

\* Whether the eviction comes to i before it comes to j.
Precedes(i, j) ==
  \/ Priority[items[i].layer] < Priority[items[j].layer]
  \/ items[i].layer = items[j].layer /\ EvictedBefore(i, j)

Evictable(i) == canTransition(items[i].lifecycle, "COMPRESSED")

\* The loop stops at the first item whose transition throws.
Evicts(E, D) ==
  \/ D = E /\ \A i \in E : Evictable(i)
  \/ \E c \in E \ D :
       /\ ~Evictable(c)
       /\ \A i \in D : Evictable(i) /\ ~Precedes(c, i)
       /\ \A i \in E \ D : ~Precedes(i, c)

EvictForCapacity ==
  \E E \in Selections, D \in SUBSET Registered :
    /\ D \subseteq E /\ Evicts(E, D)
    /\ Change(D, LAMBDA x : [x EXCEPT !.lifecycle = "COMPRESSED", !.layer = "ARCHIVE"])

-----------------------------------------------------------------------------
(* Invalidation: of the ids of the event and of the evidence that depended  *)
(* on them, in the order of the event, until one of them is terminal.       *)

ApplyInvalidation ==
  \E S \in (SUBSET Registered) \ {{}} :
    LET terminal == {i \in S : items[i].lifecycle \in TERMINAL_STATES}
    IN  \E D \in SUBSET (S \ terminal) :
          /\ terminal = {} => D = S
          /\ Turned(D, "INVALIDATED")

-----------------------------------------------------------------------------
ContextInit == items = [i \in Item |-> NoItem]

ContextNext ==
  \/ \E i \in Item :
       \/ Register(i) \/ Unregister(i) \/ TransitionItem(i)
       \/ SetLayer(i) \/ PromoteItem(i) \/ DemoteItem(i)
  \/ SweepStale \/ PromoteArchive \/ EvictForCapacity \/ ApplyInvalidation

ContextSpec == ContextInit /\ [][ContextNext]_contextVars

-----------------------------------------------------------------------------
\* Items are absent or of their type.
ContextTypeOK == items \in [Item -> ContextItem \cup {NoItem}]

\* A step that may be an eviction, and changes something.
Compresses ==
  /\ items' # items
  /\ \A i \in Registered :
       items'[i] \in {items[i], [lifecycle |-> "COMPRESSED", layer |-> "ARCHIVE"]}

\* An eviction takes the least important first, whether or not it throws on the
\* way: what it moved is no more important than what it left in the layer.  And
\* a layer is over its capacity afterwards only if one of its items could not be
\* compressed (selectEvictions, evictForCapacity).
EvictionIsFair ==
  [][Compresses /\ EvictForCapacity =>
       \A layer \in WORKING_LAYERS :
         /\ \A i \in In(layer) \ In(layer)', j \in In(layer) \cap In(layer)' :
              Importance[i] <= Importance[j]
         /\ Cardinality(In(layer)') > Capacity[layer] =>
              \E i \in Registered : ~Evictable(i) /\ items[i].layer \in WORKING_LAYERS]_contextVars
=============================================================================
