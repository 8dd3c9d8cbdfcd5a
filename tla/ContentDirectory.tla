-------------------------- MODULE ContentDirectory --------------------------
(***************************************************************************)
(* The Search action of src/contentdirectory.cpp over the catalog: HTTP    *)
(* workers that look into the search cache, walk the catalog and store     *)
(* what they found, each under a lock of its own, while scans go on.       *)
(* A result is the set of slots of the items found, so that an item the    *)
(* catalog holds twice counts twice; their order is left out, and that the *)
(* walk lists what is below a folder once for each copy of the folder.     *)
(***************************************************************************)
EXTENDS MediaCatalog

CONSTANTS Worker,          \* HTTP worker threads
          Searched,        \* the nodes below which clients search
          Criteria,        \* search criteria with their sort order
          Matches,         \* [Criteria -> SUBSET Node]: the nodes they match
          MaxContainers,   \* kMaxSearchCacheContainers
          MaxItems         \* kMaxSearchCacheTotalItems

ASSUME SearchAssumption ==
  /\ Matches \in [Criteria -> SUBSET Node] /\ Searched \subseteq Node \cup {Top}
  /\ MaxContainers \in Nat \ {0} /\ MaxItems \in Nat \ {0}

VARIABLES cache,   \* m_searchCacheByContainer: container id -> entry
          total,   \* m_searchCacheTotalItems
          call     \* per worker: the Search it is in the middle of

svars == <<vars, cache, total, call>>

NoEntries == [c \in {} |-> {}]
NoSearch  == [stage |-> "none"]

-----------------------------------------------------------------------------
(* GetDescendants: what is listed below a container, and below every folder *)
(* found there.                                                            *)

ListsBelow(S, c) ==
  KidsOf(c) \subseteq S /\ \A s \in S : items[s].folder => KidsOf(items[s].id) \subseteq S

Descendants(c) == {s \in DOMAIN items : \A S \in SUBSET DOMAIN items : ListsBelow(S, c) => s \in S}

Found(c, q) == {s \in Descendants(c) : items[s].node \in Matches[q]}

-----------------------------------------------------------------------------
(* SearchCacheNeedsEviction, for a cache of which only the entries of C    *)
(* are left, before a result of n items for container c goes in.           *)

Sum(C) == Cardinality(UNION {{c} \X cache[c].result : c \in C})

NeedsEviction(C, left, c, n) ==
  \/ c \notin C /\ Cardinality(C) >= MaxContainers
  \/ LET previous == IF c \in C THEN Cardinality(cache[c].result) ELSE 0
         base     == IF left >= previous THEN left - previous ELSE 0
     IN  base + n > MaxItems

(* The entries evicted: oldest tag first, never the container's own, until *)
(* the result fits or no other is left.  Equal tags go in any order.       *)
Evicts(V, c, n) ==
  LET others == DOMAIN cache \ {c}
      after(S) == NeedsEviction(DOMAIN cache \ S, total - Sum(S), c, n)
  IN  /\ V \subseteq others
      /\ \A v \in V, k \in others \ V : cache[v].tag <= cache[k].tag
      /\ V = others \/ ~after(V)
      /\ V # {} => \E v \in V : /\ \A w \in V : cache[w].tag <= cache[v].tag
                                /\ after(V \ {v})

(* fault: an entry that is overwritten is not taken off the total *)
TotalLeaks(V, c, n) == total - Sum(V) + n

NewTotal(V, c, n) ==
  total - Sum(V) - (IF c \in DOMAIN cache THEN Cardinality(cache[c].result) ELSE 0) + n

-----------------------------------------------------------------------------
(* A Search reads the counter. *)
SearchBegins(w, c, q) ==
  /\ call[w].stage = "none" /\ gen > 0
  /\ c \in DOMAIN idx /\ items[idx[c]].node \in Searched
  /\ call' = [call EXCEPT ![w] = [stage |-> "ask", c |-> c, q |-> q, tag |-> updateId]]
  /\ UNCHANGED <<vars, cache, total>>

(* It asks the cache; a result stored under that counter answers it. *)
AskCache(w) ==
  /\ call[w].stage = "ask"
  /\ LET c == call[w].c
         hit == c \in DOMAIN cache /\ cache[c].tag = call[w].tag /\ cache[c].key = call[w].q
     IN  call' = [call EXCEPT ![w] = IF hit THEN NoSearch ELSE [@ EXCEPT !.stage = "walk"]]
  /\ UNCHANGED <<vars, cache, total>>

Walk(w) ==
  /\ call[w].stage = "walk"
  /\ call' = [call EXCEPT ![w] = [stage |-> "store", c |-> call[w].c, q |-> call[w].q,
                                  tag |-> call[w].tag,
                                  result |-> Found(call[w].c, call[w].q)]]
  /\ UNCHANGED <<vars, cache, total>>

(* fault: the entry is tagged with the counter as it is now *)
EntryTaggedNow(w) == [tag |-> updateId, key |-> call[w].q, result |-> call[w].result]

EntryOf(w) == [tag |-> call[w].tag, key |-> call[w].q, result |-> call[w].result]

Store(w) ==
  /\ call[w].stage = "store"
  /\ LET c == call[w].c
         n == Cardinality(call[w].result)
     IN  \E V \in SUBSET (DOMAIN cache \ {c}) :
           /\ Evicts(V, c, n)
           /\ cache' = [k \in (DOMAIN cache \ V) \cup {c} |->
                          IF k = c THEN EntryOf(w) ELSE cache[k]]
           /\ total' = NewTotal(V, c, n)
  /\ call' = [call EXCEPT ![w] = NoSearch]
  /\ UNCHANGED vars

SearchStep ==
  \E w \in Worker : \/ \E c \in DOMAIN idx, q \in Criteria : SearchBegins(w, c, q)
                    \/ AskCache(w) \/ Walk(w) \/ Store(w)

(* Server::Start and Server::Rescan call ClearSearchCache after the reset; *)
(* what a search stores between the two is cleared with the rest.          *)
ResetAndClear == (Start \/ Rescan) /\ cache' = NoEntries /\ total' = 0 /\ UNCHANGED call

SInit == Init /\ cache = NoEntries /\ total = 0 /\ call = [w \in Worker |-> NoSearch]

(* A crash leaves nothing of this component behind: it is not a step here. *)
SNext ==
  \/ (WorldStep \/ ScanStep \/ Stop) /\ UNCHANGED <<cache, total, call>>
  \/ ResetAndClear \/ SearchStep

SSpec == SInit /\ [][SNext]_svars

-----------------------------------------------------------------------------
(* A cached result that the counter says is current misses no item of the  *)
(* catalog, except one whose publisher has still to bump the counter: the  *)
(* counter is bumped after the item is in, and read before the walk.  Once *)
(* the ids are spent an item may get -1, which is what the root has for a  *)
(* parent.                                                                 *)
SearchMissesNothing ==
  ~spent /\ (\A s \in Sources : ~At(s, "bump")) =>
    \A c \in DOMAIN cache :
      cache[c].tag = updateId => Found(c, cache[c].key) \subseteq cache[c].result

(* The running total of cached items stays exact through overwriting,      *)
(* eviction, and clearing in the middle of a search, and both budgets      *)
(* hold; a result larger than the whole budget is cached alone.            *)
BudgetKept ==
  /\ total = Sum(DOMAIN cache)
  /\ Cardinality(DOMAIN cache) <= MaxContainers
  /\ total <= MaxItems \/ Cardinality(DOMAIN cache) = 1

=============================================================================
