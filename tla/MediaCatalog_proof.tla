------------------------- MODULE MediaCatalog_proof -------------------------
(***************************************************************************)
(* Proofs about MediaCatalog, MediaCatalogHistory and ContentDirectory,    *)
(* for every set of nodes, every tree of them and every range of ids.      *)
(*                                                                         *)
(* The catalog's own invariant is CatalogInv: it needs NewestOK, that no   *)
(* copy of an id is of a later generation than the copy the index leads    *)
(* to, because that copy is the only one that PublishItem looks at.  The   *)
(* invariant of the ids is IdInv, that of the history HistInv: it says     *)
(* where in the tree of nodes every record belongs, what a scan still has  *)
(* before it, and what of its work is in the catalog already.  That of the *)
(* search cache is CacheInv: what carries the counter's value has missed   *)
(* nothing, neither in the cache nor on its way there.                     *)
(***************************************************************************)
EXTENDS MediaCatalogHistory, ContentDirectory, FiniteSetTheorems, TLAPS

NewestOK ==
  \A s \in DOMAIN items : items[s].gen <= items[idx[items[s].id]].gen

CatalogInv == CatalogOK /\ IndexAgrees /\ NewestOK /\ OneCopyPerGeneration

-----------------------------------------------------------------------------
(* The operations on the catalog, one by one.                              *)

(* Pushing an item of the running generation whose id has no copy in it    *)
(* keeps the catalog's invariant.                                          *)
LEMMA PushKeeps ==
  ASSUME CatalogInv, NEW it \in Item, it.gen = gen, ~Current(it.id), Push(it)
  PROVE  CatalogInv'
<1> USE DEF CatalogInv
<1> DEFINE new == size + 1
<1>1. /\ size \in Nat /\ gen \in Nat /\ gen' = gen /\ size' = new
      /\ it.id \in Int /\ it.parent \in Int /\ it.gen \in Nat
  BY DEF CatalogOK, Push, Append, Item
<1>2. new \notin DOMAIN items
  BY <1>1 DEF CatalogOK
<1>3. /\ DOMAIN items' = DOMAIN items \cup {new}
      /\ items'[new] = it
      /\ \A s \in DOMAIN items : items'[s] = items[s]
  BY <1>2 DEF Push, Append
<1>4. /\ DOMAIN idx' = DOMAIN idx \cup {it.id}
      /\ idx'[it.id] = new
      /\ \A i \in DOMAIN idx : i # it.id => idx'[i] = idx[i]
  BY DEF Push, Append
<1>5. /\ DOMAIN kids' = DOMAIN kids \cup {it.parent}
      /\ kids'[it.parent] = KidsOf(it.parent) \cup {new}
      /\ \A p \in DOMAIN kids : p # it.parent => kids'[p] = kids[p]
  BY DEF Push
<1>6. \A s \in DOMAIN items : items[s].id = it.id => items[s].gen < gen
  <2> SUFFICES ASSUME NEW s \in DOMAIN items, items[s].id = it.id
               PROVE  items[s].gen < gen
    OBVIOUS
  <2>1. it.id \in DOMAIN idx /\ items[idx[it.id]].gen # gen /\ idx[it.id] \in DOMAIN items
    BY DEF IndexAgrees, Current
  <2>2. items[idx[it.id]].gen \in Nat /\ items[idx[it.id]].gen <= gen /\ items[s].gen \in Nat
    BY <2>1 DEF CatalogOK, Item
  <2>3. items[s].gen <= items[idx[it.id]].gen
    BY DEF NewestOK
  <2> QED
    BY <2>1, <2>2, <2>3, <1>1
<1>7. CatalogOK'
  <2>1. items' = [s \in DOMAIN items' |-> items'[s]] /\ idx' = [i \in DOMAIN idx' |-> idx'[i]]
    BY DEF Push, Append
  <2>2. kids' = [p \in DOMAIN kids' |-> kids'[p]]
    BY DEF Push
  <2>3. \A s \in DOMAIN items' : s \in Nat /\ s <= size' /\ items'[s] \in Item /\ items'[s].gen <= gen'
    BY <1>1, <1>3 DEF CatalogOK, Item
  <2>4. \A i \in DOMAIN idx' : i \in Int /\ idx'[i] \in Nat
    BY <1>1, <1>4 DEF CatalogOK
  <2>5. \A p \in DOMAIN kids' : p \in Int /\ \A s \in kids'[p] : s \in Nat
    BY <1>1, <1>5 DEF CatalogOK, KidsOf
  <2> QED
    BY <1>1, <2>1, <2>2, <2>3, <2>4, <2>5 DEF CatalogOK
<1>8. IndexAgrees'
  <2>1. \A i \in DOMAIN idx' : idx'[i] \in DOMAIN items' /\ items'[idx'[i]].id = i
    BY <1>3, <1>4 DEF IndexAgrees
  <2>2. \A s \in DOMAIN items' : items'[s].id \in DOMAIN idx' /\ s <= idx'[items'[s].id]
    <3> SUFFICES ASSUME NEW s \in DOMAIN items'
                 PROVE  items'[s].id \in DOMAIN idx' /\ s <= idx'[items'[s].id]
      OBVIOUS
    <3>1. CASE s = new
      BY <3>1, <1>1, <1>3, <1>4
    <3>2. CASE s \in DOMAIN items
      BY <3>2, <1>1, <1>3, <1>4 DEF IndexAgrees, CatalogOK
    <3> QED
      BY <3>1, <3>2, <1>3
  <2>3. \A s \in DOMAIN items' : items'[s].node # Top =>
          items'[s].parent \in DOMAIN kids' /\ s \in kids'[items'[s].parent]
    BY <1>3, <1>5 DEF IndexAgrees, KidsOf
  <2>4. \A p \in DOMAIN kids' : \A s \in kids'[p] : s \in DOMAIN items' /\ items'[s].parent = p
    BY <1>3, <1>5 DEF IndexAgrees, KidsOf
  <2> QED
    BY <2>1, <2>2, <2>3, <2>4 DEF IndexAgrees
<1>9. NewestOK'
  <2> SUFFICES ASSUME NEW s \in DOMAIN items'
               PROVE  items'[s].gen <= items'[idx'[items'[s].id]].gen
    BY DEF NewestOK
  <2>1. CASE items'[s].id = it.id
    BY <2>1, <1>1, <1>3, <1>4, <1>6 DEF CatalogOK, Item
  <2>2. CASE items'[s].id # it.id
    BY <2>2, <1>3, <1>4 DEF IndexAgrees, NewestOK
  <2> QED
    BY <2>1, <2>2
<1>10. OneCopyPerGeneration'
  BY <1>1, <1>3, <1>6 DEF OneCopyPerGeneration, CatalogOK, Item
<1> QED
  BY <1>7, <1>8, <1>9, <1>10


(* Publishing keeps it, whether or not the item is already there. *)
LEMMA PublishKeeps ==
  ASSUME CatalogInv, NEW it \in Item, it.gen = gen, Publish(it)
  PROVE  CatalogInv' /\ gen' = gen
<1>1. CASE Current(it.id)
  BY <1>1 DEF Publish, catalog, CatalogInv, CatalogOK, IndexAgrees, NewestOK,
     OneCopyPerGeneration
<1>2. CASE ~Current(it.id)
  BY <1>2, PushKeeps DEF Publish, Push
<1> QED
  BY <1>1, <1>2

(* A reset, which moves the root to the generation it begins, keeps it. *)
LEMMA ResetKeeps ==
  ASSUME CatalogInv, ResetForRescan
  PROVE  CatalogInv' /\ gen' = gen + 1
<1> USE DEF CatalogInv
<1> DEFINE new == size + 1
<1>1. size \in Nat /\ gen \in Nat /\ gen' = gen + 1 /\ kids' = kids
  BY DEF CatalogOK, ResetForRescan
<1>2. CASE 0 \in DOMAIN idx
  <2>1. /\ DOMAIN items' = DOMAIN items /\ idx' = idx /\ size' = size
        /\ idx[0] \in DOMAIN items /\ items[idx[0]].id = 0
        /\ items' = [s \in DOMAIN items |-> IF s = idx[0]
                       THEN [items[s] EXCEPT !.gen = gen + 1] ELSE items[s]]
    BY <1>2 DEF ResetForRescan, IndexAgrees, CatalogOK
  <2>2. \A s \in DOMAIN items :
          /\ items'[s] \in Item /\ items'[s].id = items[s].id
          /\ items'[s].parent = items[s].parent /\ items'[s].node = items[s].node
          /\ items'[s].gen = IF s = idx[0] THEN gen + 1 ELSE items[s].gen
          /\ items[s].gen \in Nat /\ items[s].gen <= gen
    <3> SUFFICES ASSUME NEW s \in DOMAIN items
                 PROVE  /\ items'[s] \in Item /\ items'[s].id = items[s].id
                        /\ items'[s].parent = items[s].parent /\ items'[s].node = items[s].node
                        /\ items'[s].gen = IF s = idx[0] THEN gen + 1 ELSE items[s].gen
                        /\ items[s].gen \in Nat /\ items[s].gen <= gen
      OBVIOUS
    <3>1. items[s] \in Item /\ items[s].gen \in Nat /\ items[s].gen <= gen
      BY DEF CatalogOK, Item
    <3>2. CASE s = idx[0]
      <4>1. items'[s] = [items[s] EXCEPT !.gen = gen + 1]
        BY <2>1, <3>2
      <4> QED
        BY <4>1, <3>1, <3>2, <1>1 DEF Item
    <3>3. CASE s # idx[0]
      BY <2>1, <3>1, <3>3
    <3> QED
      BY <3>2, <3>3
  <2>3. CatalogOK'
    <3>1. items' = [s \in DOMAIN items' |-> items'[s]]
      BY <2>1
    <3>2. \A s \in DOMAIN items' : s \in Nat /\ s <= size' /\ items'[s] \in Item /\ items'[s].gen <= gen'
      BY <1>1, <2>1, <2>2 DEF CatalogOK
    <3> QED
      BY <1>1, <2>1, <3>1, <3>2 DEF CatalogOK
  <2>4. IndexAgrees'
    BY <1>1, <2>1, <2>2 DEF IndexAgrees
  <2>5. NewestOK'
    <3> SUFFICES ASSUME NEW s \in DOMAIN items
                 PROVE  items'[s].gen <= items'[idx[items[s].id]].gen
      BY <2>1, <2>2 DEF NewestOK
    <3> DEFINE t == idx[items[s].id]
    <3>1. t \in DOMAIN items /\ items[t].id = items[s].id /\ items[s].gen <= items[t].gen
      BY DEF IndexAgrees, NewestOK
    <3>2. items[s].gen \in Nat /\ items[s].gen <= gen /\ items[t].gen \in Nat
      BY <2>2, <3>1
    <3>3. s = idx[0] => t = idx[0]
      BY <2>1
    <3>4. items'[s].gen = (IF s = idx[0] THEN gen + 1 ELSE items[s].gen)
          /\ items'[t].gen = (IF t = idx[0] THEN gen + 1 ELSE items[t].gen)
      BY <2>2, <3>1
    <3> QED
      BY <1>1, <3>1, <3>2, <3>3, <3>4
  <2>6. OneCopyPerGeneration'
    <3> SUFFICES ASSUME NEW s \in DOMAIN items, NEW t \in DOMAIN items,
                        items[s].id = items[t].id, items'[s].gen = items'[t].gen
                 PROVE  s = t
      BY <2>1, <2>2 DEF OneCopyPerGeneration
    <3>1. items[s].gen \in Nat /\ items[s].gen <= gen /\ items[t].gen \in Nat /\ items[t].gen <= gen
      BY <2>2
    <3>2. items'[s].gen = (IF s = idx[0] THEN gen + 1 ELSE items[s].gen)
          /\ items'[t].gen = (IF t = idx[0] THEN gen + 1 ELSE items[t].gen)
      BY <2>2
    <3>3. CASE s = idx[0] \/ t = idx[0]
      <4>1. items[s].gen # gen + 1 /\ items[t].gen # gen + 1
        BY <1>1, <3>1
      <4> QED
        BY <3>2, <3>3, <4>1
    <3>4. CASE s # idx[0] /\ t # idx[0]
      BY <3>2, <3>4 DEF OneCopyPerGeneration
    <3> QED
      BY <3>3, <3>4
  <2> QED
    BY <1>1, <2>3, <2>4, <2>5, <2>6
<1>3. CASE 0 \notin DOMAIN idx
  <2>1. /\ RootItem \in Item /\ RootItem.id = 0 /\ RootItem.gen = gen + 1 /\ RootItem.node = Top
    BY <1>1 DEF RootItem, Item
  <2>2. /\ size' = new /\ new \notin DOMAIN items
        /\ DOMAIN items' = DOMAIN items \cup {new} /\ items'[new] = RootItem
        /\ \A s \in DOMAIN items : items'[s] = items[s]
        /\ items' = [s \in DOMAIN items' |-> items'[s]]
    BY <1>1, <1>3 DEF ResetForRescan, Append, CatalogOK
  <2>3. /\ DOMAIN idx' = DOMAIN idx \cup {0} /\ idx'[0] = new
        /\ \A i \in DOMAIN idx : idx'[i] = idx[i]
        /\ idx' = [i \in DOMAIN idx' |-> idx'[i]]
    BY <1>3, <2>1 DEF ResetForRescan, Append
  <2>4. \A s \in DOMAIN items : items[s].id # 0
    BY <1>3 DEF IndexAgrees
  <2>5. CatalogOK'
    <3>1. \A s \in DOMAIN items' : s \in Nat /\ s <= size' /\ items'[s] \in Item /\ items'[s].gen <= gen'
      BY <1>1, <2>1, <2>2 DEF CatalogOK, Item
    <3>2. \A i \in DOMAIN idx' : i \in Int /\ idx'[i] \in Nat
      BY <1>1, <2>3 DEF CatalogOK
    <3> QED
      BY <1>1, <2>2, <2>3, <3>1, <3>2 DEF CatalogOK
  <2>6. IndexAgrees'
    <3>1. \A i \in DOMAIN idx' : idx'[i] \in DOMAIN items' /\ items'[idx'[i]].id = i
      BY <2>1, <2>2, <2>3 DEF IndexAgrees
    <3>2. \A s \in DOMAIN items' : items'[s].id \in DOMAIN idx' /\ s <= idx'[items'[s].id]
      BY <1>1, <2>1, <2>2, <2>3, <2>4 DEF IndexAgrees
    <3>3. \A s \in DOMAIN items' : items'[s].node # Top =>
            items'[s].parent \in DOMAIN kids' /\ s \in kids'[items'[s].parent]
      BY <1>1, <2>1, <2>2 DEF IndexAgrees
    <3>4. \A p \in DOMAIN kids' : \A s \in kids'[p] : s \in DOMAIN items' /\ items'[s].parent = p
      BY <1>1, <2>2 DEF IndexAgrees
    <3> QED
      BY <3>1, <3>2, <3>3, <3>4 DEF IndexAgrees
  <2>7. NewestOK'
    BY <1>1, <2>1, <2>2, <2>3, <2>4 DEF IndexAgrees, NewestOK
  <2>8. OneCopyPerGeneration'
    BY <1>1, <2>1, <2>2, <2>4 DEF OneCopyPerGeneration
  <2> QED
    BY <1>1, <2>5, <2>6, <2>7, <2>8
<1> QED
  BY <1>2, <1>3

(* A sweep keeps it: the running generation holds every id once, so that   *)
(* the index it rebuilds leads to the only copy left.                      *)
LEMMA SweepKeeps ==
  ASSUME CatalogInv, SweepStaleEntries
  PROVE  CatalogInv' /\ gen' = gen
<1> USE DEF CatalogInv
<1>1. /\ gen \in Nat /\ size \in Nat /\ gen' = gen /\ size' = size
      /\ DOMAIN items' = Swept /\ Swept \subseteq DOMAIN items
      /\ \A s \in Swept : items'[s] = items[s] /\ items[s].gen = gen
      /\ items' = [s \in DOMAIN items' |-> items'[s]]
  BY DEF SweepStaleEntries, Swept, CatalogOK
<1>2. \A s \in Swept : s \in Nat /\ s <= size /\ items[s] \in Item
  BY <1>1 DEF CatalogOK
<1>3. \A s, t \in Swept : items[s].id = items[t].id => s = t
  BY <1>1 DEF OneCopyPerGeneration
<1>4. \A s \in Swept : Newest(Swept, items[s].id) = s
  <2> SUFFICES ASSUME NEW s \in Swept
               PROVE  Newest(Swept, items[s].id) = s
    OBVIOUS
  <2> DEFINE Q(u) == items[u].id = items[s].id /\ \A t \in Swept : items[t].id = items[s].id => t <= u
  <2>1. Q(s)
    BY <1>2, <1>3
  <2>2. \A u \in Swept : Q(u) => u = s
    BY <1>3
  <2> HIDE DEF Q
  <2>3. (CHOOSE u \in Swept : Q(u)) = s
    BY <2>1, <2>2
  <2> QED
    BY <2>3 DEF Newest, Q
<1>5. /\ DOMAIN idx' = {items[s].id : s \in Swept}
      /\ idx' = [i \in DOMAIN idx' |-> idx'[i]]
      /\ \A s \in Swept : idx'[items[s].id] = s
  BY <1>4 DEF SweepStaleEntries
<1>6. /\ DOMAIN kids' = {items[s].parent : s \in Swept}
      /\ kids' = [p \in DOMAIN kids' |-> kids'[p]]
      /\ \A p \in DOMAIN kids' : kids'[p] = {s \in Swept : items[s].parent = p}
  BY DEF SweepStaleEntries
<1>7. CatalogOK'
  <2>1. \A s \in DOMAIN items' : s \in Nat /\ s <= size' /\ items'[s] \in Item /\ items'[s].gen <= gen'
    BY <1>1, <1>2
  <2>2. \A i \in DOMAIN idx' : i \in Int /\ idx'[i] \in Nat
    BY <1>2, <1>5 DEF Item
  <2>3. \A p \in DOMAIN kids' : p \in Int /\ \A s \in kids'[p] : s \in Nat
    BY <1>2, <1>6 DEF Item
  <2> QED
    BY <1>1, <1>5, <1>6, <2>1, <2>2, <2>3 DEF CatalogOK
<1>8. IndexAgrees'
  <2>1. \A i \in DOMAIN idx' : idx'[i] \in DOMAIN items' /\ items'[idx'[i]].id = i
    BY <1>1, <1>5
  <2>2. \A s \in DOMAIN items' : items'[s].id \in DOMAIN idx' /\ s <= idx'[items'[s].id]
    BY <1>1, <1>2, <1>5
  <2>3. \A s \in DOMAIN items' : items'[s].parent \in DOMAIN kids' /\ s \in kids'[items'[s].parent]
    BY <1>1, <1>6
  <2>4. \A p \in DOMAIN kids' : \A s \in kids'[p] : s \in DOMAIN items' /\ items'[s].parent = p
    BY <1>1, <1>6
  <2> QED
    BY <2>1, <2>2, <2>3, <2>4 DEF IndexAgrees
<1>9. NewestOK'
  BY <1>1, <1>5 DEF NewestOK
<1>10. OneCopyPerGeneration'
  BY <1>1, <1>3 DEF OneCopyPerGeneration
<1> QED
  BY <1>1, <1>7, <1>8, <1>9, <1>10

-----------------------------------------------------------------------------
(* The database, as far as its types go.                                   *)

(* The id a key has, or is about to be given, is a number. *)
LEMMA IdTypes ==
  ASSUME NEW d, DbOK(d), NEW key, NEW id \in StableIds(d, key)
  PROVE  id \in Int
BY DEF DbOK, RecsOK, StableIds, Known

(* GetOrCreateStableIdLocked keeps the types of a database, whichever of its
   answers it takes. *)
LEMMA GetOrCreateTypes ==
  ASSUME NEW d, DbOK(d), NEW key, NEW id \in Int
  PROVE  DbOK(GetOrCreate(d, key, id)) /\ DbOK(RecordScanError(d, key, id))
<1>1. RecsOK(WithRecord(d.recs, key, id))
  BY DEF DbOK, RecsOK, WithRecord
<1>2. NextIdAfter(d, key) \in Int
  BY IdAssumption DEF DbOK, NextIdAfter
<1> QED
  BY <1>1, <1>2 DEF DbOK, GetOrCreate, RecordScanError

(* MediaDatabase::Load fills a well-typed database from a well-typed file. *)
LEMMA LoadTypes ==
  ASSUME RecsOK(file.recs), NEW d \in Load(file)
  PROVE  DbOK(BeginScanPass(d))
<1>1. RecsOK(Keeping(file.recs, Loadable(file)))
  BY DEF RecsOK, Keeping, Loadable
<1>2. d.nextId \in Int /\ d.recs = Keeping(file.recs, Loadable(file)) /\ d.freed = {}
  BY IdAssumption DEF Load, Wrapped
<1> QED
  BY <1>1, <1>2 DEF DbOK, BeginScanPass

(* PruneUntouched and Save keep the types of the database and of the file. *)
LEMMA SaveTypes ==
  ASSUME DbOK(db)
  PROVE  /\ RecsOK(FileOf(PruneUntouched(db)).recs)
         /\ \A id : RecsOK(FileBelow(PruneUntouched(db), id).recs)
BY DEF DbOK, RecsOK, FileOf, FileBelow, Below, PruneUntouched, Keeping

(* The database a scan constructs is well-typed. *)
LEMMA NewDbTypes == DbOK(NewDb)
BY IdAssumption DEF DbOK, RecsOK, NewDb, NoRecords

-----------------------------------------------------------------------------
(* The inductive invariant. *)

Inv == TypeOK /\ IndexAgrees /\ NewestOK /\ OneCopyPerGeneration

(* What an action that leaves the catalog alone leaves of the invariant. *)
LEMMA CatalogUntouched ==
  ASSUME CatalogInv, UNCHANGED catalog
  PROVE  CatalogInv'
BY DEF catalog, CatalogInv, CatalogOK, IndexAgrees, NewestOK, OneCopyPerGeneration

(* Recording the failure of a folder keeps the types of the database. *)
LEMMA ScanErrorTypes ==
  ASSUME TypeOK, NEW key, ScanError(key)
  PROVE  DbOK(db)' /\ spent' \in BOOLEAN
<1>1. PICK id \in StableIds(db, key) :
        db' = RecordScanError(db, key, id) /\ spent' = (spent \/ Spends(db, key))
  BY DEF ScanError
<1>2. id \in Int
  BY IdTypes DEF TypeOK
<1> QED
  BY <1>1, <1>2, GetOrCreateTypes DEF TypeOK, DbOK

(* The record a task takes its id from keeps the types of the database. *)
LEMMA TakeTypes ==
  ASSUME TypeOK, NEW key, NEW id, Take(key, id)
  PROVE  id \in Int /\ DbOK(db)' /\ spent' \in BOOLEAN
<1>1. id \in Int
  BY IdTypes DEF Take, TypeOK
<1> QED
  BY <1>1, GetOrCreateTypes DEF Take, TypeOK, DbOK

(* PublishContainer, which makes an item current or pushes a new one, keeps the
   catalog's invariant. *)
LEMMA PublishContainerKeeps ==
  ASSUME Inv, NEW s \in Sources, NEW n \in Node, NEW pid \in Int, NEW es \in SUBSET Node,
         PublishContainer(s, n, pid, es)
  PROVE  /\ DbOK(db)' /\ spent' \in BOOLEAN
         /\ CatalogInv' /\ cur' \in [Sources -> Calls]
<1>1. PICK id \in StableIds(db, ContainerKey(n, pid)) :
        /\ Take(ContainerKey(n, pid), id)
        /\ Publish(ItemOf(n, pid, id))
        /\ Enter(s, Call(IF Current(id) THEN "published" ELSE "bump", n, pid, id, es))
  BY DEF PublishContainer
<1>2. id \in Int /\ DbOK(db)' /\ spent' \in BOOLEAN
  BY <1>1, TakeTypes DEF Inv
<1>3. ItemOf(n, pid, id) \in Item /\ ItemOf(n, pid, id).gen = gen
  BY <1>2 DEF ItemOf, Item, IsFolder, Inv, TypeOK, CatalogOK
<1>4. CatalogInv'
  BY <1>1, <1>3, PublishKeeps DEF Inv, CatalogInv, TypeOK
<1>5. Call(IF Current(id) THEN "published" ELSE "bump", n, pid, id, es) \in Calls
  BY <1>2 DEF Call, Calls, Stages
<1>6. cur' \in [Sources -> Calls]
  BY <1>1, <1>5 DEF Enter, Inv, TypeOK, JobsOK
<1> QED
  BY <1>2, <1>4, <1>6

(* The empty catalog, with its root alone, satisfies the invariant. *)
THEOREM InvInit == Init => Inv
<1> SUFFICES ASSUME Init PROVE Inv
  OBVIOUS
<1>1. CatalogInv
  BY DEF Init, CatalogInv, CatalogOK, IndexAgrees, NewestOK, OneCopyPerGeneration,
         NoItems, NoIndex, NoKids
<1>2. JobsOK
  BY NodeAssumption DEF Init, JobsOK, NoTodo, NoCalls, NoCall, Calls, Stages, Sources
<1>3. RecsOK(file.recs)
  BY DEF Init, EmptyFile, NoRecords, RecsOK
<1> QED
  BY <1>1, <1>2, <1>3, NewDbTypes, NodeAssumption
  DEF Init, Inv, TypeOK, CatalogInv, Whos

(* The catalog's part of a step, action by action. *)
LEMMA InvNext ==
  ASSUME Inv, [Next]_vars
  PROVE  Inv'
<1> USE DEF Inv
<1>a. CatalogInv /\ TypeOK
  BY DEF CatalogInv, TypeOK
<1>b. ASSUME CatalogInv', RecsOK(file.recs)', DbOK(db)', JobsOK', gone' \subseteq Node, down' \subseteq Node,
             updateId' \in Nat, pc' \in {"idle", "open", "jobs", "check", "save"},
             cancelled' \in BOOLEAN, up' \in BOOLEAN, spent' \in BOOLEAN,
             pending' \in Whos, owner' \in Whos
      PROVE  Inv'
  BY <1>b DEF CatalogInv, TypeOK
<1>1. CASE WorldStep
  <2>1. gone' \subseteq Node /\ down' \subseteq Node
    BY <1>1, NodeAssumption DEF WorldStep, Remove, PutBack, GoDown, ComeUp, TypeOK
  <2>2. CatalogInv'
    BY <1>1, <1>a, CatalogUntouched DEF WorldStep
  <2> QED
    BY <1>1, <1>b, <2>1, <2>2 DEF WorldStep, TypeOK, jobs, server, JobsOK, RecsOK, DbOK
<1>2. CASE BeginScan
  <2>1. PICK d \in Load(file) : db' = BeginScanPass(d) /\ spent' = (spent \/ d.nextId < Base)
    BY <1>2 DEF BeginScan, LoadDatabase
  <2>2. DbOK(db)' /\ spent' \in BOOLEAN
    BY <2>1, LoadTypes DEF TypeOK, DbOK
  <2>3. JobsOK'
    BY <1>2 DEF BeginScan, LoadDatabase, JobsOK, NoTodo, NoCalls, NoCall, Calls, Stages
  <2>4. CatalogInv'
    BY <1>2, <1>a, CatalogUntouched DEF BeginScan
  <2> QED
    BY <1>2, <1>b, <2>2, <2>3, <2>4 DEF BeginScan, LoadDatabase, TypeOK, world, RecsOK, Whos
<1>3. ASSUME NEW s \in Sources, OpenSource(s) PROVE Inv'
  <2>1. s \in Node
    BY DEF Sources
  <2>2. /\ unopened' \subseteq Sources /\ UNCHANGED <<world, file, updateId, pc, server>>
    BY <1>3 DEF OpenSource, TypeOK, JobsOK
  <2>3. CASE ScanError(ErrorKey(s, 0)) /\ UNCHANGED <<catalog, todo, cur>>
    BY <2>2, <2>3, <1>a, <1>b, ScanErrorTypes, CatalogUntouched DEF world, server, TypeOK,
       JobsOK, RecsOK
  <2>4. CASE todo' = [todo EXCEPT ![s] = {<<s, 0>>}] /\ UNCHANGED <<db, spent, catalog, cur>>
    BY <2>1, <2>2, <2>4, <1>a, <1>b, CatalogUntouched DEF world, server, TypeOK, JobsOK,
       RecsOK, DbOK
  <2>5. CASE (\E es \in SUBSET Node : PublishContainer(s, s, 0, es)) /\ UNCHANGED todo
    <3>1. DbOK(db)' /\ spent' \in BOOLEAN /\ CatalogInv' /\ cur' \in [Sources -> Calls]
      BY <2>1, <2>5, PublishContainerKeeps
    <3> QED
      BY <2>2, <2>5, <3>1, <1>b DEF world, server, TypeOK, JobsOK, RecsOK
  <2> QED
    BY <1>3, <2>1, <2>3, <2>4, <2>5 DEF OpenSource
<1>4. CASE StartJobs
  <2>1. CatalogInv'
    BY <1>4, <1>a, CatalogUntouched DEF StartJobs
  <2> QED
    BY <1>4, <1>b, <2>1 DEF StartJobs, TypeOK, world, jobs, server, JobsOK, RecsOK, DbOK
<1>5. ASSUME NEW s \in Sources, BumpUpdateId(s) PROVE Inv'
  <2>1. CatalogInv'
    BY <1>5, <1>a, CatalogUntouched DEF BumpUpdateId
  <2>2. cur' \in [Sources -> Calls]
    BY <1>5 DEF BumpUpdateId, Enter, TypeOK, JobsOK, Calls, Stages
  <2> QED
    BY <1>5, <1>b, <2>1, <2>2 DEF BumpUpdateId, TypeOK, world, server, JobsOK, RecsOK, DbOK
<1>6. ASSUME NEW s \in Sources, Visit(s) PROVE Inv'
  <2>1. PICK t \in todo[s] : \/ VisitFolder(s, t[1], t[2])
                             \/ VisitPlaylist(s, t[1], t[2])
                             \/ VisitFile(s, t[1], t[2])
    BY <1>6 DEF Visit
  <2>2. t[1] \in Node /\ t[2] \in Int /\ t = <<t[1], t[2]>>
    BY DEF TypeOK, JobsOK
  <2>3. TakeTask(s, t)
    BY <2>1, <2>2 DEF VisitFolder, VisitPlaylist, VisitFile
  <2>4. /\ UNCHANGED <<world, file, updateId, pc, unopened, server>>
        /\ DOMAIN todo' = Sources /\ \A r \in Sources : \A u \in todo'[r] : u \in Node \X Int
    BY <2>3 DEF TakeTask, TypeOK, JobsOK
  <2>5. CASE \E es \in SUBSET Node : PublishContainer(s, t[1], t[2], es)
    <3>1. DbOK(db)' /\ spent' \in BOOLEAN /\ CatalogInv' /\ cur' \in [Sources -> Calls]
      BY <2>2, <2>5, PublishContainerKeeps
    <3> QED
      BY <2>4, <3>1, <1>b DEF world, server, TypeOK, JobsOK, RecsOK
  <2>6. CASE ScanError(ErrorKey(t[1], t[2])) /\ UNCHANGED <<catalog, cur>>
    BY <2>4, <2>6, <1>a, <1>b, ScanErrorTypes, CatalogUntouched DEF world, server, TypeOK,
       JobsOK, RecsOK
  <2>7. CASE UNCHANGED <<db, spent, catalog, cur>>
    BY <2>4, <2>7, <1>a, <1>b, CatalogUntouched DEF world, server, TypeOK, JobsOK, RecsOK, DbOK
  <2>8. CASE VisitFile(s, t[1], t[2])
    <3>1. PICK id : Take(MediaKey(t[1], t[2]), id) /\ Enter(s, Call("publish", t[1], t[2], id, {}))
      BY <2>8 DEF VisitFile
    <3>2. id \in Int /\ DbOK(db)' /\ spent' \in BOOLEAN
      BY <3>1, <1>a, TakeTypes
    <3>3. cur' \in [Sources -> Calls]
      BY <2>2, <3>1, <3>2 DEF Enter, Call, Calls, Stages, TypeOK, JobsOK
    <3>4. CatalogInv'
      BY <2>8, <1>a, CatalogUntouched DEF VisitFile
    <3> QED
      BY <2>4, <3>2, <3>3, <3>4, <1>b DEF world, server, TypeOK, JobsOK, RecsOK
  <2>9. Entries(t[1]) \in SUBSET Node
    BY DEF Entries
  <2> QED
    BY <2>1, <2>5, <2>6, <2>7, <2>8, <2>9 DEF VisitFolder, VisitPlaylist
<1>7. ASSUME NEW s \in Sources, Discard(s) PROVE Inv'
  <2>1. CatalogInv'
    BY <1>7, <1>a, CatalogUntouched DEF Discard
  <2>2. DOMAIN todo' = Sources /\ \A r \in Sources : \A u \in todo'[r] : u \in Node \X Int
    BY <1>7 DEF Discard, TypeOK, JobsOK
  <2> QED
    BY <1>7, <1>b, <2>1, <2>2 DEF Discard, TypeOK, world, server, JobsOK, RecsOK, DbOK
<1>8. ASSUME NEW s \in Sources, PublishItem(s) PROVE Inv'
  <2>1. cur[s] \in Calls /\ UNCHANGED <<world, file, db, updateId, pc, unopened, todo, server, spent>>
    BY <1>8 DEF PublishItem, TypeOK, JobsOK
  <2>2. CASE Enter(s, NoCall) /\ UNCHANGED catalog
    <3>1. cur' \in [Sources -> Calls]
      BY <2>2 DEF Enter, NoCall, Calls, Stages, TypeOK, JobsOK
    <3> QED
      BY <2>1, <2>2, <3>1, <1>a, <1>b, CatalogUntouched DEF world, server, TypeOK, JobsOK,
         RecsOK, DbOK
  <2>3. CASE /\ Publish(ItemOf(cur[s].node, cur[s].pid, cur[s].id))
             /\ Enter(s, [cur[s] EXCEPT !.stage = IF Current(cur[s].id) THEN "published" ELSE "bump"])
    <3> DEFINE it == ItemOf(cur[s].node, cur[s].pid, cur[s].id)
    <3>1. it \in Item /\ it.gen = gen
      BY <2>1 DEF ItemOf, Item, IsFolder, Calls, TypeOK, CatalogOK
    <3>2. CatalogInv'
      BY <2>3, <3>1, <1>a, PublishKeeps
    <3>3. cur' \in [Sources -> Calls]
      BY <2>1, <2>3 DEF Enter, Calls, Stages, TypeOK, JobsOK
    <3> QED
      BY <2>1, <3>2, <3>3, <1>b DEF world, server, TypeOK, JobsOK, RecsOK, DbOK
  <2> QED
    BY <1>8, <2>2, <2>3 DEF PublishItem
<1>9. ASSUME NEW s \in Sources, FinishCall(s) PROVE Inv'
  <2>1. /\ cur[s] \in Calls /\ UNCHANGED <<world, file, catalog, updateId, pc, unopened, server>>
        /\ Enter(s, NoCall)
    BY <1>9 DEF FinishCall, TypeOK, JobsOK
  <2>2. CatalogInv' /\ cur' \in [Sources -> Calls]
    BY <2>1, <1>a, CatalogUntouched DEF Enter, NoCall, Calls, Stages, TypeOK, JobsOK
  <2>3. CASE db' = MarkScanSuccess(db, MediaKey(cur[s].node, cur[s].pid)) /\ UNCHANGED <<todo, spent>>
    BY <2>1, <2>2, <2>3, <1>b DEF MarkScanSuccess, world, server, TypeOK, JobsOK, RecsOK, DbOK
  <2>4. CASE UNCHANGED <<todo, db, spent>>
    BY <2>1, <2>2, <2>4, <1>b DEF world, server, TypeOK, JobsOK, RecsOK, DbOK
  <2>5. CASE /\ \E es \in SUBSET Node :
                  todo' = [todo EXCEPT ![s] = @ \cup {<<c, cur[s].id>> : c \in es}]
             /\ UNCHANGED <<db, spent>>
    <3>1. DOMAIN todo' = Sources /\ \A r \in Sources : \A u \in todo'[r] : u \in Node \X Int
      BY <2>1, <2>5 DEF TypeOK, JobsOK, Calls
    <3> QED
      BY <2>1, <2>2, <2>5, <3>1, <1>b DEF world, server, TypeOK, JobsOK, RecsOK, DbOK
  <2>6. CASE ScanError(ErrorKey(cur[s].node, cur[s].pid)) /\ UNCHANGED todo
    BY <2>1, <2>2, <2>6, <1>a, <1>b, ScanErrorTypes DEF world, server, TypeOK, JobsOK, RecsOK
  <2>7. Entries(cur[s].node) \in SUBSET Node /\ cur[s].es \in SUBSET Node
    BY <2>1 DEF Entries, Calls
  <2> QED
    BY <1>9, <2>3, <2>4, <2>5, <2>6, <2>7 DEF FinishCall
<1>10. CASE JobsDone
  <2>1. CatalogInv'
    BY <1>10, <1>a, CatalogUntouched DEF JobsDone
  <2> QED
    BY <1>10, <1>b, <2>1 DEF JobsDone, TypeOK, world, jobs, server, JobsOK, RecsOK, DbOK
<1>11. CASE EndCancelled
  <2>1. CatalogInv'
    BY <1>11, <1>a, CatalogUntouched DEF EndCancelled
  <2>2. DbOK(db)'
    BY <1>11, NewDbTypes DEF EndCancelled, DbOK
  <2> QED
    BY <1>11, <1>b, <2>1, <2>2 DEF EndCancelled, TypeOK, world, jobs, JobsOK, RecsOK, Whos
<1>12. CASE Sweep
  <2>1. CatalogInv'
    BY <1>12, <1>a, SweepKeeps DEF Sweep
  <2> QED
    BY <1>12, <1>b, <2>1 DEF Sweep, TypeOK, world, jobs, server, JobsOK, RecsOK, DbOK
<1>13. CASE PruneAndSave
  <2>1. CatalogInv'
    BY <1>13, <1>a, CatalogUntouched DEF PruneAndSave, EndScan
  <2>2. DbOK(db)'
    BY <1>13, NewDbTypes DEF PruneAndSave, EndScan, DbOK
  <2>3. RecsOK(file.recs)'
    BY <1>13, SaveTypes DEF PruneAndSave, EndScan, TypeOK, RecsOK
  <2> QED
    BY <1>13, <1>b, <2>1, <2>2, <2>3 DEF PruneAndSave, EndScan, TypeOK, world, jobs, JobsOK,
       Whos
<1>18. CASE PruneAndCutShort
  <2>1. CatalogInv'
    BY <1>18, <1>a, CatalogUntouched DEF PruneAndCutShort, EndScan
  <2>2. DbOK(db)'
    BY <1>18, NewDbTypes DEF PruneAndCutShort, EndScan, DbOK
  <2>3. RecsOK(file.recs)'
    BY <1>18, SaveTypes DEF PruneAndCutShort, TypeOK, RecsOK
  <2> QED
    BY <1>18, <1>b, <2>1, <2>2, <2>3 DEF PruneAndCutShort, EndScan, TypeOK, world, jobs,
       JobsOK, Whos
<1>14. ASSUME NEW who \in {"start", "rescan"}, Request(who), up' \in BOOLEAN PROVE Inv'
  <2>1. CatalogInv' /\ updateId' \in Nat
    BY <1>14, <1>a, ResetKeeps DEF Request, ResetForRescan, TypeOK
  <2> QED
    BY <1>14, <1>b, <2>1 DEF Request, TypeOK, world, jobs, JobsOK, RecsOK, DbOK, Whos
<1>15. CASE Stop
  <2>1. CatalogInv'
    BY <1>15, <1>a, CatalogUntouched DEF Stop
  <2> QED
    BY <1>15, <1>b, <2>1 DEF Stop, TypeOK, world, jobs, JobsOK, RecsOK, DbOK, Whos
<1>16. CASE Crash
  <2>1. CatalogInv'
    BY <1>16 DEF Crash, CatalogInv, CatalogOK, IndexAgrees, NewestOK, OneCopyPerGeneration,
                 NoItems, NoIndex, NoKids
  <2>2. JobsOK'
    BY <1>16 DEF Crash, JobsOK, NoTodo, NoCalls, NoCall, Calls, Stages
  <2>3. DbOK(db)'
    BY <1>16, NewDbTypes DEF Crash, DbOK
  <2> QED
    BY <1>16, <1>b, <2>1, <2>2, <2>3 DEF Crash, TypeOK, world, RecsOK, Whos
<1>17. CASE UNCHANGED vars
  <2>1. CatalogInv'
    BY <1>17, <1>a, CatalogUntouched DEF vars
  <2> QED
    BY <1>17, <1>b, <2>1 DEF vars, TypeOK, world, jobs, server, JobsOK, RecsOK, DbOK
<1> QED
  BY <1>1, <1>2, <1>3, <1>4, <1>5, <1>6, <1>7, <1>8, <1>9, <1>10, <1>11, <1>12, <1>13, <1>14,
     <1>15, <1>16, <1>17, <1>18
  DEF Next, ScanStep, JobStep, Start, Rescan, TypeOK

(* The inductive invariant of the catalog holds in every reachable state. *)
THEOREM InvHolds == Spec => []Inv
<1>1. Init => Inv
  BY InvInit
<1>2. Inv /\ [Next]_vars => Inv'
  BY InvNext
<1> QED
  BY <1>1, <1>2, PTL DEF Spec

(* Every variable keeps its type, and every slot lies within m_items. *)
THEOREM TypesHold == Spec => []TypeOK
BY InvHolds, PTL DEF Inv

(* m_idToIndex and m_childrenByParent agree with m_items in every state. *)
THEOREM IndexesAgree == Spec => []IndexAgrees
BY InvHolds, PTL DEF Inv

(* No generation ever holds two copies of an id. *)
THEOREM OneCopy == Spec => []OneCopyPerGeneration
BY InvHolds, PTL DEF Inv

-----------------------------------------------------------------------------
(* The ids.  Until the id space is spent, the counter is above every id    *)
(* given, nothing is on the free list, and the database of a running scan  *)
(* holds every record of the file under the id it has there.               *)

DbIdsOK(d) ==
  /\ d.freed = {} /\ Base <= d.nextId /\ d.nextId <= IdMax
  /\ \A k \in DOMAIN d.recs : Base <= d.recs[k] /\ d.recs[k] < d.nextId
  /\ Injective(d.recs)

FileIdsOK == Injective(file.recs) /\ \A k \in DOMAIN file.recs : Base <= file.recs[k]

Holds(r, q) == \A k \in DOMAIN q : k \in DOMAIN r /\ r[k] = q[k]

IdInv ==
  /\ ~spent => DbIdsOK(db) /\ FileIdsOK
  /\ ~spent /\ pc # "idle" => Holds(db.recs, file.recs)

(* GetOrCreateStableIdLocked keeps ids apart: the one it hands out is that of
   the key, or one no record has, unless the counter has run out. *)
LEMMA GetOrCreateIds ==
  ASSUME NEW d, DbOK(d), DbIdsOK(d), NEW key, NEW id \in StableIds(d, key), ~Spends(d, key)
  PROVE  /\ DbIdsOK(GetOrCreate(d, key, id)) /\ Holds(GetOrCreate(d, key, id).recs, d.recs)
         /\ DbIdsOK(RecordScanError(d, key, id)) /\ Holds(RecordScanError(d, key, id).recs, d.recs)
<1> DEFINE g == GetOrCreate(d, key, id)
<1>0. d.nextId \in Int /\ \A k \in DOMAIN d.recs : d.recs[k] \in Int
  BY DEF DbOK, RecsOK
<1>1. /\ DOMAIN g.recs = DOMAIN d.recs \cup {key} /\ g.recs[key] = id
      /\ \A k \in DOMAIN d.recs : k # key => g.recs[k] = d.recs[k]
      /\ g.nextId = NextIdAfter(d, key)
  BY DEF GetOrCreate, WithRecord
<1>2. g.freed = {}
  BY DEF GetOrCreate, DbIdsOK
<1>3. CASE Known(d, key)
  <2>1. id = d.recs[key] /\ g.nextId = d.nextId /\ key \in DOMAIN d.recs
    BY <1>1, <1>3 DEF StableIds, NextIdAfter, TakesFresh, Known
  <2>2. DbIdsOK(g) /\ Holds(g.recs, d.recs)
    BY <1>1, <1>2, <2>1 DEF DbIdsOK, Injective, Holds
  <2> QED
    BY <2>2 DEF RecordScanError, DbIdsOK, Holds
<1>4. CASE ~Known(d, key)
  <2>1. id = d.nextId /\ d.nextId < IdMax /\ g.nextId = d.nextId + 1 /\ key \notin DOMAIN d.recs
    BY <1>0, <1>1, <1>4, IdAssumption DEF StableIds, NextIdAfter, TakesFresh, Known, Spends,
       DbIdsOK
  <2>2. \A k \in DOMAIN g.recs : Base <= g.recs[k] /\ g.recs[k] < g.nextId
    BY <1>0, <1>1, <2>1, IdAssumption DEF DbIdsOK
  <2>3. Injective(g.recs)
    BY <1>0, <1>1, <2>1 DEF DbIdsOK, Injective
  <2>4. DbIdsOK(g)
    BY <1>0, <1>2, <2>1, <2>2, <2>3, IdAssumption DEF DbIdsOK
  <2>5. Holds(g.recs, d.recs)
    BY <1>1, <2>1 DEF Holds
  <2> QED
    BY <2>4, <2>5 DEF RecordScanError, DbIdsOK, Holds
<1> QED
  BY <1>3, <1>4

(* The records that Load reads have the distinct ids they were saved with. *)
LEMMA LoadIds ==
  ASSUME RecsOK(file.recs), FileIdsOK, NEW d \in Load(file), ~(d.nextId < Base)
  PROVE  DbIdsOK(BeginScanPass(d)) /\ Holds(BeginScanPass(d).recs, file.recs)
<1>1. Loadable(file) = DOMAIN file.recs
  BY DEF FileIdsOK, Loadable
<1>2. PICK n \in Base .. (IdMax + 1) :
        /\ IsNextAfter(Keeping(file.recs, Loadable(file)), n)
        /\ d.recs = Keeping(file.recs, Loadable(file)) /\ d.nextId = Wrapped(n) /\ d.freed = {}
  BY DEF Load
<1>3. DOMAIN d.recs = DOMAIN file.recs /\ \A k \in DOMAIN file.recs : d.recs[k] = file.recs[k]
  BY <1>1, <1>2 DEF Keeping
<1>4. d.nextId = n /\ n <= IdMax
  BY <1>2, IdAssumption DEF Wrapped
<1>5. \A k \in DOMAIN d.recs : Base <= d.recs[k] /\ d.recs[k] < n
  BY <1>2, <1>3 DEF IsNextAfter, FileIdsOK
<1>6. Injective(d.recs)
  BY <1>3 DEF FileIdsOK, Injective
<1> QED
  BY <1>2, <1>3, <1>4, <1>5, <1>6 DEF BeginScanPass, DbIdsOK, Holds

(* A database without records has no two with one id. *)
LEMMA NewDbIds == DbIdsOK(NewDb)
BY IdAssumption DEF DbIdsOK, NewDb, NoRecords, Injective

-----------------------------------------------------------------------------
(* What a step does to the database and the file: it leaves both, writes a *)
(* record of the database of the running scan, begins a scan, ends one     *)
(* without saving, or saves.                                               *)

Records(key) ==
  \E id \in StableIds(db, key) :
    /\ db' \in {GetOrCreate(db, key, id), RecordScanError(db, key, id)}
    /\ spent' = (spent \/ Spends(db, key))

(* What a step of the scan does to the ids of its database and of the file. *)
LEMMA StepOnIds ==
  ASSUME TypeOK, [Next]_vars
  PROVE  \/ file' = file /\ db' = db /\ spent' = spent /\ (pc' = pc \/ (pc # "idle" /\ pc' # "idle"))
         \/ file' = file /\ pc # "idle" /\ pc' # "idle" /\ \E key : Records(key)
         \/ /\ file' = file /\ spent' = spent /\ pc # "idle" /\ pc' # "idle"
            /\ \E key : db' = MarkScanSuccess(db, key)
         \/ BeginScan
         \/ file' = file /\ db' = NewDb /\ spent' = spent /\ pc' = "idle"
         \/ PruneAndSave \/ PruneAndCutShort
<1>a. ASSUME NEW key, ScanError(key) PROVE Records(key)
  BY <1>a DEF ScanError, Records
<1>b. ASSUME NEW key, NEW id, Take(key, id) PROVE Records(key)
  BY <1>b DEF Take, Records
<1>c. ASSUME NEW s, NEW n, NEW pid, NEW es, PublishContainer(s, n, pid, es)
      PROVE  \E key : Records(key)
  BY <1>b, <1>c DEF PublishContainer
<1>1. CASE WorldStep \/ Start \/ Rescan \/ Stop \/ StartJobs \/ JobsDone \/ Sweep \/ UNCHANGED vars
  BY <1>1 DEF WorldStep, Start, Rescan, Request, Stop, StartJobs, JobsDone, Sweep, vars
<1>2. ASSUME NEW s \in Sources, BumpUpdateId(s) \/ Discard(s) \/ PublishItem(s)
      PROVE  file' = file /\ db' = db /\ spent' = spent /\ pc' = pc
  BY <1>2 DEF BumpUpdateId, Discard, PublishItem
<1>3. ASSUME NEW s \in Sources, OpenSource(s)
      PROVE  /\ file' = file /\ pc # "idle" /\ pc' # "idle"
             /\ (db' = db /\ spent' = spent) \/ \E key : Records(key)
  <2>1. file' = file /\ pc = "open" /\ pc' = pc
    BY <1>3 DEF OpenSource
  <2> QED
    BY <1>3, <2>1, <1>a, <1>c DEF OpenSource
<1>4. ASSUME NEW s \in Sources, Visit(s)
      PROVE  /\ file' = file /\ pc # "idle" /\ pc' # "idle"
             /\ (db' = db /\ spent' = spent) \/ \E key : Records(key)
  <2>1. PICK t : VisitFolder(s, t[1], t[2]) \/ VisitPlaylist(s, t[1], t[2]) \/ VisitFile(s, t[1], t[2])
    BY <1>4 DEF Visit
  <2>2. file' = file /\ pc = "jobs" /\ pc' = pc
    BY <2>1 DEF VisitFolder, VisitPlaylist, VisitFile, TakeTask
  <2>3. CASE VisitFolder(s, t[1], t[2])
    BY <2>2, <2>3, <1>c DEF VisitFolder
  <2>4. CASE VisitPlaylist(s, t[1], t[2])
    BY <2>2, <2>4, <1>a, <1>c DEF VisitPlaylist
  <2>5. CASE VisitFile(s, t[1], t[2])
    BY <2>2, <2>5, <1>b DEF VisitFile
  <2> QED
    BY <2>1, <2>3, <2>4, <2>5
<1>5. ASSUME NEW s \in Sources, FinishCall(s)
      PROVE  /\ file' = file /\ pc # "idle" /\ pc' # "idle"
             /\ \/ db' = db /\ spent' = spent
                \/ \E key : Records(key)
                \/ spent' = spent /\ \E key : db' = MarkScanSuccess(db, key)
  <2>1. file' = file /\ pc = "jobs" /\ pc' = pc
    BY <1>5 DEF FinishCall
  <2> QED
    BY <1>5, <2>1, <1>a DEF FinishCall
<1>6. CASE EndCancelled \/ Crash
  BY <1>6 DEF EndCancelled, Crash
<1> QED
  BY <1>1, <1>2, <1>3, <1>4, <1>5, <1>6 DEF Next, ScanStep, JobStep

(* Whatever a save leaves in the file is a part of the database, or is what *)
(* was there.                                                               *)
LEMMA SavedPart ==
  ASSUME PruneAndSave \/ PruneAndCutShort
  PROVE  file' = file \/ Holds(db.recs, file'.recs)
<1>1. CASE PruneAndSave
  BY <1>1 DEF PruneAndSave, FileOf, PruneUntouched, Keeping, Holds
<1>2. CASE PruneAndCutShort
  <2>1. PICK id \in Base .. IdMax : file' = FileBelow(PruneUntouched(db), id)
    BY <1>2 DEF PruneAndCutShort
  <2> QED
    BY <2>1 DEF FileBelow, Below, PruneUntouched, Keeping, Holds
<1> QED
  BY <1>1, <1>2

(* Every step of the specification keeps the invariant on ids. *)
LEMMA IdInvNext ==
  ASSUME TypeOK, IdInv, [Next]_vars
  PROVE  IdInv'
<1>1. CASE file' = file /\ db' = db /\ spent' = spent /\ (pc' = pc \/ (pc # "idle" /\ pc' # "idle"))
  BY <1>1 DEF IdInv, FileIdsOK, DbIdsOK, Holds
<1>2. CASE file' = file /\ pc # "idle" /\ pc' # "idle" /\ \E key : Records(key)
  <2>1. PICK key : Records(key)
    BY <1>2
  <2>2. PICK id \in StableIds(db, key) :
          /\ db' \in {GetOrCreate(db, key, id), RecordScanError(db, key, id)}
          /\ spent' = (spent \/ Spends(db, key))
    BY <2>1 DEF Records
  <2> SUFFICES ASSUME ~spent'
               PROVE  DbIdsOK(db)' /\ FileIdsOK' /\ Holds(db.recs, file.recs)'
    BY DEF IdInv
  <2>3. ~spent /\ ~Spends(db, key)
    BY <2>2
  <2>4. DbIdsOK(db) /\ FileIdsOK /\ Holds(db.recs, file.recs)
    BY <1>2, <2>3 DEF IdInv
  <2>5. DbIdsOK(db)' /\ Holds(db'.recs, db.recs)
    BY <2>2, <2>3, <2>4, GetOrCreateIds DEF TypeOK, DbIdsOK
  <2> QED
    BY <1>2, <2>4, <2>5 DEF FileIdsOK, Holds
<1>3. CASE /\ file' = file /\ spent' = spent /\ pc # "idle" /\ pc' # "idle"
           /\ \E key : db' = MarkScanSuccess(db, key)
  BY <1>3 DEF IdInv, FileIdsOK, DbIdsOK, Holds, MarkScanSuccess
<1>4. CASE BeginScan
  <2>1. PICK d \in Load(file) : db' = BeginScanPass(d) /\ spent' = (spent \/ d.nextId < Base)
    BY <1>4 DEF BeginScan, LoadDatabase
  <2> SUFFICES ASSUME ~spent'
               PROVE  DbIdsOK(db)' /\ FileIdsOK' /\ Holds(db.recs, file.recs)'
    BY DEF IdInv
  <2>2. ~spent /\ ~(d.nextId < Base) /\ FileIdsOK /\ file' = file
    BY <1>4, <2>1 DEF IdInv, BeginScan
  <2>3. DbIdsOK(BeginScanPass(d)) /\ Holds(BeginScanPass(d).recs, file.recs)
    BY <2>2, LoadIds DEF TypeOK
  <2> QED
    BY <2>1, <2>2, <2>3 DEF DbIdsOK, FileIdsOK, Holds
<1>5. CASE file' = file /\ db' = NewDb /\ spent' = spent /\ pc' = "idle"
  BY <1>5, NewDbIds DEF IdInv, FileIdsOK, DbIdsOK
<1>6. CASE PruneAndSave \/ PruneAndCutShort
  <2> SUFFICES ASSUME ~spent PROVE DbIdsOK(db)' /\ FileIdsOK'
    BY <1>6 DEF IdInv, PruneAndSave, PruneAndCutShort, EndScan
  <2>1. DbIdsOK(db) /\ FileIdsOK
    BY DEF IdInv
  <2>2. \A k \in DOMAIN file'.recs : Base <= file'.recs[k]
    BY <1>6, <2>1, SavedPart DEF DbIdsOK, FileIdsOK, Holds
  <2>3. Injective(file'.recs)
    BY <1>6, <2>1, SavedPart DEF DbIdsOK, FileIdsOK, Injective, Holds
  <2> QED
    BY <1>6, <2>2, <2>3, NewDbIds DEF PruneAndSave, PruneAndCutShort, EndScan, DbIdsOK,
       FileIdsOK
<1> QED
  BY <1>1, <1>2, <1>3, <1>4, <1>5, <1>6, StepOnIds

(* The invariant on ids holds before the first scan, when there is no file. *)
LEMMA IdInvInit == Init => IdInv
BY NewDbIds DEF Init, IdInv, FileIdsOK, EmptyFile, NoRecords, Injective

(* The invariant on ids holds in every reachable state. *)
THEOREM IdInvHolds == Spec => []IdInv
<1>1. Init => IdInv
  BY IdInvInit
<1>2. TypeOK /\ IdInv /\ [Next]_vars => IdInv'
  BY IdInvNext
<1> QED
  BY <1>1, <1>2, TypesHold, PTL DEF Spec

(* No two records share an id, in memory or in media-cache.tsv, until the  *)
(* counter has run through all of them.                                    *)
THEOREM IdsAreUnique == Spec => []UniqueIds
<1>1. IdInv => UniqueIds
  BY DEF IdInv, UniqueIds, DbIdsOK, FileIdsOK
<1> QED
  BY <1>1, IdInvHolds, PTL

(* A save keeps the id of every key that was saved before, however many    *)
(* scans, cancelled scans, failed saves and crashes lie in between: the    *)
(* README's "keeps the same ID for each file", as far as the record lasts. *)
THEOREM SavedIdsLast == Spec => SavedIdsStay
<1> DEFINE Same == \A k \in DOMAIN file.recs \cap DOMAIN file'.recs : file'.recs[k] = file.recs[k]
<1>1. ASSUME TypeOK, IdInv, [Next]_vars PROVE [~spent' => Same]_vars
  <2> SUFFICES ASSUME ~spent' PROVE Same
    OBVIOUS
  <2>1. CASE file' = file
    BY <2>1
  <2>2. CASE BeginScan
    BY <2>1, <2>2 DEF BeginScan
  <2>3. CASE PruneAndSave \/ PruneAndCutShort
    <3>1. Holds(db.recs, file.recs)
      BY <1>1, <2>3 DEF PruneAndSave, PruneAndCutShort, EndScan, IdInv
    <3> QED
      BY <2>3, <3>1, SavedPart DEF Holds
  <2> QED
    BY <1>1, <2>1, <2>2, <2>3, StepOnIds
<1> QED
  BY <1>1, TypesHold, IdInvHolds, PTL DEF Spec, SavedIdsStay

-----------------------------------------------------------------------------
(* What readers and saves rely on, together: types, indexes, one copy of   *)
(* an id per generation, and no id for two keys.                           *)
THEOREM CatalogIsConsistent == Spec => []CatalogConsistent
BY TypesHold, IndexesAgree, OneCopy, IdsAreUnique, PTL DEF CatalogConsistent

-----------------------------------------------------------------------------
(* The way from a node to the top.                                         *)

(* The ancestors of a node, itself included, as the smallest set that      *)
(* holds it and the parent of whatever it holds.                           *)
Closed(S) == \A x \in S : Parent[x] # Top => Parent[x] \in S

Ancestors(n) == {m \in Node : \A S \in SUBSET Node : n \in S /\ Closed(S) => m \in S}

(* The recursion of Path has a solution, so that Path is what it says. *)
LEMMA PathSteps ==
  \A n \in Node : Path[n] = {n} \cup (IF Parent[n] = Top THEN {} ELSE Path[Parent[n]])
<1> DEFINE Onward(n) == {n} \cup (IF Parent[n] = Top THEN {} ELSE Ancestors(Parent[n]))
           W == [n \in Node |-> Ancestors(n)]
<1>1. ASSUME NEW n \in Node, Parent[n] # Top PROVE Parent[n] \in Node
  BY <1>1, NodeAssumption
<1>2. ASSUME NEW n \in Node PROVE n \in Ancestors(n) /\ Ancestors(n) \subseteq Node
  BY DEF Ancestors
<1>3. ASSUME NEW n \in Node PROVE Closed(Ancestors(n))
  <2> SUFFICES ASSUME NEW x \in Ancestors(n), Parent[x] # Top
               PROVE  Parent[x] \in Ancestors(n)
    BY DEF Closed
  <2>1. x \in Node /\ Parent[x] \in Node
    BY <1>1, <1>2
  <2>2. ASSUME NEW S \in SUBSET Node, n \in S, Closed(S) PROVE Parent[x] \in S
    <3>1. x \in S
      BY <2>2 DEF Ancestors
    <3> QED
      BY <2>2, <3>1 DEF Closed
  <2> QED
    BY <2>1, <2>2 DEF Ancestors
<1>4. ASSUME NEW n \in Node PROVE Ancestors(n) = Onward(n)
  <2>1. Onward(n) \in SUBSET Node /\ n \in Onward(n)
    BY <1>1, <1>2
  <2>2. Closed(Onward(n))
    <3> SUFFICES ASSUME NEW x \in Onward(n), Parent[x] # Top
                 PROVE  Parent[x] \in Onward(n)
      BY DEF Closed
    <3>1. CASE x = n
      BY <3>1, <1>1, <1>2
    <3>2. CASE x # n
      <4>1. Parent[n] # Top /\ x \in Ancestors(Parent[n]) /\ Parent[n] \in Node
        BY <3>2, <1>1
      <4>2. Parent[x] \in Ancestors(Parent[n])
        BY <4>1, <1>3 DEF Closed
      <4> QED
        BY <4>1, <4>2
    <3> QED
      BY <3>1, <3>2
  <2>3. Ancestors(n) \subseteq Onward(n)
    BY <2>1, <2>2 DEF Ancestors
  <2>4. ASSUME NEW m \in Ancestors(Parent[n]), Parent[n] # Top PROVE m \in Ancestors(n)
    <3>1. ASSUME NEW S \in SUBSET Node, n \in S, Closed(S) PROVE m \in S
      <4>1. Parent[n] \in S
        BY <2>4, <3>1 DEF Closed
      <4> QED
        BY <2>4, <3>1, <4>1 DEF Ancestors
    <3> QED
      BY <3>1, <2>4 DEF Ancestors
  <2> QED
    BY <2>3, <2>4, <1>2
<1>5. W = [n \in Node |-> {n} \cup IF Parent[n] = Top THEN {} ELSE W[Parent[n]]]
  BY <1>1, <1>4
<1>6. Path = CHOOSE f : f = [n \in Node |-> {n} \cup IF Parent[n] = Top THEN {} ELSE f[Parent[n]]]
  BY DEF Path
<1> HIDE DEF W
<1>7. Path = [n \in Node |-> {n} \cup IF Parent[n] = Top THEN {} ELSE Path[Parent[n]]]
  BY <1>5, <1>6
<1> QED
  BY <1>7

(* Reachable, Visible and Absent, of the nodes that are out of reach. *)
Reached(out) == {n \in Node : Path[n] \cap out = {}}
Shown(out)   == {n \in Reached(out) : Kind[n] = "playlist" => \E c \in Reached(out) : Parent[c] = n}

(* What is reachable, visible or absent is so by the nodes that are gone    *)
(* and down.                                                               *)
LEMMA WorldSets ==
  /\ Reachable = Reached(gone \cup down) /\ Reachable' = Reached(gone' \cup down')
  /\ Visible = Shown(gone \cup down) /\ Visible' = Shown(gone' \cup down')
BY DEF Reachable, Visible, Reached, Shown

(* What is shown is reached, and its parent is shown. *)
LEMMA ShownCloses ==
  ASSUME NEW out, NEW n \in Shown(out)
  PROVE  /\ n \in Node /\ n \in Reached(out) /\ n \notin out
         /\ Parent[n] # Top => Parent[n] \in Shown(out)
<1>1. n \in Node /\ n \in Reached(out) /\ Path[n] \cap out = {}
  BY DEF Shown, Reached
<1>2. n \in Path[n]
  BY <1>1, PathSteps
<1>3. ASSUME Parent[n] # Top PROVE Parent[n] \in Shown(out)
  <2>1. Parent[n] \in Node
    BY <1>1, <1>3, NodeAssumption
  <2>2. Path[Parent[n]] \subseteq Path[n]
    BY <1>1, <1>3, PathSteps
  <2> QED
    BY <1>1, <2>1, <2>2 DEF Shown, Reached
<1> QED
  BY <1>1, <1>2, <1>3

(* What a reachable folder or playlist lists has not vanished. *)
LEMMA ReachableStands ==
  ASSUME NEW n \in Reachable
  PROVE  n \in Node /\ n \notin Absent /\ \A c \in Entries(n) : c \in Node /\ c \notin Absent
<1>1. n \in Node /\ Path[n] \cap gone = {}
  BY DEF Reachable
<1>2. ASSUME NEW c \in Entries(n) PROVE c \in Node /\ c \notin Absent
  <2>1. c \in Node /\ Parent[c] = n /\ c \notin gone
    BY DEF Entries
  <2>2. Path[c] = {c} \cup Path[n]
    BY <1>1, <2>1, PathSteps, NodeAssumption
  <2> QED
    BY <1>1, <2>1, <2>2 DEF Absent
<1> QED
  BY <1>1, <1>2 DEF Absent

-----------------------------------------------------------------------------
(* The records of a database as a tree.                                    *)

(* The key of the record a task is given, and the place of a key: a node at *)
(* the top, or in its parent's container. The source that is a playlist is *)
(* at both: its container at the top holds it once more.                   *)
KeyOf(n, pid) == IF IsFolder(n) THEN ContainerKey(n, pid) ELSE MediaKey(n, pid)

Place(n, pid) == <<n, IF pid = 0 THEN "top" ELSE "in">>
PlaceOf(k) == Place(k[3], k[2])

Places == {<<n, "top">> : n \in Sources}
            \cup {<<n, "in">> : n \in {m \in Node : m \notin Sources \/ Kind[m] = "playlist"}}

(* The place of the container that a place is listed in. *)
Up(v) ==
  IF v[1] \in Sources THEN <<v[1], "top">>
  ELSE <<Parent[v[1]], IF Parent[v[1]] \in Sources /\ Kind[Parent[v[1]]] # "playlist" THEN "top" ELSE "in">>

IsItem(k) == k[1] # "error"

(* A key lies below the record of a container that has the id it names and *)
(* got it earlier.                                                         *)
Hangs(recs, k) ==
  \E p \in DOMAIN recs : /\ p[1] = "container" /\ PlaceOf(p) = Up(PlaceOf(k))
                         /\ recs[p] = k[2] /\ recs[p] < recs[k]

TreeOK(recs) ==
  \A k \in DOMAIN recs : IsItem(k) =>
    k = KeyOf(k[3], k[2]) /\ PlaceOf(k) \in Places /\ (k[2] # 0 => Hangs(recs, k))

OnePerPlace(recs) ==
  \A k, l \in DOMAIN recs : IsItem(k) /\ IsItem(l) /\ PlaceOf(k) = PlaceOf(l) => k = l

Tree(recs, seen) ==
  /\ TreeOK(recs) /\ OnePerPlace(recs)
  /\ seen \subseteq DOMAIN recs /\ TreeOK(Keeping(recs, seen))

(* A key that is recorded in the place of a node and below a container that *)
(* this pass has seen.                                                     *)
PlacedIn(recs, seen, n, pid) ==
  /\ Place(n, pid) \in Places
  /\ pid # 0 => \E p \in seen : p[1] = "container" /\ PlaceOf(p) = Up(Place(n, pid)) /\ recs[p] = pid

(* The database g is d with one more key, whose id is the largest if it is *)
(* new.                                                                    *)
GrowsBy(d, g, key) ==
  /\ DOMAIN g.recs = DOMAIN d.recs \cup {key} /\ g.touched = d.touched \cup {key}
  /\ \A k \in DOMAIN d.recs : g.recs[k] = d.recs[k]
  /\ key \notin DOMAIN d.recs => \A k \in DOMAIN d.recs : d.recs[k] < g.recs[key]

(* GetOrCreateStableIdLocked and RecordScanError add their key so, as long *)
(* as the counter has not run out.                                         *)
LEMMA RecordingGrows ==
  ASSUME NEW d, DbOK(d), DbIdsOK(d), NEW key, NEW id \in StableIds(d, key)
  PROVE  /\ GrowsBy(d, GetOrCreate(d, key, id), key) /\ GetOrCreate(d, key, id).recs[key] = id
         /\ GrowsBy(d, RecordScanError(d, key, id), key)
<1>1. /\ DOMAIN WithRecord(d.recs, key, id) = DOMAIN d.recs \cup {key}
      /\ WithRecord(d.recs, key, id)[key] = id
      /\ \A k \in DOMAIN d.recs : k # key => WithRecord(d.recs, key, id)[k] = d.recs[k]
  BY DEF WithRecord
<1>2. key \in DOMAIN d.recs => id = d.recs[key]
  BY DEF StableIds, Known
<1>3. key \notin DOMAIN d.recs => id = d.nextId
  BY DEF StableIds, Known, DbIdsOK
<1>4. \A k \in DOMAIN d.recs : d.recs[k] < d.nextId
  BY DEF DbIdsOK
<1> QED
  BY <1>1, <1>2, <1>3, <1>4 DEF GrowsBy, GetOrCreate, RecordScanError

(* In a tree with one record per place, the container above a key is the   *)
(* one that is recorded in the place above it.                             *)
LEMMA OneAbove ==
  ASSUME NEW recs, OnePerPlace(recs), NEW k, Hangs(recs, k),
         NEW p \in DOMAIN recs, p[1] = "container", PlaceOf(p) = Up(PlaceOf(k))
  PROVE  recs[p] = k[2] /\ recs[p] < recs[k]
BY DEF Hangs, OnePerPlace, IsItem

(* What a job records keeps the tree. *)
LEMMA TreeGrows ==
  ASSUME NEW d, NEW g, NEW key, Tree(d.recs, d.touched), GrowsBy(d, g, key),
         \/ key[1] = "error"
         \/ \E n, pid : key = KeyOf(n, pid) /\ PlacedIn(d.recs, d.touched, n, pid)
  PROVE  Tree(g.recs, g.touched)
<1> DEFINE r == d.recs  q == g.recs  S == d.touched  T == g.touched
<1>1. /\ DOMAIN q = DOMAIN r \cup {key} /\ T = S \cup {key} /\ S \subseteq DOMAIN r
      /\ \A k \in DOMAIN r : q[k] = r[k]
      /\ key \notin DOMAIN r => \A k \in DOMAIN r : r[k] < q[key]
  BY DEF GrowsBy, Tree
<1>2. ASSUME NEW n, NEW pid, key = KeyOf(n, pid)
      PROVE  key[3] = n /\ key[2] = pid /\ IsItem(key) /\ PlaceOf(key) = Place(n, pid)
  BY <1>2 DEF KeyOf, ContainerKey, MediaKey, IsItem, PlaceOf
<1>3. TreeOK(r) /\ OnePerPlace(r)
  BY DEF Tree
<1>4. /\ DOMAIN Keeping(r, S) = S /\ \A k \in S : Keeping(r, S)[k] = r[k]
      /\ DOMAIN Keeping(q, T) = T /\ \A k \in T : Keeping(q, T)[k] = q[k]
  BY <1>1 DEF Keeping
<1>5. ASSUME IsItem(key), key[2] # 0
      PROVE  \E p \in S : /\ p[1] = "container" /\ PlaceOf(p) = Up(PlaceOf(key))
                          /\ q[p] = key[2] /\ q[p] < q[key]
  <2>1. PICK n, pid : key = KeyOf(n, pid) /\ PlacedIn(r, S, n, pid)
    BY <1>5 DEF IsItem
  <2>2. PICK p \in S : p[1] = "container" /\ PlaceOf(p) = Up(PlaceOf(key)) /\ r[p] = key[2]
    BY <2>1, <1>2, <1>5 DEF PlacedIn
  <2>3. q[p] = key[2] /\ p \in DOMAIN r
    BY <2>2, <1>1
  <2>4. CASE key \notin DOMAIN r
    BY <2>2, <2>3, <2>4, <1>1
  <2>5. CASE key \in DOMAIN r
    <3>1. Hangs(r, key)
      BY <2>5, <1>3, <1>5 DEF TreeOK
    <3>2. r[p] < r[key]
      BY <3>1, <2>2, <2>3, <1>3, OneAbove
    <3> QED
      BY <3>2, <2>2, <2>3, <2>5, <1>1
  <2> QED
    BY <2>4, <2>5
<1>6. TreeOK(q)
  <2> SUFFICES ASSUME NEW k \in DOMAIN q, IsItem(k)
               PROVE  k = KeyOf(k[3], k[2]) /\ PlaceOf(k) \in Places /\ (k[2] # 0 => Hangs(q, k))
    BY DEF TreeOK
  <2>1. CASE k = key
    <3>1. k = KeyOf(k[3], k[2]) /\ PlaceOf(k) \in Places
      BY <2>1, <1>2 DEF IsItem, PlacedIn
    <3>2. k[2] # 0 => Hangs(q, k)
      BY <2>1, <1>1, <1>5 DEF Hangs
    <3> QED
      BY <3>1, <3>2
  <2>2. CASE k \in DOMAIN r
    BY <2>2, <1>1, <1>3 DEF TreeOK, Hangs
  <2> QED
    BY <2>1, <2>2, <1>1
<1>7. ASSUME NEW l \in DOMAIN r, IsItem(l), IsItem(key), PlaceOf(l) = PlaceOf(key) PROVE l = key
  <2>1. PICK n, pid : key = KeyOf(n, pid) /\ PlacedIn(r, S, n, pid)
    BY <1>7 DEF IsItem
  <2>2. l = KeyOf(l[3], l[2]) /\ (l[2] # 0 => Hangs(r, l))
    BY <1>3, <1>7 DEF TreeOK
  <2>3. PlaceOf(l) = Place(l[3], l[2]) /\ PlaceOf(key) = Place(n, pid)
    BY <2>1, <1>2 DEF PlaceOf
  <2>4. l[3] = n /\ (l[2] = 0 <=> pid = 0)
    BY <2>3, <1>7 DEF Place
  <2>5. CASE pid = 0
    BY <2>1, <2>2, <2>4, <2>5
  <2>6. CASE pid # 0
    <3>1. PICK p \in S : p[1] = "container" /\ PlaceOf(p) = Up(PlaceOf(l)) /\ r[p] = pid
      BY <2>1, <2>3, <2>6, <1>7 DEF PlacedIn
    <3>2. r[p] = l[2]
      BY <3>1, <2>2, <2>4, <2>6, <1>1, <1>3, OneAbove
    <3> QED
      BY <3>1, <3>2, <2>1, <2>2, <2>4
  <2> QED
    BY <2>5, <2>6
<1>8. OnePerPlace(q)
  BY <1>1, <1>3, <1>7 DEF OnePerPlace
<1>9. TreeOK(Keeping(q, T))
  <2> SUFFICES ASSUME NEW k \in T, IsItem(k)
               PROVE  k = KeyOf(k[3], k[2]) /\ PlaceOf(k) \in Places /\ (k[2] # 0 => Hangs(Keeping(q, T), k))
    BY <1>4 DEF TreeOK
  <2>1. k = KeyOf(k[3], k[2]) /\ PlaceOf(k) \in Places
    BY <1>1, <1>6 DEF TreeOK
  <2>2. CASE k = key
    <3>1. ASSUME k[2] # 0 PROVE Hangs(Keeping(q, T), k)
      <4>1. PICK p \in S : p[1] = "container" /\ PlaceOf(p) = Up(PlaceOf(k)) /\ q[p] = k[2] /\ q[p] < q[k]
        BY <2>2, <3>1, <1>5
      <4> QED
        BY <4>1, <1>1, <1>4 DEF Hangs
    <3> QED
      BY <2>1, <3>1
  <2>3. CASE k \in S
    <3>1. ASSUME k[2] # 0 PROVE Hangs(Keeping(q, T), k)
      <4>1. Hangs(Keeping(r, S), k)
        BY <3>1, <2>3, <1>4 DEF Tree, TreeOK
      <4>2. PICK p \in S : p[1] = "container" /\ PlaceOf(p) = Up(PlaceOf(k)) /\ r[p] = k[2] /\ r[p] < r[k]
        BY <4>1, <2>3, <1>4 DEF Hangs
      <4>3. q[p] = r[p] /\ q[k] = r[k] /\ p \in T
        BY <2>3, <1>1
      <4> QED
        BY <4>2, <4>3, <1>4 DEF Hangs
    <3> QED
      BY <2>1, <3>1
  <2> QED
    BY <2>2, <2>3, <1>1
<1> QED
  BY <1>1, <1>6, <1>8, <1>9 DEF Tree

(* A place holds one key of a part of the records, too. *)
LEMMA PartKeepsPlaces ==
  ASSUME NEW recs, OnePerPlace(recs), NEW S
  PROVE  OnePerPlace(Keeping(recs, S))
BY DEF OnePerPlace, Keeping

(* A file that was cut short is a tree: a container got its id before what *)
(* it holds, and the records are written in the order of their ids.        *)
LEMMA CutKeepsTree ==
  ASSUME NEW d, TreeOK(d.recs), RecsOK(d.recs), NEW id \in Int
  PROVE  TreeOK(FileBelow(d, id).recs)
<1> DEFINE r == d.recs  q == FileBelow(d, id).recs
<1>1. /\ DOMAIN q = {k \in DOMAIN r : r[k] < id} /\ \A k \in DOMAIN q : q[k] = r[k]
  BY DEF FileBelow, Below, Keeping
<1> SUFFICES ASSUME NEW k \in DOMAIN q, IsItem(k), k[2] # 0 PROVE Hangs(q, k)
  BY <1>1 DEF TreeOK
<1>2. k \in DOMAIN r /\ r[k] < id /\ r[k] \in Int /\ q[k] = r[k]
  BY <1>1 DEF RecsOK
<1>3. PICK p \in DOMAIN r : p[1] = "container" /\ PlaceOf(p) = Up(PlaceOf(k)) /\ r[p] = k[2] /\ r[p] < r[k]
  BY <1>2 DEF TreeOK, Hangs
<1>4. r[p] \in Int
  BY DEF RecsOK
<1>5. p \in DOMAIN q /\ q[p] = r[p]
  BY <1>1, <1>2, <1>3, <1>4
<1> QED
  BY <1>2, <1>3, <1>5 DEF Hangs

-----------------------------------------------------------------------------
(* The inductive invariant of the history.                                 *)

DbTree == Tree(db.recs, db.touched)

TaskIn(recs, seen, t) == PlacedIn(recs, seen, t[1], t[2]) /\ (t[2] = 0 => Kind[t[1]] = "file")

CallIn(recs, seen, c) ==
  /\ PlacedIn(recs, seen, c.node, c.pid)
  /\ KeyOf(c.node, c.pid) \in seen /\ recs[KeyOf(c.node, c.pid)] = c.id
  /\ c.stage = "publish" => ~IsFolder(c.node)
  /\ \A e \in c.es : <<e, "in">> \in Places /\ Up(<<e, "in">>) = Place(c.node, c.pid)

TasksPlaced == \A s \in Sources : \A t \in todo[s] : TaskIn(db.recs, db.touched, t)

CallsPlaced == \A s \in Sources : cur[s].stage # "none" => CallIn(db.recs, db.touched, cur[s])

TreeInv ==
  ~spent => /\ TreeOK(file.recs) /\ OnePerPlace(file.recs)
            /\ pc # "idle" => DbTree /\ TasksPlaced /\ CallsPlaced

(* Where a scan is, its jobs are. *)
PhaseInv ==
  /\ pc # "open" => unopened = {}
  /\ pc \notin {"open", "jobs"} => \A s \in Sources : todo[s] = {} /\ cur[s].stage = "none"
  /\ \A s \in unopened : todo[s] = {} /\ cur[s].stage = "none"

WatchInv ==
  /\ steady \subseteq Visible /\ absent \subseteq Absent
  /\ \A n \in steady : Parent[n] # Top => Parent[n] \in steady
  /\ pc = "idle" => clean /\ ~fresh /\ steady = {} /\ absent = {}
  /\ ~overlap /\ pc # "idle" => clean
  /\ pending # "no" /\ ~overlap => pc = "idle"

RootIds == \A s \in DOMAIN items : IF items[s].node = Top THEN items[s].id = 0 ELSE items[s].id >= Base

RootInv ==
  ~spent => /\ RootIds
            /\ pending # "no" /\ ~overlap => \A s \in DOMAIN items : items[s].gen = gen => items[s].node = Top

ItemsRecorded ==
  fresh /\ clean /\ ~spent =>
    \A s \in DOMAIN items : items[s].gen = gen /\ items[s].node # Top =>
      RecordKey(items[s]) \in DOMAIN db.recs /\ db.recs[RecordKey(items[s])] = items[s].id

TouchedPublished ==
  clean /\ ~spent /\ pc # "idle" =>
    \A k \in db.touched : IsItem(k) /\ k[3] \in steady =>
      \/ Current(db.recs[k])
      \/ \E s \in Sources : cur[s].stage = "publish" /\ cur[s].node = k[3] /\ cur[s].pid = k[2]

Anyway(n) == Kind[n] = "playlist" /\ n \in Sources

NoneVanished ==
  fresh /\ clean /\ ~spent =>
    /\ \A s \in DOMAIN items : items[s].gen = gen /\ items[s].node \in absent => Anyway(items[s].node)
    /\ \A s \in Sources : \A t \in todo[s] : t[1] \in absent => Anyway(t[1])
    /\ \A s \in Sources : cur[s].stage # "none" =>
         \A c \in cur[s].es \cup {cur[s].node} : c \in absent => Anyway(c)

Seen(v) == \E k \in db.touched : IsItem(k) /\ PlaceOf(k) = v

Listing(v) ==
  \E s \in Sources : /\ cur[s].stage \in {"bump", "published"}
                     /\ Place(cur[s].node, cur[s].pid) = Up(v)
                     /\ Kind[cur[s].node] = "playlist" => v[1] \in cur[s].es

Covered(v) ==
  \/ Seen(v)
  \/ v[2] = "top" /\ (v[1] \in unopened \/ \E s \in Sources : <<v[1], 0>> \in todo[s])
  \/ v[2] = "in" /\ (~Seen(Up(v)) \/ Listing(v) \/ \E s \in Sources : \E t \in todo[s] : t[1] = v[1] /\ t[2] # 0)

Coverage ==
  clean /\ ~spent /\ (pc = "save" \/ (pc # "idle" /\ ~cancelled)) =>
    \A v \in Places : v[1] \in steady => Covered(v)

HeldInv ==
  ~overlap /\ ~spent =>
    \A h \in held :
      /\ h[1] \in Node /\ (pc # "idle" => h[1] \in steady)
      /\ Resolves(h[1], h[2])
      /\ Current(h[2]) \/ (pc # "save" /\ Saved(items[idx[h[2]]]))

HistInv ==
  /\ PhaseInv /\ TreeInv /\ WatchInv /\ RootInv /\ ItemsRecorded
  /\ TouchedPublished /\ NoneVanished /\ Coverage /\ HeldInv

-----------------------------------------------------------------------------
(* The steps of a scan, by what they do to the database, the catalog, the  *)
(* jobs and the places still to visit.                                     *)

Aside == UNCHANGED <<world, file, pc, server>>
Quiet == db'.recs = db.recs /\ db'.touched = db.touched

Opens(s) == pc = "open" /\ s \in unopened /\ unopened' = unopened \ {s}

Takes(s, n, pid) ==
  /\ pc = "jobs" /\ At(s, "none") /\ <<n, pid>> \in todo[s]
  /\ todo' = [todo EXCEPT ![s] = @ \ {<<n, pid>>}] /\ unopened' = unopened

Finishes(s) ==
  /\ pc = "jobs" /\ At(s, "published") /\ Enter(s, NoCall) /\ UNCHANGED <<catalog, unopened>>

(* The job records a node's key; it publishes a container at once. *)
Arrives(s, n, pid, es) ==
  \E id \in Int, st \in Stages :
    /\ Base <= id
    /\ GrowsBy(db, db', KeyOf(n, pid)) /\ db'.recs[KeyOf(n, pid)] = id
    /\ Enter(s, Call(st, n, pid, id, es))
    /\ \/ IsFolder(n) /\ st \in {"bump", "published"} /\ Publish(ItemOf(n, pid, id))
       \/ ~IsFolder(n) /\ st = "publish" /\ es = {} /\ UNCHANGED catalog

Fails(n, pid) ==
  n \notin Reachable /\ GrowsBy(db, db', ErrorKey(n, pid)) /\ UNCHANGED catalog

OpensContainer(s) ==
  /\ Opens(s) /\ IsFolder(s) /\ UNCHANGED todo
  /\ \E es \in SUBSET Node :
       Arrives(s, s, 0, es) /\ IF Kind[s] = "playlist" THEN es = {s} ELSE es = {} /\ s \in Reachable

OpensNothing(s) == Opens(s) /\ Kind[s] # "playlist" /\ Fails(s, 0) /\ UNCHANGED <<todo, cur>>

OpensFile(s) ==
  /\ Opens(s) /\ Kind[s] = "file" /\ s \in Reachable
  /\ todo' = [todo EXCEPT ![s] = {<<s, 0>>}] /\ Quiet /\ UNCHANGED <<catalog, cur>>

Visits(s) ==
  \E n \in Node, pid \in Int, es \in SUBSET Node :
    /\ Takes(s, n, pid) /\ Arrives(s, n, pid, es)
    /\ IF Kind[n] = "playlist" THEN es = Entries(n) /\ n \in Reachable ELSE es = {}

Misses(s) ==
  \E n \in Node, pid \in Int :
    Takes(s, n, pid) /\ Kind[n] = "playlist" /\ Fails(n, pid) /\ UNCHANGED cur

PassesBy(s) ==
  \E n \in Node, pid \in Int :
    /\ Takes(s, n, pid) /\ Kind[n] = "playlist" /\ n \in Reachable /\ Entries(n) = {}
    /\ Quiet /\ UNCHANGED <<catalog, cur>>

Marks(s) == Finishes(s) /\ ~IsFolder(cur[s].node) /\ Quiet /\ UNCHANGED todo

BreaksOff(s) == Finishes(s) /\ cancelled /\ Quiet /\ UNCHANGED todo

Lists(s) ==
  /\ Finishes(s) /\ IsFolder(cur[s].node) /\ Quiet
  /\ \E L \in SUBSET Node :
       /\ todo' = [todo EXCEPT ![s] = @ \cup {<<c, cur[s].id>> : c \in L}]
       /\ IF Kind[cur[s].node] = "playlist" THEN L = cur[s].es
                                            ELSE L = Entries(cur[s].node) /\ cur[s].node \in Reachable

ListsNothing(s) ==
  /\ Finishes(s) /\ Kind[cur[s].node] = "folder" /\ UNCHANGED todo
  /\ Fails(cur[s].node, cur[s].pid)

JobMoves(s) ==
  \/ OpensContainer(s) \/ OpensNothing(s) \/ OpensFile(s) \/ Visits(s) \/ Misses(s) \/ PassesBy(s)
  \/ Marks(s) \/ BreaksOff(s) \/ Lists(s) \/ ListsNothing(s)

(* What recording a failure does, until the counter has run out. *)
LEMMA ErrorEffect ==
  ASSUME TypeOK, IdInv, ~spent', NEW key, ScanError(key)
  PROVE  ~spent /\ GrowsBy(db, db', key)
<1>1. PICK id \in StableIds(db, key) :
        db' = RecordScanError(db, key, id) /\ spent' = (spent \/ Spends(db, key))
  BY DEF ScanError
<1> QED
  BY <1>1, RecordingGrows DEF TypeOK, IdInv

(* What taking an id does. *)
LEMMA TakeEffect ==
  ASSUME TypeOK, IdInv, ~spent', NEW key, NEW id, Take(key, id)
  PROVE  ~spent /\ GrowsBy(db, db', key) /\ db'.recs[key] = id /\ id \in Int /\ Base <= id
<1>1. ~spent /\ DbIdsOK(db) /\ DbOK(db)
  BY DEF Take, IdInv, TypeOK
<1>2. GrowsBy(db, db', key) /\ db'.recs[key] = id /\ id \in StableIds(db, key)
  BY <1>1, RecordingGrows DEF Take
<1>3. id \in Int
  BY <1>1, <1>2, IdTypes
<1>4. Base <= id
  BY <1>1, <1>2 DEF StableIds, Known, DbIdsOK
<1> QED
  BY <1>1, <1>2, <1>3, <1>4

(* What publishing a container does. *)
LEMMA ContainerEffect ==
  ASSUME TypeOK, IdInv, ~spent', NEW s, NEW n, NEW pid, NEW es,
         PublishContainer(s, n, pid, es), IsFolder(n)
  PROVE  ~spent /\ Arrives(s, n, pid, es)
<1>1. PICK id \in StableIds(db, ContainerKey(n, pid)) :
        /\ Take(ContainerKey(n, pid), id)
        /\ Publish(ItemOf(n, pid, id))
        /\ Enter(s, Call(IF Current(id) THEN "published" ELSE "bump", n, pid, id, es))
  BY DEF PublishContainer
<1>2. KeyOf(n, pid) = ContainerKey(n, pid)
  BY DEF KeyOf
<1>3. ~spent /\ GrowsBy(db, db', KeyOf(n, pid)) /\ db'.recs[KeyOf(n, pid)] = id /\ id \in Int /\ Base <= id
  BY <1>1, <1>2, TakeEffect
<1> DEFINE st == IF Current(id) THEN "published" ELSE "bump"
<1>4. st \in Stages /\ st \in {"bump", "published"} /\ Enter(s, Call(st, n, pid, id, es))
  BY <1>1 DEF Stages
<1> HIDE DEF st
<1> QED
  BY <1>1, <1>3, <1>4 DEF Arrives

(* Every step of a scan or of one of its jobs is one of these. *)
LEMMA OpenMoves ==
  ASSUME TypeOK, IdInv, ~spent', NEW s \in Sources, OpenSource(s)
  PROVE  ~spent /\ Aside /\ JobMoves(s)
<1>1. s \in Node /\ Opens(s) /\ UNCHANGED <<world, file, pc, server>>
  BY DEF Sources, OpenSource, Opens
<1>2. CASE /\ Kind[s] # "playlist" /\ s \notin Reachable /\ ScanError(ErrorKey(s, 0))
           /\ UNCHANGED <<catalog, todo, cur>>
  BY <1>1, <1>2, ErrorEffect DEF Aside, JobMoves, OpensNothing, Fails
<1>3. CASE /\ Kind[s] = "file" /\ s \in Reachable /\ todo' = [todo EXCEPT ![s] = {<<s, 0>>}]
           /\ UNCHANGED <<db, spent, catalog, cur>>
  BY <1>1, <1>3 DEF Aside, JobMoves, OpensFile, Quiet
<1>4. CASE Kind[s] = "folder" /\ s \in Reachable /\ PublishContainer(s, s, 0, {}) /\ UNCHANGED todo
  <2>1. ~spent /\ Arrives(s, s, 0, {}) /\ IsFolder(s)
    BY <1>4, ContainerEffect DEF IsFolder
  <2> QED
    BY <1>1, <1>4, <2>1 DEF Aside, JobMoves, OpensContainer
<1>5. CASE Kind[s] = "playlist" /\ PublishContainer(s, s, 0, {s}) /\ UNCHANGED todo
  <2>1. ~spent /\ Arrives(s, s, 0, {s}) /\ IsFolder(s)
    BY <1>5, ContainerEffect DEF IsFolder
  <2> QED
    BY <1>1, <1>5, <2>1 DEF Aside, JobMoves, OpensContainer
<1> QED
  BY <1>2, <1>3, <1>4, <1>5 DEF OpenSource

(* A visit, as one of these steps. *)
LEMMA VisitMoves ==
  ASSUME TypeOK, IdInv, ~spent', NEW s \in Sources, Visit(s)
  PROVE  ~spent /\ Aside /\ JobMoves(s)
<1>1. PICK t \in todo[s] : \/ VisitFolder(s, t[1], t[2])
                           \/ VisitPlaylist(s, t[1], t[2])
                           \/ VisitFile(s, t[1], t[2])
  BY DEF Visit
<1> DEFINE n == t[1]  pid == t[2]
<1>2. n \in Node /\ pid \in Int /\ t = <<n, pid>>
  BY DEF TypeOK, JobsOK
<1>3. TakeTask(s, <<n, pid>>)
  BY <1>1 DEF VisitFolder, VisitPlaylist, VisitFile
<1>4. Takes(s, n, pid) /\ UNCHANGED <<world, file, pc, server>>
  BY <1>3 DEF TakeTask, Takes
<1>5. Entries(n) \in SUBSET Node
  BY DEF Entries
<1>6. CASE VisitFolder(s, n, pid)
  <2>1. ~spent /\ Arrives(s, n, pid, {}) /\ Kind[n] = "folder"
    BY <1>6, ContainerEffect DEF IsFolder, VisitFolder
  <2> QED
    BY <1>2, <1>4, <2>1 DEF Aside, JobMoves, Visits
<1>7. CASE VisitPlaylist(s, n, pid)
  <2>1. Kind[n] = "playlist" /\ IsFolder(n)
    BY <1>7 DEF VisitPlaylist, IsFolder
  <2>2. CASE n \notin Reachable /\ ScanError(ErrorKey(n, pid)) /\ UNCHANGED <<catalog, cur>>
    BY <1>2, <1>4, <2>1, <2>2, ErrorEffect DEF Aside, JobMoves, Misses, Fails
  <2>3. CASE n \in Reachable /\ Entries(n) = {} /\ UNCHANGED <<db, spent, catalog, cur>>
    BY <1>2, <1>4, <2>1, <2>3 DEF Aside, JobMoves, PassesBy, Quiet
  <2>4. CASE n \in Reachable /\ Entries(n) # {} /\ PublishContainer(s, n, pid, Entries(n))
    <3>1. ~spent /\ Arrives(s, n, pid, Entries(n))
      BY <2>1, <2>4, ContainerEffect
    <3> QED
      BY <1>2, <1>4, <1>5, <2>1, <2>4, <3>1 DEF Aside, JobMoves, Visits
  <2> QED
    BY <1>7, <2>2, <2>3, <2>4 DEF VisitPlaylist
<1>8. CASE VisitFile(s, n, pid)
  <2>1. ~IsFolder(n) /\ Kind[n] # "playlist"
    BY <1>8 DEF VisitFile, IsFolder
  <2>2. PICK id : Take(MediaKey(n, pid), id) /\ Enter(s, Call("publish", n, pid, id, {}))
    BY <1>8 DEF VisitFile
  <2>3. KeyOf(n, pid) = MediaKey(n, pid)
    BY <2>1 DEF KeyOf
  <2>4. ~spent /\ GrowsBy(db, db', KeyOf(n, pid)) /\ db'.recs[KeyOf(n, pid)] = id /\ id \in Int /\ Base <= id
    BY <2>2, <2>3, TakeEffect
  <2>5. Arrives(s, n, pid, {})
    BY <1>8, <2>1, <2>2, <2>4 DEF Arrives, VisitFile, Stages
  <2> QED
    BY <1>2, <1>4, <2>1, <2>4, <2>5 DEF Aside, JobMoves, Visits
<1> QED
  BY <1>1, <1>6, <1>7, <1>8

(* The end of a call, as one of these steps. *)
LEMMA FinishMoves ==
  ASSUME TypeOK, IdInv, ~spent', NEW s \in Sources, FinishCall(s)
  PROVE  ~spent /\ Aside /\ JobMoves(s)
<1>1. Finishes(s) /\ UNCHANGED <<world, file, pc, server>>
  BY DEF FinishCall, Finishes
<1> DEFINE n == cur[s].node
<1>2. cur[s].es \in SUBSET Node /\ Entries(n) \in SUBSET Node
  BY DEF TypeOK, JobsOK, Calls, Entries
<1>3. CASE ~IsFolder(n) /\ db' = MarkScanSuccess(db, MediaKey(n, cur[s].pid)) /\ UNCHANGED <<todo, spent>>
  BY <1>1, <1>3 DEF Aside, JobMoves, Marks, Quiet, MarkScanSuccess
<1>4. CASE Kind[n] = "folder" /\ cancelled /\ UNCHANGED <<todo, db, spent>>
  BY <1>1, <1>4 DEF Aside, JobMoves, BreaksOff, Quiet
<1>5. CASE /\ Kind[n] = "folder" /\ ~cancelled /\ n \in Reachable
           /\ todo' = [todo EXCEPT ![s] = @ \cup {<<c, cur[s].id>> : c \in Entries(n)}]
           /\ UNCHANGED <<db, spent>>
  BY <1>1, <1>2, <1>5 DEF Aside, JobMoves, Lists, Quiet, IsFolder
<1>6. CASE Kind[n] = "folder" /\ ~cancelled /\ n \notin Reachable /\ ScanError(ErrorKey(n, cur[s].pid)) /\ UNCHANGED todo
  <2>1. ~spent /\ GrowsBy(db, db', ErrorKey(n, cur[s].pid))
    BY <1>6, ErrorEffect
  <2> QED
    BY <1>1, <1>6, <2>1 DEF Aside, JobMoves, ListsNothing, Fails, Finishes
<1>7. CASE /\ Kind[n] = "playlist"
           /\ todo' = [todo EXCEPT ![s] = @ \cup {<<c, cur[s].id>> : c \in cur[s].es}]
           /\ UNCHANGED <<db, spent>>
  BY <1>1, <1>2, <1>7 DEF Aside, JobMoves, Lists, Quiet, IsFolder
<1> QED
  BY <1>3, <1>4, <1>5, <1>6, <1>7 DEF FinishCall

(* The other steps of a scan and of its server. *)
Others ==
  \/ WorldStep \/ BeginScan \/ StartJobs \/ JobsDone \/ EndCancelled \/ Sweep \/ PruneAndSave \/ PruneAndCutShort
  \/ Request("start") \/ Request("rescan") \/ Stop \/ Crash \/ UNCHANGED vars
  \/ \E s \in Sources : BumpUpdateId(s) \/ Discard(s) \/ PublishItem(s)

(* Every step is one of these, until the counter has run out. *)
LEMMA Moves ==
  ASSUME TypeOK, IdInv, ~spent', [Next]_vars
  PROVE  ~spent /\ (Others \/ (Aside /\ \E s \in Sources : JobMoves(s)))
<1>1. Others \/ \E s \in Sources : OpenSource(s) \/ Visit(s) \/ FinishCall(s)
  BY DEF Others, Next, ScanStep, JobStep, Start, Rescan
<1>2. Others => ~spent
  BY DEF Others, WorldStep, BeginScan, LoadDatabase, StartJobs, JobsDone, EndCancelled, Sweep,
     PruneAndSave,
         PruneAndCutShort, EndScan, Request, Stop, Crash, vars, BumpUpdateId, Discard, PublishItem
<1> QED
  BY <1>1, <1>2, OpenMoves, VisitMoves, FinishMoves

-----------------------------------------------------------------------------
(* The phases of a scan, and what the history sees of them.                *)

(* Publishing leaves the generation. *)
LEMMA PublishStays ==
  ASSUME NEW it, Publish(it)
  PROVE  gen' = gen
BY DEF Publish, Push, catalog

(* A step begins a scan, resets the catalog, is a crash, or does none of    *)
(* these and leaves an idle scan idle.                                     *)
LEMMA ScanPhases ==
  ASSUME TypeOK, [Next]_vars
  PROVE  \/ BeginScan /\ gen' = gen
         \/ (\E who : Request(who)) /\ gen' = gen + 1 /\ pc' = pc
         \/ Crash /\ gen' = 0 /\ gen > 0
         \/ /\ gen' = gen /\ (pc = "idle" => pc' = "idle")
            /\ pending' \in {pending, "no"}
<1> DEFINE Plain == /\ gen' = gen /\ (pc = "idle" => pc' = "idle")
                    /\ pending' \in {pending, "no"}
<1>1. CASE WorldStep \/ StartJobs \/ JobsDone \/ EndCancelled \/ PruneAndSave \/ PruneAndCutShort \/ Stop
             \/ UNCHANGED vars
  <2>1. Plain
    BY <1>1 DEF WorldStep, StartJobs, JobsDone, EndCancelled, PruneAndSave, PruneAndCutShort,
       EndScan, Stop,
                vars, catalog, server
  <2> QED
    BY <2>1
<1>2. CASE Sweep
  BY <1>2 DEF Sweep, SweepStaleEntries, server
<1>3. ASSUME NEW s \in Sources, OpenSource(s) \/ Visit(s) PROVE Plain
  <2>1. gen' = gen
    <3>1. UNCHANGED catalog \/ \E it : Publish(it)
      BY <1>3 DEF OpenSource, Visit, VisitFolder, VisitPlaylist, VisitFile, PublishContainer
    <3> QED
      BY <3>1, PublishStays DEF catalog
  <2> QED
    BY <1>3, <2>1 DEF OpenSource, Visit, VisitFolder, VisitPlaylist, VisitFile, TakeTask, server
<1>4. ASSUME NEW s \in Sources, BumpUpdateId(s) \/ Discard(s) \/ FinishCall(s) PROVE Plain
  BY <1>4 DEF BumpUpdateId, Discard, FinishCall, catalog, server
<1>5. ASSUME NEW s \in Sources, PublishItem(s) PROVE Plain
  <2>1. gen' = gen
    BY <1>5, PublishStays DEF PublishItem, catalog
  <2> QED
    BY <1>5, <2>1 DEF PublishItem, server
<1>6. CASE BeginScan
  BY <1>6 DEF BeginScan, catalog
<1>7. ASSUME NEW who, Request(who) PROVE gen' = gen + 1 /\ pc' = pc
  BY <1>7 DEF Request, ResetForRescan
<1>8. CASE Crash
  BY <1>8 DEF Crash
<1> QED
  BY <1>1, <1>2, <1>3, <1>4, <1>5, <1>6, <1>7, <1>8 DEF Next, ScanStep, JobStep, Start, Rescan

(* Where a scan is, its jobs are. *)
LEMMA PhaseNext ==
  ASSUME TypeOK, PhaseInv, [Next]_vars
  PROVE  PhaseInv'
<1>0. unopened \subseteq Sources /\ DOMAIN todo = Sources /\ DOMAIN cur = Sources
  BY DEF TypeOK, JobsOK
<1>1. CASE WorldStep \/ (\E who : Request(who)) \/ Stop \/ UNCHANGED vars
  BY <1>1 DEF WorldStep, Request, Stop, vars, jobs, PhaseInv
<1>2. CASE StartJobs \/ JobsDone \/ EndCancelled \/ Sweep \/ PruneAndSave \/ PruneAndCutShort
  BY <1>2 DEF StartJobs, JobsDone, EndCancelled, Sweep, PruneAndSave, PruneAndCutShort,
     EndScan, jobs, At, PhaseInv
<1>3. CASE BeginScan \/ Crash
  BY <1>3 DEF BeginScan, LoadDatabase, Crash, NoTodo, NoCalls, NoCall, PhaseInv
<1>4. ASSUME NEW s \in Sources, OpenSource(s) PROVE PhaseInv'
  <2>1. pc = "open" /\ pc' = "open" /\ unopened' = unopened \ {s}
    BY <1>4 DEF OpenSource
  <2>2. \A r \in Sources \ {s} : todo'[r] = todo[r] /\ cur'[r] = cur[r]
    BY <1>0, <1>4 DEF OpenSource, PublishContainer, Enter
  <2> QED
    BY <1>0, <2>1, <2>2 DEF PhaseInv
<1>5. ASSUME NEW s \in Sources, Visit(s) \/ Discard(s) \/ FinishCall(s) PROVE PhaseInv'
  <2>1. pc = "jobs" /\ pc' = "jobs" /\ unopened' = unopened
    BY <1>5 DEF Visit, VisitFolder, VisitPlaylist, VisitFile, TakeTask, Discard, FinishCall
  <2> QED
    BY <2>1 DEF PhaseInv
<1>6. ASSUME NEW s \in Sources, BumpUpdateId(s) \/ PublishItem(s) PROVE PhaseInv'
  <2>1. /\ cur[s].stage # "none" /\ pc' = pc /\ unopened' = unopened /\ todo' = todo
        /\ \A r \in Sources \ {s} : cur'[r] = cur[r]
    BY <1>0, <1>6 DEF BumpUpdateId, PublishItem, Enter, At
  <2> QED
    BY <1>0, <2>1 DEF PhaseInv
<1> QED
  BY <1>1, <1>2, <1>3, <1>4, <1>5, <1>6 DEF Next, ScanStep, JobStep, Start, Rescan

(* What the history notes of a step that neither resets nor crashes. *)
LEMMA HistoryGoesOn ==
  ASSUME HistoryStep, gen \in Nat, gen' = gen
  PROVE  /\ overlap' <=> overlap
         /\ held' = {h \in held : h[1] \in Visible'}
         /\ pc' = "idle" => steady' = {} /\ absent' = {} /\ ~fresh' /\ clean'
         /\ pc # "idle" /\ pc' # "idle" =>
              /\ steady' = steady \cap Visible' /\ absent' = absent \cap Absent'
              /\ (fresh' <=> fresh) /\ (clean' <=> clean)
         /\ Begins => /\ steady' = Visible' /\ absent' = Absent'
                      /\ (fresh' <=> pending # "no" /\ ~overlap) /\ clean'
<1>1. ~Resets /\ ~Crashes
  BY DEF Resets, Crashes
<1>2. /\ steady' = IF Begins THEN Visible' ELSE IF Ended THEN {} ELSE steady \cap Visible'
      /\ absent' = IF Begins THEN Absent' ELSE IF Ended THEN {} ELSE absent \cap Absent'
  BY DEF HistoryStep
<1>3. /\ overlap' = IF Resets THEN pc # "idle" ELSE (overlap /\ ~Crashes)
      /\ fresh' = IF Begins THEN pending # "no" /\ ~overlap ELSE fresh /\ ~Ended
      /\ clean' = (Begins \/ Ended \/ (clean /\ ~Resets))
  BY DEF HistoryStep
<1>4. overlap' <=> overlap
  BY <1>1, <1>3
<1>5. held' = {h \in IF Resets THEN Holdable ELSE IF Crashes THEN {} ELSE held : h[1] \in Visible'}
  BY DEF HistoryStep
<1>6. held' = {h \in held : h[1] \in Visible'}
  BY <1>1, <1>5
<1>7. CASE pc' = "idle"
  BY <1>1, <1>2, <1>3, <1>4, <1>6, <1>7 DEF Begins, Ended
<1>8. CASE pc # "idle" /\ pc' # "idle"
  BY <1>1, <1>2, <1>3, <1>4, <1>6, <1>8 DEF Begins, Ended
<1>9. CASE Begins
  BY <1>1, <1>2, <1>3, <1>4, <1>6, <1>9 DEF Begins
<1>10. CASE pc = "idle" /\ pc' # "idle" /\ ~Begins
  BY <1>4, <1>6, <1>10
<1> QED
  BY <1>7, <1>8, <1>9, <1>10

(* What it notes of a reset. *)
LEMMA HistoryResets ==
  ASSUME HistoryStep, gen \in Nat, gen' = gen + 1, pc' = pc
  PROVE  /\ overlap' <=> pc # "idle"
         /\ held' = {h \in Holdable : h[1] \in Visible'}
         /\ pc' = "idle" => steady' = {} /\ absent' = {} /\ ~fresh' /\ clean'
         /\ pc' # "idle" => steady' = steady \cap Visible' /\ absent' = absent \cap Absent' /\ ~clean'
<1>1. Resets /\ ~Begins
  BY DEF Resets, Begins
<1>2. /\ steady' = IF Begins THEN Visible' ELSE IF Ended THEN {} ELSE steady \cap Visible'
      /\ absent' = IF Begins THEN Absent' ELSE IF Ended THEN {} ELSE absent \cap Absent'
  BY DEF HistoryStep
<1>3. /\ overlap' = IF Resets THEN pc # "idle" ELSE (overlap /\ ~Crashes)
      /\ fresh' = IF Begins THEN pending # "no" /\ ~overlap ELSE fresh /\ ~Ended
      /\ clean' = (Begins \/ Ended \/ (clean /\ ~Resets))
  BY DEF HistoryStep
<1>4. held' = {h \in IF Resets THEN Holdable ELSE IF Crashes THEN {} ELSE held : h[1] \in Visible'}
  BY DEF HistoryStep
<1>5. held' = {h \in Holdable : h[1] \in Visible'} /\ (overlap' <=> pc # "idle")
  BY <1>1, <1>3, <1>4
<1> QED
  BY <1>1, <1>2, <1>3, <1>5 DEF Ended

(* What it notes of a crash. *)
LEMMA HistoryDies ==
  ASSUME HistoryStep, gen \in Nat, gen > 0, gen' = 0, pc' = "idle"
  PROVE  held' = {} /\ ~overlap' /\ steady' = {} /\ absent' = {} /\ ~fresh' /\ clean'
<1>1. ~Resets /\ Crashes /\ ~Begins /\ Ended
  BY DEF Resets, Crashes, Begins, Ended
<1>2. /\ steady' = IF Begins THEN Visible' ELSE IF Ended THEN {} ELSE steady \cap Visible'
      /\ absent' = IF Begins THEN Absent' ELSE IF Ended THEN {} ELSE absent \cap Absent'
  BY DEF HistoryStep
<1>3. /\ overlap' = IF Resets THEN pc # "idle" ELSE (overlap /\ ~Crashes)
      /\ fresh' = IF Begins THEN pending # "no" /\ ~overlap ELSE fresh /\ ~Ended
      /\ clean' = (Begins \/ Ended \/ (clean /\ ~Resets))
  BY DEF HistoryStep
<1>4. held' = {h \in IF Resets THEN Holdable ELSE IF Crashes THEN {} ELSE held : h[1] \in Visible'}
  BY DEF HistoryStep
<1> QED
  BY <1>1, <1>2, <1>3, <1>4

(* What the history says of the scan that runs stays true. *)
LEMMA WatchNext ==
  ASSUME TypeOK, WatchInv, [HNext]_hvars
  PROVE  WatchInv'
<1>1. gen \in Nat
  BY DEF TypeOK, CatalogOK
<1>2. ASSUME NEW n \in Visible', Parent[n] # Top PROVE Parent[n] \in Visible'
  BY <1>2, WorldSets, ShownCloses
<1>3. CASE UNCHANGED hvars
  BY <1>3 DEF hvars, vars, hist, world, server, WatchInv, Visible, Reachable, Absent
<1>4. CASE HNext
  <2>1. HistoryStep /\ [Next]_vars
    BY <1>4 DEF HNext
  <2>2. CASE BeginScan /\ gen' = gen
    <3>1. Begins /\ pending' = "no"
      BY <2>2 DEF BeginScan, LoadDatabase, Begins
    <3>2. steady' = Visible' /\ absent' = Absent' /\ clean'
      BY <1>1, <2>1, <2>2, <3>1, HistoryGoesOn
    <3> QED
      BY <3>1, <3>2, <1>2 DEF WatchInv, Begins
  <2>3. CASE (\E who : Request(who)) /\ gen' = gen + 1 /\ pc' = pc
    <3>1. /\ overlap' <=> pc # "idle"
          /\ pc' = "idle" => steady' = {} /\ absent' = {} /\ ~fresh' /\ clean'
          /\ pc' # "idle" => steady' = steady \cap Visible' /\ absent' = absent \cap Absent' /\ ~clean'
      BY <1>1, <2>1, <2>3, HistoryResets
    <3> QED
      BY <2>3, <3>1, <1>2 DEF WatchInv
  <2>4. CASE Crash /\ gen' = 0 /\ gen > 0
    <3>1. pc' = "idle" /\ pending' = "no"
      BY <2>4 DEF Crash
    <3>2. ~overlap' /\ steady' = {} /\ absent' = {} /\ ~fresh' /\ clean'
      BY <1>1, <2>1, <2>4, <3>1, HistoryDies
    <3> QED
      BY <3>1, <3>2 DEF WatchInv
  <2>5. CASE gen' = gen /\ (pc = "idle" => pc' = "idle") /\ pending' \in {pending, "no"}
    <3>1. /\ overlap' <=> overlap
          /\ pc' = "idle" => steady' = {} /\ absent' = {} /\ ~fresh' /\ clean'
          /\ pc # "idle" /\ pc' # "idle" =>
               /\ steady' = steady \cap Visible' /\ absent' = absent \cap Absent'
               /\ (fresh' <=> fresh) /\ (clean' <=> clean)
      BY <1>1, <2>1, <2>5, HistoryGoesOn
    <3>2. pending' # "no" /\ ~overlap' => pc' = "idle"
      BY <2>5, <3>1 DEF WatchInv
    <3>3. CASE pc' = "idle"
      BY <3>1, <3>2, <3>3 DEF WatchInv
    <3>4. CASE pc' # "idle"
      BY <2>5, <3>1, <3>2, <3>4, <1>2 DEF WatchInv
    <3> QED
      BY <3>3, <3>4
  <2> QED
    BY <2>1, <2>2, <2>3, <2>4, <2>5, ScanPhases
<1> QED
  BY <1>3, <1>4

-----------------------------------------------------------------------------
(* What publishing, a sweep and a reset do to the items and to what the    *)
(* index leads to.                                                         *)

(* Publishing adds the item, unless there is one with its id. *)
LEMMA PublishEffect ==
  ASSUME CatalogInv, NEW it \in Item, it.gen = gen, Publish(it)
  PROVE  /\ gen' = gen /\ Current(it.id)'
         /\ \A s \in DOMAIN items' : (s \in DOMAIN items /\ items'[s] = items[s]) \/ items'[s] = it
         /\ \A i \in DOMAIN idx :
              /\ i \in DOMAIN idx'
              /\ items'[idx'[i]] = items[idx[i]] \/ (i = it.id /\ ~Current(i) /\ items'[idx'[i]] = it)
         /\ \A i : Current(i) => Current(i)'
<1>1. CASE Current(it.id)
  <2>1. UNCHANGED <<items, idx, kids, size, gen>>
    BY <1>1 DEF Publish, catalog
  <2> QED
    BY <1>1, <2>1 DEF Current
<1>2. CASE ~Current(it.id)
  <2> DEFINE new == size + 1
  <2>1. Push(it) /\ gen' = gen /\ size \in Nat
    BY <1>2 DEF Publish, Push, CatalogInv, CatalogOK
  <2>2. new \notin DOMAIN items
    BY <2>1 DEF CatalogInv, CatalogOK
  <2>3. /\ DOMAIN items' = DOMAIN items \cup {new} /\ items'[new] = it
        /\ \A s \in DOMAIN items : items'[s] = items[s]
    BY <2>1, <2>2 DEF Push, Append
  <2>4. /\ DOMAIN idx' = DOMAIN idx \cup {it.id} /\ idx'[it.id] = new
        /\ \A i \in DOMAIN idx : i # it.id => idx'[i] = idx[i]
    BY <2>1 DEF Push, Append
  <2>5. \A i \in DOMAIN idx : idx[i] \in DOMAIN items
    BY DEF CatalogInv, IndexAgrees
  <2>6. Current(it.id)'
    BY <2>1, <2>3, <2>4 DEF Current
  <2>7. ASSUME NEW i, Current(i) PROVE Current(i)'
    BY <2>7, <1>2, <2>1, <2>3, <2>4, <2>5 DEF Current
  <2> QED
    BY <1>2, <2>1, <2>3, <2>4, <2>5, <2>6, <2>7
<1> QED
  BY <1>1, <1>2

(* A sweep keeps what is of the running generation, and only that. *)
LEMMA SweepEffect ==
  ASSUME CatalogInv, SweepStaleEntries
  PROVE  /\ gen' = gen
         /\ \A s \in DOMAIN items' : s \in DOMAIN items /\ items'[s] = items[s] /\ items[s].gen = gen
         /\ \A i : Current(i) => Current(i)' /\ items'[idx'[i]] = items[idx[i]]
<1>1. /\ DOMAIN items' = Swept /\ Swept \subseteq DOMAIN items /\ gen' = gen
      /\ \A s \in Swept : items'[s] = items[s] /\ items[s].gen = gen
  BY DEF SweepStaleEntries, Swept
<1>2. CatalogInv'
  BY SweepKeeps
<1>3. ASSUME NEW i, Current(i) PROVE Current(i)' /\ items'[idx'[i]] = items[idx[i]]
  <2>1. idx[i] \in DOMAIN items /\ items[idx[i]].id = i /\ items[idx[i]].gen = gen
    BY <1>3 DEF Current, CatalogInv, IndexAgrees
  <2>2. idx[i] \in Swept
    BY <2>1 DEF Swept
  <2>3. i \in DOMAIN idx'
    BY <2>1, <2>2 DEF SweepStaleEntries
  <2>4. idx'[i] \in Swept /\ items'[idx'[i]].id = i
    BY <1>1, <1>2, <2>3 DEF CatalogInv, IndexAgrees
  <2>5. items[idx'[i]].id = i /\ items[idx'[i]].gen = gen /\ idx'[i] \in DOMAIN items
    BY <1>1, <2>4
  <2>6. idx'[i] = idx[i]
    BY <2>1, <2>5 DEF CatalogInv, OneCopyPerGeneration
  <2> QED
    BY <1>1, <2>1, <2>2, <2>3, <2>6 DEF Current
<1> QED
  BY <1>1, <1>3

(* A reset touches the root alone: every other item keeps all it says, and *)
(* only the root is of the generation it begins.                           *)
LEMMA ResetEffect ==
  ASSUME CatalogInv, RootIds, ResetForRescan
  PROVE  /\ \A s \in DOMAIN items' :
              \/ items'[s].node = Top /\ items'[s].id = 0
              \/ /\ s \in DOMAIN items /\ items'[s] = items[s]
                 /\ items[s].node # Top /\ items'[s].gen # gen'
         /\ \A i \in DOMAIN idx : items[idx[i]].node # Top =>
              i \in DOMAIN idx' /\ items'[idx'[i]] = items[idx[i]]
<1>1. /\ gen \in Nat /\ size \in Nat /\ gen' = gen + 1
      /\ \A s \in DOMAIN items : s <= size /\ items[s] \in Item /\ items[s].gen <= gen
      /\ \A i \in DOMAIN idx : idx[i] \in DOMAIN items /\ items[idx[i]].id = i
      /\ 0 < Base /\ Base \in Int
  BY IdAssumption DEF CatalogInv, CatalogOK, IndexAgrees, ResetForRescan
<1>2. \A s \in DOMAIN items : items[s].gen # gen' /\ items[s].id \in Int /\ items[s].gen \in Nat
  BY <1>1 DEF Item
<1>3. \A s \in DOMAIN items : items[s].node = Top <=> items[s].id = 0
  BY <1>1, <1>2 DEF RootIds
<1>4. CASE 0 \in DOMAIN idx
  <2>1. idx' = idx /\ items' = [items EXCEPT ![idx[0]].gen = gen + 1] /\ idx[0] \in DOMAIN items
    BY <1>1, <1>4 DEF ResetForRescan
  <2>2. /\ DOMAIN items' = DOMAIN items
        /\ \A s \in DOMAIN items : s # idx[0] => items'[s] = items[s]
    BY <2>1 DEF CatalogInv, CatalogOK
  <2>3. items'[idx[0]].id = 0 /\ items'[idx[0]].node = Top
    <3>1. items'[idx[0]] = [items[idx[0]] EXCEPT !.gen = gen + 1] /\ items[idx[0]].id = 0
      BY <1>1, <1>4, <2>1 DEF CatalogInv, CatalogOK
    <3>2. items[idx[0]] \in Item /\ items[idx[0]].node = Top
      BY <1>1, <1>3, <2>1, <3>1
    <3> QED
      BY <3>1, <3>2 DEF Item
  <2>4. \A s \in DOMAIN items' :
          \/ items'[s].node = Top /\ items'[s].id = 0
          \/ s \in DOMAIN items /\ items'[s] = items[s] /\ items[s].node # Top /\ items'[s].gen # gen'
    BY <1>2, <1>3, <2>2, <2>3
  <2>5. \A i \in DOMAIN idx : items[idx[i]].node # Top => items'[idx'[i]] = items[idx[i]]
    <3> SUFFICES ASSUME NEW i \in DOMAIN idx, items[idx[i]].node # Top
                 PROVE  items'[idx'[i]] = items[idx[i]]
      OBVIOUS
    <3>1. idx[i] \in DOMAIN items /\ items[idx[0]].node = Top
      BY <1>1, <1>3, <1>4
    <3> QED
      BY <2>1, <2>2, <3>1
  <2> QED
    BY <2>1, <2>4, <2>5
<1>5. CASE 0 \notin DOMAIN idx
  <2> DEFINE new == size + 1
  <2>1. new \notin DOMAIN items
    BY <1>1
  <2>2. /\ DOMAIN items' = DOMAIN items \cup {new} /\ items'[new] = RootItem
        /\ \A s \in DOMAIN items : items'[s] = items[s]
        /\ DOMAIN idx' = DOMAIN idx \cup {0} /\ \A i \in DOMAIN idx : idx'[i] = idx[i]
    BY <1>5, <2>1 DEF ResetForRescan, Append, RootItem
  <2>3. RootItem.node = Top /\ RootItem.id = 0
    BY DEF RootItem
  <2> QED
    BY <1>1, <1>2, <1>3, <2>1, <2>2, <2>3
<1> QED
  BY <1>4, <1>5

-----------------------------------------------------------------------------
(* What is known of a state, and what a step does to the catalog.          *)

WholeInv == Inv /\ IdInv /\ HistInv

(* What the invariants say together of a state in which a scan runs. *)
LEMMA Running ==
  ASSUME WholeInv, ~spent, pc # "idle"
  PROVE  /\ DbTree /\ TasksPlaced /\ CallsPlaced /\ DbIdsOK(db) /\ DbOK(db)
         /\ TreeOK(file.recs) /\ OnePerPlace(file.recs) /\ Holds(db.recs, file.recs)
BY DEF WholeInv, Inv, IdInv, HistInv, TreeInv, TypeOK

(* PublishItem as a step of its job. *)
Delivers(s) ==
  /\ At(s, "publish") /\ Quiet /\ UNCHANGED <<todo, unopened>>
  /\ \/ /\ Publish(ItemOf(cur[s].node, cur[s].pid, cur[s].id))
        /\ \E st \in {"bump", "published"} : Enter(s, [cur[s] EXCEPT !.stage = st])
     \/ cur[s].node \notin Reachable /\ Enter(s, NoCall) /\ UNCHANGED catalog

(* PublishItem has a file that was recorded, and pushes it or gives it up. *)
LEMMA Delivering ==
  ASSUME WholeInv, ~spent, NEW s \in Sources, PublishItem(s)
  PROVE  /\ Aside /\ Delivers(s) /\ pc \in {"open", "jobs"}
         /\ cur[s].node \in Node /\ cur[s].pid \in Int /\ cur[s].id \in Int /\ Base <= cur[s].id
         /\ ~IsFolder(cur[s].node) /\ KeyOf(cur[s].node, cur[s].pid) \in db.touched
         /\ db.recs[KeyOf(cur[s].node, cur[s].pid)] = cur[s].id
<1>1. At(s, "publish") /\ UNCHANGED <<world, file, db, updateId, pc, unopened, todo, server, spent>>
  BY DEF PublishItem
<1>2. pc \in {"open", "jobs"} /\ pc # "idle"
  BY <1>1 DEF WholeInv, HistInv, PhaseInv, At
<1>3. CallsPlaced /\ DbIdsOK(db) /\ DbTree
  BY <1>2, Running
<1>4. /\ Place(cur[s].node, cur[s].pid) \in Places /\ ~IsFolder(cur[s].node)
      /\ KeyOf(cur[s].node, cur[s].pid) \in db.touched
      /\ db.recs[KeyOf(cur[s].node, cur[s].pid)] = cur[s].id
  BY <1>1, <1>3 DEF CallsPlaced, CallIn, PlacedIn, At
<1>5. KeyOf(cur[s].node, cur[s].pid) \in DOMAIN db.recs
  BY <1>3, <1>4 DEF DbTree, Tree
<1>6. Base <= cur[s].id
  BY <1>3, <1>4, <1>5 DEF DbIdsOK
<1>7. cur[s].node \in Node
  BY <1>4 DEF Place, Places, Sources
<1>8. cur[s].pid \in Int /\ cur[s].id \in Int
  BY DEF WholeInv, Inv, TypeOK, JobsOK, Calls
<1>9. Delivers(s)
  <2>1. CASE Enter(s, NoCall) /\ UNCHANGED catalog /\ cur[s].node \notin Reachable
    BY <1>1, <2>1 DEF Delivers, Quiet
  <2>2. CASE /\ Publish(ItemOf(cur[s].node, cur[s].pid, cur[s].id))
             /\ Enter(s, [cur[s] EXCEPT !.stage = IF Current(cur[s].id) THEN "published" ELSE "bump"])
    <3> DEFINE st == IF Current(cur[s].id) THEN "published" ELSE "bump"
    <3>1. st \in {"bump", "published"} /\ Enter(s, [cur[s] EXCEPT !.stage = st])
      BY <2>2
    <3> HIDE DEF st
    <3> QED
      BY <1>1, <2>2, <3>1 DEF Delivers, Quiet
  <2> QED
    BY <2>1, <2>2 DEF PublishItem
<1> QED
  BY <1>1, <1>2, <1>4, <1>6, <1>7, <1>8, <1>9 DEF Aside

(* A step that publishes an item, which is recorded. *)
Publishes(n, pid, id) ==
  /\ n \in Node /\ pid \in Int /\ id \in Int /\ Base <= id
  /\ pc \in {"open", "jobs"} /\ Aside
  /\ Publish(ItemOf(n, pid, id))
  /\ KeyOf(n, pid) \in DOMAIN db'.recs /\ db'.recs[KeyOf(n, pid)] = id
  /\ fresh /\ clean /\ n \in absent => Anyway(n)

(* Every step publishes one item, sweeps, resets, clears or leaves the      *)
(* catalog.                                                                *)
LEMMA CatalogMoves ==
  ASSUME WholeInv, ~spent', [Next]_vars
  PROVE  ~spent /\ \/ UNCHANGED catalog
                   \/ \E n, pid, id : Publishes(n, pid, id)
                   \/ Sweep \/ (\E who : Request(who)) \/ Crash
<1>0. TypeOK /\ IdInv /\ HistInv
  BY DEF WholeInv, Inv
<1>1. ~spent /\ (Others \/ (Aside /\ \E s \in Sources : JobMoves(s)))
  BY <1>0, Moves
<1>2. ASSUME NEW s \in Sources, NEW n \in Node, NEW pid \in Int, NEW es, Arrives(s, n, pid, es), Aside,
             pc \in {"open", "jobs"}, fresh /\ clean /\ n \in absent => Anyway(n)
      PROVE  UNCHANGED catalog \/ \E id : Publishes(n, pid, id)
  <2>1. KeyOf(n, pid) \in DOMAIN db'.recs
    BY <1>2 DEF Arrives, GrowsBy
  <2> QED
    BY <1>2, <2>1 DEF Arrives, Publishes
<1>3. ASSUME NEW n \in Reachable PROVE n \notin absent
  BY <1>0, ReachableStands DEF HistInv, WatchInv
<1>4. ASSUME NEW s \in Sources, Aside, OpensContainer(s)
      PROVE  UNCHANGED catalog \/ \E n, pid, id : Publishes(n, pid, id)
  <2>1. PICK es \in SUBSET Node :
          Arrives(s, s, 0, es) /\ IF Kind[s] = "playlist" THEN es = {s} ELSE es = {} /\ s \in Reachable
    BY <1>4 DEF OpensContainer
  <2>2. s \in absent => Anyway(s)
    BY <2>1, <1>3 DEF Anyway
  <2>3. s \in Node /\ 0 \in Int /\ pc \in {"open", "jobs"}
    BY <1>4 DEF Sources, OpensContainer, Opens
  <2> QED
    BY <1>2, <1>4, <2>1, <2>2, <2>3
<1>5. ASSUME NEW s \in Sources, Aside, Visits(s)
      PROVE  UNCHANGED catalog \/ \E n, pid, id : Publishes(n, pid, id)
  <2>1. PICK n \in Node, pid \in Int, es \in SUBSET Node : Takes(s, n, pid) /\ Arrives(s, n, pid, es)
    BY <1>5 DEF Visits
  <2>2. fresh /\ clean /\ n \in absent => Anyway(n)
    BY <1>0, <1>1, <2>1 DEF HistInv, NoneVanished, Takes
  <2>3. pc \in {"open", "jobs"}
    BY <2>1 DEF Takes
  <2> QED
    BY <1>2, <1>5, <2>1, <2>2, <2>3
<1>6. ASSUME NEW s \in Sources, PublishItem(s)
      PROVE  UNCHANGED catalog \/ \E n, pid, id : Publishes(n, pid, id)
  <2>1. /\ Aside /\ Delivers(s) /\ pc \in {"open", "jobs"}
        /\ cur[s].node \in Node /\ cur[s].pid \in Int /\ cur[s].id \in Int /\ Base <= cur[s].id
        /\ KeyOf(cur[s].node, cur[s].pid) \in db.touched
        /\ db.recs[KeyOf(cur[s].node, cur[s].pid)] = cur[s].id
    BY <1>1, <1>6, Delivering
  <2>2. DbTree
    BY <1>1, <2>1, Running
  <2>3. KeyOf(cur[s].node, cur[s].pid) \in DOMAIN db'.recs /\ db'.recs[KeyOf(cur[s].node, cur[s].pid)] = cur[s].id
    BY <2>1, <2>2 DEF DbTree, Tree, Delivers, Quiet
  <2>4. fresh /\ clean /\ cur[s].node \in absent => Anyway(cur[s].node)
    BY <1>0, <1>1, <2>1 DEF HistInv, NoneVanished, Delivers, At
  <2> QED
    BY <2>1, <2>3, <2>4 DEF Delivers, Publishes
<1>7. ASSUME NEW s \in Sources, JobMoves(s), ~OpensContainer(s), ~Visits(s) PROVE UNCHANGED catalog
  BY <1>7 DEF JobMoves, OpensNothing, OpensFile, Misses, PassesBy, Marks, BreaksOff, Lists,
     ListsNothing,
              Finishes, Fails
<1>8. CASE Others
  <2>1. ASSUME NEW s \in Sources, BumpUpdateId(s) \/ Discard(s) PROVE UNCHANGED catalog
    BY <2>1 DEF BumpUpdateId, Discard
  <2>2. CASE WorldStep \/ BeginScan \/ StartJobs \/ JobsDone \/ EndCancelled \/ PruneAndSave \/ PruneAndCutShort
             \/ Stop
    <3>1. CASE WorldStep
      BY <3>1 DEF WorldStep
    <3>2. CASE BeginScan
      BY <3>2, <1>1 DEF BeginScan
    <3>3. CASE StartJobs \/ JobsDone \/ EndCancelled \/ Stop
      BY <3>3 DEF StartJobs, JobsDone, EndCancelled, Stop
    <3>4. CASE PruneAndSave \/ PruneAndCutShort
      BY <3>4 DEF PruneAndSave, PruneAndCutShort, EndScan
    <3> QED
      BY <2>2, <3>1, <3>2, <3>3, <3>4
  <2>3. CASE UNCHANGED vars
    BY <2>3 DEF vars
  <2> QED
    BY <1>1, <1>6, <1>8, <2>1, <2>2, <2>3 DEF Others
<1> QED
  BY <1>1, <1>4, <1>5, <1>7, <1>8

(* The item of such a step. *)
LEMMA PublishedItem ==
  ASSUME CatalogInv, NEW n \in Node, NEW pid \in Int, NEW id \in Int
  PROVE  /\ ItemOf(n, pid, id) \in Item /\ ItemOf(n, pid, id).gen = gen /\ ItemOf(n, pid, id).id = id
         /\ ItemOf(n, pid, id).node = n /\ ItemOf(n, pid, id).node # Top /\ ItemOf(n, pid, id).parent = pid
         /\ RecordKey(ItemOf(n, pid, id)) = KeyOf(n, pid)
<1>1. gen \in Nat /\ n # Top
  BY NodeAssumption DEF CatalogInv, CatalogOK
<1>2. IsFolder(n) \in BOOLEAN
  BY DEF IsFolder
<1> DEFINE it == ItemOf(n, pid, id)
<1>3. /\ it.gen = gen /\ it.id = id /\ it.node = n /\ it.parent = pid /\ it.folder = IsFolder(n)
      /\ it \in Item
  BY <1>1, <1>2 DEF ItemOf, Item
<1>4. RecordKey(it) = KeyOf(n, pid)
  BY <1>3 DEF RecordKey, KeyOf
<1> QED
  BY <1>1, <1>3, <1>4

(* The ids of the root and of what it is not stay apart. *)
LEMMA RootNext ==
  ASSUME WholeInv, [HNext]_hvars, WatchInv'
  PROVE  RootInv'
<1> SUFFICES ASSUME ~spent'
             PROVE  /\ RootIds'
                    /\ pending' # "no" /\ ~overlap' =>
                         \A s \in DOMAIN items' : items'[s].gen = gen' => items'[s].node = Top
  BY DEF RootInv
<1>1. CatalogInv /\ gen \in Nat
  BY DEF WholeInv, Inv, CatalogInv, TypeOK, CatalogOK
<1>2. [Next]_vars /\ TypeOK
  BY DEF HNext, hvars, WholeInv, Inv
<1>3. ~spent /\ RootInv /\ WatchInv /\ RootIds
  BY <1>2, CatalogMoves DEF WholeInv, HistInv, RootInv
<1>4. CASE UNCHANGED catalog
  <2>1. UNCHANGED <<items, gen>> /\ RootIds'
    BY <1>3, <1>4 DEF catalog, RootIds
  <2>2. ASSUME pending' # "no", ~overlap' PROVE pending # "no" /\ ~overlap
    <3>1. CASE UNCHANGED hvars
      BY <3>1, <2>2 DEF hvars, hist, vars, server
    <3>2. CASE HistoryStep
      <4>1. overlap' <=> overlap
        BY <1>1, <2>1, <3>2, HistoryGoesOn
      <4>2. pending' \in {pending, "no"} \/ BeginScan
        BY <1>1, <1>2, <2>1, ScanPhases
      <4> QED
        BY <2>2, <4>1, <4>2 DEF BeginScan
    <3> QED
      BY <3>1, <3>2 DEF HNext
  <2> QED
    BY <1>3, <2>1, <2>2 DEF RootInv
<1>5. ASSUME NEW n, NEW pid, NEW id, Publishes(n, pid, id)
      PROVE  RootIds' /\ (pending' = "no" \/ overlap')
  <2> DEFINE it == ItemOf(n, pid, id)
  <2>1. it \in Item /\ it.gen = gen /\ it.id = id /\ it.node # Top /\ Base <= id
    BY <1>1, <1>5, PublishedItem DEF Publishes
  <2>2. \A s \in DOMAIN items' : (s \in DOMAIN items /\ items'[s] = items[s]) \/ items'[s] = it
    BY <1>1, <1>5, <2>1, PublishEffect DEF Publishes
  <2>3. RootIds'
    BY <1>3, <2>1, <2>2 DEF RootIds
  <2>4. pc' # "idle"
    BY <1>5 DEF Publishes, Aside
  <2> QED
    BY <2>3, <2>4 DEF WatchInv
<1>6. CASE Sweep
  <2>1. \A s \in DOMAIN items' : s \in DOMAIN items /\ items'[s] = items[s]
    BY <1>1, <1>6, SweepEffect DEF Sweep
  <2>2. pc' # "idle"
    BY <1>6 DEF Sweep
  <2> QED
    BY <1>3, <2>1, <2>2 DEF RootIds, WatchInv
<1>7. CASE \E who : Request(who)
  <2>1. \A s \in DOMAIN items' :
          \/ items'[s].node = Top /\ items'[s].id = 0
          \/ s \in DOMAIN items /\ items'[s] = items[s] /\ items[s].node # Top /\ items'[s].gen # gen'
    BY <1>1, <1>3, <1>7, ResetEffect DEF Request
  <2> QED
    BY <1>3, <2>1 DEF RootIds
<1>8. CASE Crash
  BY <1>8 DEF Crash, RootIds, NoItems
<1> QED
  BY <1>2, <1>4, <1>5, <1>6, <1>7, <1>8, CatalogMoves

-----------------------------------------------------------------------------
(* What a step of a running scan leaves of its database and its history.   *)

(* A step of a job adds at most one record. *)
LEMMA JobsRecord ==
  ASSUME NEW s \in Sources, JobMoves(s)
  PROVE  Quiet \/ \E key : GrowsBy(db, db', key)
BY DEF JobMoves, OpensContainer, OpensNothing, OpensFile, Visits, Misses, PassesBy, Marks,
   BreaksOff, Lists,
       ListsNothing, Arrives, Fails

(* The database of a running scan only grows. *)
LEMMA RunningGrows ==
  ASSUME WholeInv, ~spent', [Next]_vars, pc # "idle", pc' # "idle"
  PROVE  /\ ~spent /\ file' = file /\ Holds(db'.recs, db.recs) /\ db.touched \subseteq db'.touched
         /\ (Quiet /\ Others) \/ (Aside /\ \E s \in Sources : JobMoves(s))
<1>1. ~spent /\ (Others \/ (Aside /\ \E s \in Sources : JobMoves(s)))
  BY Moves DEF WholeInv, Inv
<1>2. CASE Others
  <2>1. file' = file /\ db' = db
    <3>1. CASE WorldStep \/ StartJobs \/ JobsDone \/ Sweep \/ Stop \/ UNCHANGED vars
      BY <3>1 DEF WorldStep, StartJobs, JobsDone, Sweep, Stop, vars
    <3>2. CASE Request("start") \/ Request("rescan")
      BY <3>2 DEF Request
    <3>3. CASE \E s \in Sources : BumpUpdateId(s) \/ Discard(s) \/ PublishItem(s)
      BY <3>3 DEF BumpUpdateId, Discard, PublishItem
    <3>4. ~BeginScan /\ ~EndCancelled /\ ~PruneAndSave /\ ~PruneAndCutShort /\ ~Crash
      BY DEF BeginScan, EndCancelled, PruneAndSave, PruneAndCutShort, EndScan, Crash
    <3> QED
      BY <1>2, <3>1, <3>2, <3>3, <3>4 DEF Others
  <2> QED
    BY <1>1, <1>2, <2>1 DEF Quiet, Holds
<1>3. CASE Aside /\ \E s \in Sources : JobMoves(s)
  <2>1. Quiet \/ \E key : GrowsBy(db, db', key)
    BY <1>3, JobsRecord
  <2>2. Holds(db'.recs, db.recs) /\ db.touched \subseteq db'.touched
    BY <2>1 DEF Quiet, GrowsBy, Holds
  <2> QED
    BY <1>1, <1>3, <2>2 DEF Aside
<1> QED
  BY <1>1, <1>2, <1>3

(* A step after which a scan runs begins it or is one of its steps, of      *)
(* which none is a reset as long as the scan is clean.                     *)
LEMMA RunningHistory ==
  ASSUME WholeInv, ~spent', [HNext]_hvars, pc' # "idle"
  PROVE  /\ ~spent /\ [Next]_vars
         /\ \/ /\ BeginScan /\ HistoryStep /\ gen' = gen /\ steady' = Visible' /\ absent' = Absent'
               /\ (fresh' <=> pending # "no" /\ ~overlap)
            \/ /\ pc # "idle" /\ steady' = steady \cap Visible' /\ absent' = absent \cap Absent'
               /\ clean' => /\ clean /\ (fresh' <=> fresh) /\ gen' = gen
                            /\ ~(\E who : Request(who)) /\ ~Crash
<1>1. [Next]_vars /\ TypeOK /\ gen \in Nat
  BY DEF HNext, hvars, WholeInv, Inv, TypeOK, CatalogOK
<1>2. ~spent /\ steady \subseteq Visible /\ absent \subseteq Absent
  BY <1>1, CatalogMoves DEF WholeInv, HistInv, WatchInv
<1>3. ~Crash
  BY DEF Crash
<1>4. CASE UNCHANGED hvars
  <2>1. /\ pc' = pc /\ gen' = gen /\ gone' = gone /\ down' = down /\ steady' = steady /\ absent' = absent
        /\ (clean' <=> clean) /\ (fresh' <=> fresh)
    BY <1>4 DEF hvars, vars, hist, world, catalog
  <2>2. Visible' = Visible /\ Absent' = Absent
    BY <2>1 DEF Visible, Reachable, Absent
  <2>3. ~(\E who : Request(who))
    BY <1>1, <2>1 DEF Request, ResetForRescan
  <2> QED
    BY <1>1, <1>2, <1>3, <2>1, <2>2, <2>3
<1>5. CASE HNext
  <2>1. HistoryStep
    BY <1>5 DEF HNext
  <2>2. CASE BeginScan /\ gen' = gen
    <3>1. Begins
      BY <2>2 DEF BeginScan, LoadDatabase, Begins
    <3> QED
      BY <1>1, <1>2, <2>1, <2>2, <3>1, HistoryGoesOn
  <2>3. CASE (\E who : Request(who)) /\ gen' = gen + 1 /\ pc' = pc
    BY <1>1, <1>2, <2>1, <2>3, HistoryResets
  <2>4. CASE gen' = gen /\ (pc = "idle" => pc' = "idle")
    <3>1. ~(\E who : Request(who))
      BY <1>1, <2>4 DEF Request, ResetForRescan
    <3> QED
      BY <1>1, <1>2, <1>3, <2>1, <2>4, <3>1, HistoryGoesOn
  <2> QED
    BY <1>1, <1>3, <2>2, <2>3, <2>4, ScanPhases
<1> QED
  BY <1>4, <1>5

(* Every item that a fresh scan has published is recorded. *)
LEMMA RecordedNext ==
  ASSUME WholeInv, [HNext]_hvars, WatchInv'
  PROVE  ItemsRecorded'
<1> SUFFICES ASSUME fresh', clean', ~spent'
             PROVE  \A s \in DOMAIN items' : items'[s].gen = gen' /\ items'[s].node # Top =>
                      RecordKey(items'[s]) \in DOMAIN db'.recs /\ db'.recs[RecordKey(items'[s])] = items'[s].id
  BY DEF ItemsRecorded, RecordKey
<1>1. pc' # "idle"
  BY DEF WatchInv
<1>2. /\ ~spent /\ [Next]_vars /\ CatalogInv /\ ItemsRecorded /\ RootInv
  BY <1>1, RunningHistory DEF WholeInv, HistInv, Inv, CatalogInv, TypeOK
<1>3. CASE BeginScan /\ gen' = gen /\ (fresh' <=> pending # "no" /\ ~overlap)
  <2>1. UNCHANGED items
    BY <1>3 DEF BeginScan, catalog
  <2> QED
    BY <1>2, <1>3, <2>1 DEF RootInv
<1>4. CASE pc # "idle" /\ clean /\ fresh /\ gen' = gen /\ ~(\E who : Request(who)) /\ ~Crash
  <2>1. Holds(db'.recs, db.recs)
    BY <1>1, <1>2, <1>4, RunningGrows
  <2>2. \A s \in DOMAIN items : items[s].gen = gen /\ items[s].node # Top =>
          RecordKey(items[s]) \in DOMAIN db'.recs /\ db'.recs[RecordKey(items[s])] = items[s].id
    BY <1>2, <1>4, <2>1 DEF ItemsRecorded, Holds
  <2>3. CASE UNCHANGED catalog
    BY <2>2, <2>3, <1>4 DEF catalog
  <2>4. ASSUME NEW n, NEW pid, NEW id, Publishes(n, pid, id)
        PROVE  \A s \in DOMAIN items' : items'[s].gen = gen' /\ items'[s].node # Top =>
                 RecordKey(items'[s]) \in DOMAIN db'.recs /\ db'.recs[RecordKey(items'[s])] = items'[s].id
    <3> DEFINE it == ItemOf(n, pid, id)
    <3>1. it \in Item /\ it.gen = gen /\ it.id = id /\ RecordKey(it) = KeyOf(n, pid)
      BY <1>2, <2>4, PublishedItem DEF Publishes
    <3>2. \A s \in DOMAIN items' : (s \in DOMAIN items /\ items'[s] = items[s]) \/ items'[s] = it
      BY <1>2, <2>4, <3>1, PublishEffect DEF Publishes
    <3>3. KeyOf(n, pid) \in DOMAIN db'.recs /\ db'.recs[KeyOf(n, pid)] = id
      BY <2>4 DEF Publishes
    <3> HIDE DEF it
    <3> SUFFICES ASSUME NEW s \in DOMAIN items', items'[s].gen = gen', items'[s].node # Top
                 PROVE  RecordKey(items'[s]) \in DOMAIN db'.recs /\ db'.recs[RecordKey(items'[s])] = items'[s].id
      OBVIOUS
    <3>4. CASE items'[s] = it
      BY <3>1, <3>3, <3>4
    <3>5. CASE s \in DOMAIN items /\ items'[s] = items[s]
      BY <1>4, <2>2, <3>5
    <3> QED
      BY <3>2, <3>4, <3>5
  <2>5. CASE Sweep
    <3>1. \A s \in DOMAIN items' : s \in DOMAIN items /\ items'[s] = items[s]
      BY <1>2, <2>5, SweepEffect DEF Sweep
    <3> QED
      BY <1>4, <2>2, <3>1
  <2> QED
    BY <1>2, <1>4, <2>3, <2>4, <2>5, CatalogMoves
<1> QED
  BY <1>1, <1>3, <1>4, RunningHistory

-----------------------------------------------------------------------------
(* The tree of the records, and where the tasks and calls stand in it.     *)

(* What is placed stays so while the records grow. *)
LEMMA PlacedStays ==
  ASSUME NEW r, NEW S, NEW q, NEW T, Holds(q, r), S \subseteq T, S \subseteq DOMAIN r
  PROVE  /\ \A t : TaskIn(r, S, t) => TaskIn(q, T, t)
         /\ \A c : CallIn(r, S, c) => CallIn(q, T, c)
<1>1. \A n, pid : PlacedIn(r, S, n, pid) => PlacedIn(q, T, n, pid)
  BY DEF PlacedIn, Holds
<1>2. \A k \in S : k \in T /\ q[k] = r[k]
  BY DEF Holds
<1> QED
  BY <1>1, <1>2 DEF TaskIn, CallIn

(* An entry of a folder or playlist has its place below it. *)
LEMMA EntryPlaces ==
  ASSUME NEW n \in Node, NEW pid, Place(n, pid) \in Places, IsFolder(n), Kind[n] = "playlist" => pid # 0,
         NEW c \in Entries(n)
  PROVE  <<c, "in">> \in Places /\ Up(<<c, "in">>) = Place(n, pid)
<1>1. c \in Node /\ Parent[c] = n /\ n # Top
  BY NodeAssumption DEF Entries
<1>2. c \notin Sources
  BY <1>1 DEF Sources
<1>3. Up(<<c, "in">>) = <<n, IF n \in Sources /\ Kind[n] # "playlist" THEN "top" ELSE "in">>
  BY <1>1, <1>2 DEF Up
<1>4. CASE n \in Sources /\ Kind[n] # "playlist"
  <2>1. <<n, "in">> \notin Places
    BY <1>4 DEF Places
  <2> QED
    BY <1>1, <1>2, <1>3, <1>4, <2>1 DEF Place, Places
<1>5. CASE n \notin Sources
  <2>1. <<n, "top">> \notin Places
    BY <1>5 DEF Places
  <2> QED
    BY <1>1, <1>2, <1>3, <1>5, <2>1 DEF Place, Places
<1>6. CASE n \in Sources /\ Kind[n] = "playlist"
  BY <1>1, <1>2, <1>3, <1>6 DEF Place, Places
<1> QED
  BY <1>4, <1>5, <1>6

(* What a job records next is placed, and so is the call it enters. *)
LEMMA ArrivalPlaced ==
  ASSUME Tree(db.recs, db.touched), NEW s \in Sources, NEW n, NEW pid, NEW es,
         cur \in [Sources -> Calls],
         PlacedIn(db.recs, db.touched, n, pid), Arrives(s, n, pid, es),
         \A e \in es : <<e, "in">> \in Places /\ Up(<<e, "in">>) = Place(n, pid)
  PROVE  /\ Tree(db'.recs, db'.touched) /\ CallIn(db'.recs, db'.touched, cur'[s])
         /\ cur'[s].node = n /\ cur'[s].pid = pid /\ cur'[s].es = es
         /\ cur'[s].stage \in IF IsFolder(n) THEN {"bump", "published"} ELSE {"publish"}
         /\ \A r \in Sources \ {s} : cur'[r] = cur[r]
<1>1. PICK id \in Int, st \in Stages :
        /\ GrowsBy(db, db', KeyOf(n, pid)) /\ db'.recs[KeyOf(n, pid)] = id
        /\ Enter(s, Call(st, n, pid, id, es))
        /\ IF IsFolder(n) THEN st \in {"bump", "published"} ELSE st = "publish"
  BY DEF Arrives
<1>2. Tree(db'.recs, db'.touched)
  BY <1>1, TreeGrows
<1>3. cur'[s] = Call(st, n, pid, id, es) /\ \A r \in Sources \ {s} : cur'[r] = cur[r]
  BY <1>1 DEF Enter
<1>4. /\ cur'[s].stage = st /\ cur'[s].node = n /\ cur'[s].pid = pid /\ cur'[s].id = id /\ cur'[s].es = es
  BY <1>3 DEF Call
<1>5. PlacedIn(db'.recs, db'.touched, n, pid)
  BY <1>1 DEF PlacedIn, GrowsBy, Tree
<1>6. KeyOf(n, pid) \in db'.touched
  BY <1>1 DEF GrowsBy
<1>7. st = "publish" => ~IsFolder(n)
  BY <1>1
<1>8. CallIn(db'.recs, db'.touched, cur'[s])
  BY <1>1, <1>4, <1>5, <1>6, <1>7 DEF CallIn
<1> QED
  BY <1>1, <1>2, <1>3, <1>4, <1>8

(* A step of a job keeps tasks and calls in their places. *)
LEMMA JobsKeepTree ==
  ASSUME WholeInv, ~spent, pc # "idle", NEW s \in Sources, JobMoves(s), Aside,
         Holds(db'.recs, db.recs), db.touched \subseteq db'.touched
  PROVE  (DbTree /\ TasksPlaced /\ CallsPlaced)'
<1> DEFINE R == db'.recs  T == db'.touched
<1>1. /\ DbTree /\ TasksPlaced /\ CallsPlaced /\ DbIdsOK(db) /\ 0 < Base /\ Base \in Int
      /\ DOMAIN todo = Sources /\ cur \in [Sources -> Calls]
      /\ db.touched \subseteq DOMAIN db.recs
  BY Running, IdAssumption DEF WholeInv, Inv, TypeOK, JobsOK, DbTree, Tree
<1>2. \A r \in Sources : \A t \in todo[r] : TaskIn(R, T, t)
  BY <1>1, PlacedStays DEF TasksPlaced
<1>3. \A r \in Sources : cur[r].stage # "none" => CallIn(R, T, cur[r])
  BY <1>1, PlacedStays DEF CallsPlaced
<1>4. ASSUME Quiet \/ \E n, pid : Fails(n, pid) PROVE Tree(R, T)
  <2>1. CASE Quiet
    BY <1>1, <2>1 DEF Quiet, DbTree
  <2>2. ASSUME NEW n, NEW pid, Fails(n, pid) PROVE Tree(R, T)
    <3>1. GrowsBy(db, db', ErrorKey(n, pid)) /\ ErrorKey(n, pid)[1] = "error"
      BY <2>2 DEF Fails, ErrorKey
    <3> QED
      BY <1>1, <3>1, TreeGrows DEF DbTree
  <2> QED
    BY <1>4, <2>1, <2>2
<1>5. ASSUME \A r \in Sources : \A t \in todo'[r] : TaskIn(R, T, t),
             \A r \in Sources : cur'[r].stage # "none" => CallIn(R, T, cur'[r]), Tree(R, T)
      PROVE  (DbTree /\ TasksPlaced /\ CallsPlaced)'
  BY <1>5 DEF DbTree, TasksPlaced, CallsPlaced
<1>6. CASE OpensContainer(s)
  <2>1. PICK es \in SUBSET Node :
          Arrives(s, s, 0, es) /\ IF Kind[s] = "playlist" THEN es = {s} ELSE es = {}
    BY <1>6 DEF OpensContainer
  <2>2. PlacedIn(db.recs, db.touched, s, 0)
    BY DEF PlacedIn, Place, Places
  <2>3. Place(s, 0) = <<s, "top">>
    BY DEF Place
  <2>4. \A e \in es : <<e, "in">> \in Places /\ Up(<<e, "in">>) = Place(s, 0)
    BY <2>1, <2>3 DEF Places, Up, Sources
  <2>5. Tree(R, T) /\ CallIn(R, T, cur'[s]) /\ \A r \in Sources \ {s} : cur'[r] = cur[r]
    BY <1>1, <2>1, <2>2, <2>4, ArrivalPlaced DEF DbTree
  <2> QED
    BY <1>2, <1>3, <1>5, <1>6, <2>5 DEF OpensContainer
<1>7. CASE OpensNothing(s)
  BY <1>2, <1>3, <1>4, <1>5, <1>7 DEF OpensNothing
<1>8. CASE OpensFile(s)
  <2>1. TaskIn(R, T, <<s, 0>>)
    BY <1>8 DEF OpensFile, TaskIn, PlacedIn, Place, Places
  <2>2. \A r \in Sources : \A t \in todo'[r] : TaskIn(R, T, t)
    BY <1>1, <1>2, <1>8, <2>1 DEF OpensFile
  <2> QED
    BY <1>3, <1>4, <1>5, <1>8, <2>2 DEF OpensFile
<1>9. ASSUME NEW n, NEW pid, Takes(s, n, pid)
      PROVE  /\ TaskIn(db.recs, db.touched, <<n, pid>>)
             /\ \A r \in Sources : \A t \in todo'[r] : TaskIn(R, T, t)
  BY <1>1, <1>2, <1>9 DEF Takes, TasksPlaced
<1>10. CASE Visits(s)
  <2>1. PICK n \in Node, pid \in Int, es \in SUBSET Node :
          /\ Takes(s, n, pid) /\ Arrives(s, n, pid, es)
          /\ IF Kind[n] = "playlist" THEN es = Entries(n) ELSE es = {}
    BY <1>10 DEF Visits
  <2>2. PlacedIn(db.recs, db.touched, n, pid) /\ (pid = 0 => Kind[n] = "file")
    BY <1>9, <2>1 DEF TaskIn
  <2>3. \A e \in es : <<e, "in">> \in Places /\ Up(<<e, "in">>) = Place(n, pid)
    BY <2>1, <2>2, EntryPlaces DEF PlacedIn, IsFolder
  <2>4. Tree(R, T) /\ CallIn(R, T, cur'[s]) /\ \A r \in Sources \ {s} : cur'[r] = cur[r]
    BY <1>1, <2>1, <2>2, <2>3, ArrivalPlaced DEF DbTree
  <2> QED
    BY <1>3, <1>5, <1>9, <2>1, <2>4
<1>11. CASE Misses(s)
  BY <1>3, <1>4, <1>5, <1>9, <1>11 DEF Misses
<1>12. CASE PassesBy(s)
  BY <1>3, <1>4, <1>5, <1>9, <1>12 DEF PassesBy
<1>13. ASSUME Finishes(s) PROVE \A r \in Sources : cur'[r].stage # "none" => CallIn(R, T, cur'[r])
  <2>1. cur'[s].stage = "none" /\ \A r \in Sources \ {s} : cur'[r] = cur[r]
    BY <1>1, <1>13 DEF Finishes, Enter, NoCall
  <2> QED
    BY <1>3, <2>1
<1>14. CASE Marks(s)
  BY <1>2, <1>4, <1>5, <1>13, <1>14 DEF Marks
<1>15. CASE BreaksOff(s)
  BY <1>2, <1>4, <1>5, <1>13, <1>15 DEF BreaksOff
<1>16. CASE ListsNothing(s)
  BY <1>2, <1>4, <1>5, <1>13, <1>16 DEF ListsNothing
<1>17. CASE Lists(s)
  <2> DEFINE c == cur[s]  k == KeyOf(cur[s].node, cur[s].pid)
  <2>1. PICK L \in SUBSET Node :
          /\ todo' = [todo EXCEPT ![s] = @ \cup {<<e, cur[s].id>> : e \in L}]
          /\ IF Kind[c.node] = "playlist" THEN L = c.es ELSE L = Entries(c.node) /\ c.node \in Reachable
    BY <1>17 DEF Lists
  <2>2. IsFolder(c.node) /\ Finishes(s) /\ Quiet /\ c.stage # "none"
    BY <1>17 DEF Lists, Finishes, At
  <2>3. CallIn(R, T, c)
    BY <1>3, <2>2
  <2>4. k \in T /\ R[k] = c.id /\ k = ContainerKey(c.node, c.pid) /\ Place(c.node, c.pid) \in Places
    BY <2>2, <2>3 DEF CallIn, PlacedIn, KeyOf
  <2>5. k[1] = "container" /\ PlaceOf(k) = Place(c.node, c.pid)
    BY <2>4 DEF ContainerKey, PlaceOf
  <2>6. c.id # 0
    <3>1. k \in DOMAIN db.recs /\ db.recs[k] = c.id
      BY <1>1, <2>2, <2>4 DEF Quiet
    <3> QED
      BY <1>1, <3>1 DEF DbIdsOK
  <2>7. \A e \in L : <<e, "in">> \in Places /\ Up(<<e, "in">>) = Place(c.node, c.pid)
    <3>1. CASE Kind[c.node] = "playlist"
      BY <2>1, <2>3, <3>1 DEF CallIn
    <3>2. CASE Kind[c.node] # "playlist"
      <4>1. c.node \in Node
        BY <2>1, <3>2, ReachableStands
      <4> QED
        BY <2>1, <2>2, <2>4, <3>2, <4>1, EntryPlaces
    <3> QED
      BY <3>1, <3>2
  <2>8. ASSUME NEW e \in L PROVE TaskIn(R, T, <<e, c.id>>)
    <3>1. Place(e, c.id) = <<e, "in">>
      BY <2>6 DEF Place
    <3> QED
      BY <2>4, <2>5, <2>6, <2>7, <2>8, <3>1 DEF TaskIn, PlacedIn
  <2>9. \A r \in Sources : \A t \in todo'[r] : TaskIn(R, T, t)
    BY <1>1, <1>2, <2>1, <2>8
  <2> QED
    BY <1>4, <1>5, <1>13, <2>2, <2>9
<1> QED
  BY <1>6, <1>7, <1>8, <1>10, <1>11, <1>12, <1>14, <1>15, <1>16, <1>17 DEF JobMoves

(* What a save leaves in the file is a tree. *)
LEMMA SavedTree ==
  ASSUME Tree(db.recs, db.touched), RecsOK(db.recs), NEW id \in Int
  PROVE  /\ TreeOK(FileOf(PruneUntouched(db)).recs) /\ OnePerPlace(FileOf(PruneUntouched(db)).recs)
         /\ TreeOK(FileBelow(PruneUntouched(db), id).recs)
         /\ OnePerPlace(FileBelow(PruneUntouched(db), id).recs)
<1> DEFINE d == PruneUntouched(db)
<1>1. d.recs = Keeping(db.recs, db.touched) /\ FileOf(d).recs = d.recs
  BY DEF PruneUntouched, FileOf
<1>2. TreeOK(d.recs) /\ OnePerPlace(d.recs)
  BY <1>1, PartKeepsPlaces DEF Tree
<1>3. RecsOK(d.recs)
  BY <1>1 DEF RecsOK, Keeping
<1>4. FileBelow(d, id).recs = Keeping(d.recs, Below(d, id))
  BY DEF FileBelow
<1> HIDE DEF d
<1>5. TreeOK(FileBelow(d, id).recs) /\ OnePerPlace(FileBelow(d, id).recs)
  BY <1>2, <1>3, <1>4, CutKeepsTree, PartKeepsPlaces
<1> QED
  BY <1>1, <1>2, <1>5 DEF d

(* What a call has become after a step that is not one of its job's own. *)
SameCall(s) ==
  /\ cur'[s].node = cur[s].node /\ cur'[s].pid = cur[s].pid
  /\ cur'[s].id = cur[s].id /\ cur'[s].es = cur[s].es

CallGoesOn(s) ==
  \/ cur'[s] = cur[s]
  \/ cur[s].stage = "bump" /\ cur'[s].stage = "published" /\ SameCall(s)
  \/ /\ PublishItem(s) /\ cur[s].stage = "publish"
     /\ cur'[s].stage = "none" \/ (cur'[s].stage \in {"bump", "published"} /\ SameCall(s))

(* Apart from the steps of the jobs no task is added, and a call is ended  *)
(* only when its file is out of reach.                                     *)
LEMMA OthersKeepJobs ==
  ASSUME WholeInv, ~spent, Others, pc # "idle", pc' # "idle"
  PROVE  /\ \A s \in Sources : todo'[s] \subseteq todo[s] /\ CallGoesOn(s)
         /\ unopened' = unopened /\ (todo' = todo \/ (cancelled /\ cancelled' /\ pc' = "jobs"))
<1>1. DOMAIN todo = Sources /\ cur \in [Sources -> Calls]
  BY DEF WholeInv, Inv, TypeOK, JobsOK
<1>2. CASE UNCHANGED jobs
  BY <1>2 DEF jobs, CallGoesOn
<1>3. CASE WorldStep \/ StartJobs \/ JobsDone \/ Sweep \/ Stop \/ UNCHANGED vars
  <2>1. UNCHANGED jobs
    BY <1>3 DEF WorldStep, StartJobs, JobsDone, Sweep, Stop, vars
  <2> QED
    BY <1>2, <2>1
<1>4. CASE Request("start") \/ Request("rescan")
  <2>1. UNCHANGED jobs
    BY <1>4 DEF Request
  <2> QED
    BY <1>2, <2>1
<1>5. ~BeginScan /\ ~EndCancelled /\ ~PruneAndSave /\ ~PruneAndCutShort /\ ~Crash
  BY DEF BeginScan, EndCancelled, PruneAndSave, PruneAndCutShort, EndScan, Crash
<1>6. ASSUME NEW s \in Sources, BumpUpdateId(s)
      PROVE  todo' = todo /\ unopened' = unopened /\ \A r \in Sources : CallGoesOn(r)
  <2>1. /\ todo' = todo /\ unopened' = unopened /\ cur[s].stage = "bump"
        /\ cur'[s] = [cur[s] EXCEPT !.stage = "published"] /\ \A r \in Sources \ {s} : cur'[r] = cur[r]
    BY <1>1, <1>6 DEF BumpUpdateId, Enter, At
  <2>2. cur[s] \in Calls
    BY <1>1
  <2>3. CallGoesOn(s)
    BY <2>1, <2>2 DEF CallGoesOn, SameCall, Calls
  <2> QED
    BY <2>1, <2>3 DEF CallGoesOn
<1>7. ASSUME NEW s \in Sources, Discard(s)
      PROVE  /\ \A r \in Sources : todo'[r] \subseteq todo[r] /\ CallGoesOn(r)
             /\ unopened' = unopened /\ cancelled /\ cancelled' /\ pc' = "jobs"
  <2>1. cur' = cur /\ \A r \in Sources : todo'[r] \subseteq todo[r]
    BY <1>1, <1>7 DEF Discard
  <2> QED
    BY <1>7, <2>1 DEF Discard, CallGoesOn, server
<1>8. ASSUME NEW s \in Sources, PublishItem(s)
      PROVE  todo' = todo /\ unopened' = unopened /\ \A r \in Sources : CallGoesOn(r)
  <2>1. Delivers(s) /\ cur[s] \in Calls
    BY <1>1, <1>8, Delivering
  <2>2. /\ todo' = todo /\ unopened' = unopened /\ cur[s].stage = "publish"
        /\ \A r \in Sources \ {s} : cur'[r] = cur[r]
        /\ cur'[s].stage = "none" \/ \E st \in {"bump", "published"} : cur'[s] = [cur[s] EXCEPT !.stage = st]
    BY <1>1, <2>1 DEF Delivers, Enter, At, NoCall
  <2>3. CallGoesOn(s)
    BY <1>8, <2>1, <2>2 DEF CallGoesOn, SameCall, Calls
  <2> QED
    BY <2>2, <2>3 DEF CallGoesOn
<1> QED
  BY <1>3, <1>4, <1>5, <1>6, <1>7, <1>8 DEF Others

(* The records are a tree at every moment, in memory and in the file. *)
LEMMA TreeNext ==
  ASSUME WholeInv, [Next]_vars
  PROVE  TreeInv'
<1> SUFFICES ASSUME ~spent'
             PROVE  /\ TreeOK(file'.recs) /\ OnePerPlace(file'.recs)
                    /\ pc' # "idle" => (DbTree /\ TasksPlaced /\ CallsPlaced)'
  BY DEF TreeInv
<1>1. /\ ~spent /\ TypeOK /\ IdInv /\ TreeOK(file.recs) /\ OnePerPlace(file.recs)
      /\ RecsOK(file.recs) /\ DbOK(db) /\ FileIdsOK
  BY CatalogMoves DEF WholeInv, Inv, HistInv, TreeInv, TypeOK, IdInv
<1>2. TreeOK(file'.recs) /\ OnePerPlace(file'.recs)
  <2>1. CASE file' = file
    BY <1>1, <2>1
  <2>2. CASE PruneAndSave
    <3>1. Tree(db.recs, db.touched) /\ RecsOK(db.recs) /\ 0 \in Int
      BY <1>1, <2>2, Running DEF PruneAndSave, DbTree, DbOK
    <3> QED
      BY <1>1, <2>2, <3>1, SavedTree DEF PruneAndSave
  <2>3. CASE PruneAndCutShort
    <3>1. Tree(db.recs, db.touched) /\ RecsOK(db.recs)
      BY <1>1, <2>3, Running DEF PruneAndCutShort, DbTree, DbOK
    <3>2. PICK id \in Base .. IdMax : file' = FileBelow(PruneUntouched(db), id)
      BY <2>3 DEF PruneAndCutShort
    <3>3. id \in Int
      BY IdAssumption
    <3> QED
      BY <3>1, <3>2, <3>3, SavedTree
  <2>4. CASE BeginScan
    BY <1>1, <2>4 DEF BeginScan
  <2> QED
    BY <1>1, <2>1, <2>2, <2>3, <2>4, StepOnIds
<1>3. ASSUME pc' # "idle" PROVE (DbTree /\ TasksPlaced /\ CallsPlaced)'
  <2>1. CASE pc = "idle"
    <3>1. BeginScan
      BY <1>1, <1>3, <2>1, ScanPhases DEF Request, Crash
    <3>2. PICK d \in Load(file) : db' = BeginScanPass(d)
      BY <3>1 DEF BeginScan, LoadDatabase
    <3>3. todo' = NoTodo /\ cur' = NoCalls
      BY <3>1 DEF BeginScan, LoadDatabase
    <3>4. Loadable(file) = DOMAIN file.recs
      BY <1>1 DEF FileIdsOK, Loadable
    <3>5. db'.recs = Keeping(file.recs, Loadable(file)) /\ db'.touched = {}
      BY <3>2 DEF Load, BeginScanPass
    <3>6. db'.recs = file.recs
      BY <1>1, <3>4, <3>5 DEF Keeping, RecsOK
    <3>7. Tree(db'.recs, db'.touched)
      BY <1>1, <3>5, <3>6 DEF Tree, TreeOK, Keeping
    <3>8. /\ \A s \in Sources : todo'[s] = {}
          /\ \A s \in Sources : cur'[s].stage = "none"
      BY <3>3 DEF NoTodo, NoCalls, NoCall
    <3> QED
      BY <3>7, <3>8 DEF DbTree, TasksPlaced, CallsPlaced
  <2>2. CASE pc # "idle"
    <3>1. DbTree /\ TasksPlaced /\ CallsPlaced /\ DOMAIN todo = Sources /\ DOMAIN cur = Sources
      BY <1>1, <2>2, Running DEF TypeOK, JobsOK
    <3>2. /\ Holds(db'.recs, db.recs) /\ db.touched \subseteq db'.touched
          /\ (Quiet /\ Others) \/ (Aside /\ \E s \in Sources : JobMoves(s))
      BY <1>3, <2>2, RunningGrows
    <3>3. ASSUME NEW s \in Sources, JobMoves(s), Aside PROVE (DbTree /\ TasksPlaced /\ CallsPlaced)'
      BY <1>1, <2>2, <3>2, <3>3, JobsKeepTree
    <3>4. CASE Quiet /\ Others
      <4>1. \A s \in Sources : todo'[s] \subseteq todo[s] /\ CallGoesOn(s)
        BY <1>1, <1>3, <2>2, <3>4, OthersKeepJobs
      <4>2. DbTree' /\ TasksPlaced'
        BY <3>1, <3>4, <4>1 DEF Quiet, DbTree, TasksPlaced
      <4>3. ASSUME NEW s \in Sources, cur'[s].stage # "none" PROVE CallIn(db.recs, db.touched, cur'[s])
        BY <3>1, <4>1, <4>3 DEF CallsPlaced, CallIn, CallGoesOn, SameCall
      <4> QED
        BY <3>4, <4>2, <4>3 DEF Quiet, CallsPlaced
    <3> QED
      BY <3>2, <3>3, <3>4
  <2> QED
    BY <2>1, <2>2
<1> QED
  BY <1>2, <1>3

-----------------------------------------------------------------------------
(* What a scan has touched it has published.                               *)

(* A job's step starts or ends the job's own call, and no other. *)
LEMMA JobsOwn ==
  ASSUME WholeInv, NEW s \in Sources, JobMoves(s)
  PROVE  /\ cur[s].stage \in {"none", "published"}
         /\ \A r \in Sources \ {s} : cur'[r] = cur[r] /\ todo'[r] = todo[r]
         /\ pc \in {"open", "jobs"}
<1>1. DOMAIN todo = Sources /\ DOMAIN cur = Sources /\ PhaseInv
  BY DEF WholeInv, Inv, HistInv, TypeOK, JobsOK
<1>2. CASE OpensContainer(s) \/ OpensNothing(s) \/ OpensFile(s)
  <2>1. Opens(s) /\ \A r \in Sources \ {s} : cur'[r] = cur[r] /\ todo'[r] = todo[r]
    BY <1>1, <1>2 DEF OpensContainer, OpensNothing, OpensFile, Arrives, Enter
  <2> QED
    BY <1>1, <2>1 DEF PhaseInv, Opens
<1>3. CASE Visits(s) \/ Misses(s) \/ PassesBy(s)
  <2>1. /\ \E n, pid : Takes(s, n, pid)
        /\ \A r \in Sources \ {s} : cur'[r] = cur[r]
    BY <1>1, <1>3 DEF Visits, Misses, PassesBy, Arrives, Enter
  <2> QED
    BY <1>1, <2>1 DEF Takes, At
<1>4. CASE Marks(s) \/ BreaksOff(s) \/ Lists(s) \/ ListsNothing(s)
  BY <1>1, <1>4 DEF Marks, BreaksOff, Lists, ListsNothing, Finishes, Enter, At
<1> QED
  BY <1>2, <1>3, <1>4 DEF JobMoves

(* An item that is current stays so until the next reset. *)
LEMMA CurrentStays ==
  ASSUME WholeInv, ~spent', [Next]_vars, ~(\E who : Request(who)), ~Crash, NEW i, Current(i)
  PROVE  Current(i)'
<1>1. CatalogInv
  BY DEF WholeInv, Inv, CatalogInv, TypeOK
<1>2. CASE UNCHANGED catalog
  BY <1>2 DEF catalog, Current
<1>3. ASSUME NEW n, NEW pid, NEW id, Publishes(n, pid, id) PROVE Current(i)'
  BY <1>1, <1>3, PublishedItem, PublishEffect DEF Publishes
<1>4. CASE Sweep
  BY <1>1, <1>4, SweepEffect DEF Sweep
<1> QED
  BY <1>2, <1>3, <1>4, CatalogMoves

(* A key that this pass has touched, of a node that was there all along, is *)
(* in the catalog or about to be.                                          *)
LEMMA PublishedNext ==
  ASSUME WholeInv, [HNext]_hvars
  PROVE  TouchedPublished'
<1> DEFINE Done(k) == Current(db.recs[k])
           Due(k) == \E s \in Sources : cur[s].stage = "publish" /\ cur[s].node = k[3] /\ cur[s].pid = k[2]
           DoneN(k) == db'.recs[k] \in DOMAIN idx' /\ items'[idx'[db'.recs[k]]].gen = gen'
           DueN(k) == \E s \in Sources : cur'[s].stage = "publish" /\ cur'[s].node = k[3] /\ cur'[s].pid = k[2]
<1> SUFFICES ASSUME clean', ~spent', pc' # "idle", NEW k \in db'.touched, IsItem(k), k[3] \in steady'
             PROVE  DoneN(k) \/ DueN(k)
  BY DEF TouchedPublished, Current
<1>1. ~spent /\ [Next]_vars
  BY RunningHistory
<1>2. CASE BeginScan
  <2>1. db'.touched = {}
    BY <1>2 DEF BeginScan, LoadDatabase, BeginScanPass
  <2> QED
    BY <2>1
<1>3. CASE /\ pc # "idle" /\ steady' = steady \cap Visible' /\ clean /\ gen' = gen
           /\ ~(\E who : Request(who)) /\ ~Crash
  <2>1. /\ Holds(db'.recs, db.recs) /\ db.touched \subseteq db'.touched
        /\ (Quiet /\ Others) \/ (Aside /\ \E s \in Sources : JobMoves(s))
    BY <1>1, <1>3, RunningGrows
  <2>2. /\ DbTree /\ CallsPlaced /\ db.touched \subseteq DOMAIN db.recs /\ TreeOK(db.recs)
    BY <1>1, <1>3, Running DEF DbTree, Tree
  <2>3. ASSUME k \in db.touched PROVE (Done(k) \/ Due(k)) /\ db'.recs[k] = db.recs[k]
    BY <1>1, <1>3, <2>1, <2>2, <2>3 DEF WholeInv, HistInv, TouchedPublished, Holds
  <2>4. \A i : Current(i) => i \in DOMAIN idx' /\ items'[idx'[i]].gen = gen'
    BY <1>1, <1>3, CurrentStays DEF Current
  <2>5. ASSUME k \in db.touched, Done(k) PROVE DoneN(k)
    BY <2>3, <2>4, <2>5
  <2>6. CASE Quiet /\ Others
    <3>1. k \in db.touched /\ \A s \in Sources : CallGoesOn(s)
      BY <1>1, <1>3, <2>6, OthersKeepJobs DEF Quiet
    <3>2. ASSUME NEW s \in Sources, cur[s].stage = "publish", cur[s].node = k[3], cur[s].pid = k[2]
          PROVE  DoneN(k) \/ DueN(k)
      <4>1. CASE cur'[s] = cur[s]
        BY <3>2, <4>1
      <4>2. CASE PublishItem(s)
        <5>1. Delivers(s) /\ KeyOf(cur[s].node, cur[s].pid) \in db.touched
              /\ db.recs[KeyOf(cur[s].node, cur[s].pid)] = cur[s].id
              /\ cur[s].node \in Node /\ cur[s].pid \in Int /\ cur[s].id \in Int
          BY <1>1, <4>2, Delivering
        <5>2. k = KeyOf(k[3], k[2])
          BY <2>2, <3>1 DEF TreeOK
        <5>3. db'.recs[k] = cur[s].id
          BY <2>3, <3>1, <3>2, <5>1, <5>2
        <5>4. k[3] \in Reachable
          BY <1>3 DEF WholeInv, HistInv, WatchInv, Visible
        <5>5. Publish(ItemOf(cur[s].node, cur[s].pid, cur[s].id))
          BY <3>2, <5>1, <5>4 DEF Delivers
        <5>6. CatalogInv
          BY DEF WholeInv, Inv, CatalogInv, TypeOK
        <5>7. PICK j \in Int : j = cur[s].id
          BY <5>1
        <5>8. Current(j)'
          BY <5>1, <5>5, <5>6, <5>7, PublishedItem, PublishEffect
        <5> QED
          BY <5>3, <5>7, <5>8 DEF Current
      <4> QED
        BY <3>1, <3>2, <4>1, <4>2 DEF CallGoesOn
    <3> QED
      BY <2>3, <2>5, <3>1, <3>2
  <2>7. ASSUME NEW s \in Sources, JobMoves(s), Aside PROVE DoneN(k) \/ DueN(k)
    <3>1. /\ cur[s].stage \in {"none", "published"}
          /\ \A r \in Sources \ {s} : cur'[r] = cur[r]
      BY <2>7, JobsOwn
    <3>2. Due(k) => DueN(k)
      BY <3>1
    <3>3. CASE k \in db.touched
      BY <2>3, <2>5, <3>2, <3>3
    <3>4. CASE k \notin db.touched
      <4>1. PICK n, pid, es : /\ n \in Node /\ pid \in Int /\ Arrives(s, n, pid, es)
        <5>0. \A n, pid : ErrorKey(n, pid)[1] = "error"
          BY DEF ErrorKey
        <5>1. ~Quiet /\ ~(\E n, pid : Fails(n, pid))
          BY <3>4, <5>0 DEF Quiet, Fails, GrowsBy, IsItem
        <5> QED
          BY <2>7, <5>1 DEF JobMoves, OpensContainer, OpensNothing, OpensFile, Visits, Misses,
             PassesBy, Marks,
                            BreaksOff, Lists, ListsNothing, Sources
      <4>2. PICK id \in Int, st \in Stages :
              /\ GrowsBy(db, db', KeyOf(n, pid)) /\ db'.recs[KeyOf(n, pid)] = id
              /\ Enter(s, Call(st, n, pid, id, es))
              /\ \/ IsFolder(n) /\ Publish(ItemOf(n, pid, id))
                 \/ ~IsFolder(n) /\ st = "publish"
        BY <4>1 DEF Arrives
      <4>3. k = KeyOf(n, pid)
        BY <3>4, <4>2 DEF GrowsBy
      <4>4. k[3] = n /\ k[2] = pid
        BY <4>3 DEF KeyOf, ContainerKey, MediaKey
      <4>5. CASE Publish(ItemOf(n, pid, id))
        <5>1. CatalogInv
          BY DEF WholeInv, Inv, CatalogInv, TypeOK
        <5>2. Current(id)'
          BY <4>1, <4>2, <4>5, <5>1, PublishedItem, PublishEffect
        <5> QED
          BY <4>2, <4>3, <5>2 DEF Current
      <4>6. CASE st = "publish"
        <5>1. cur'[s] = Call(st, n, pid, id, es)
          BY <4>2 DEF Enter, WholeInv, Inv, TypeOK, JobsOK
        <5> QED
          BY <4>4, <4>6, <5>1 DEF Call
      <4> QED
        BY <4>2, <4>5, <4>6
    <3> QED
      BY <3>3, <3>4
  <2> QED
    BY <2>1, <2>6, <2>7
<1> QED
  BY <1>2, <1>3, RunningHistory

-----------------------------------------------------------------------------
(* A scan does not meet what has vanished before it began.                 *)

Stands(n) == n \in absent' => Anyway(n)

(* Neither the items of this generation nor the jobs name what vanished    *)
(* before the scan began.                                                  *)
LEMMA VanishedNext ==
  ASSUME WholeInv, [HNext]_hvars, WatchInv'
  PROVE  NoneVanished'
<1> DEFINE ItemsStand == \A s \in DOMAIN items' : items'[s].gen = gen' => Stands(items'[s].node)
           TasksStand == \A s \in Sources : \A t \in todo'[s] : Stands(t[1])
           CallStands(s) == cur'[s].stage # "none" => \A c \in cur'[s].es \cup {cur'[s].node} : Stands(c)
<1> SUFFICES ASSUME fresh', clean', ~spent'
             PROVE  ItemsStand /\ TasksStand /\ \A s \in Sources : CallStands(s)
  BY DEF NoneVanished, Stands, Anyway
<1>1. pc' # "idle" /\ absent' \subseteq Absent'
  BY DEF WatchInv
<1>2. ~spent /\ [Next]_vars /\ DOMAIN todo = Sources /\ cur \in [Sources -> Calls]
  BY <1>1, RunningHistory DEF WholeInv, Inv, TypeOK, JobsOK
<1>3. CASE BeginScan /\ gen' = gen /\ (fresh' <=> pending # "no" /\ ~overlap)
  <2>1. todo' = NoTodo /\ cur' = NoCalls /\ items' = items
    BY <1>3 DEF BeginScan, LoadDatabase, catalog
  <2>2. \A s \in DOMAIN items : items[s].gen = gen => items[s].node = Top
    BY <1>2, <1>3 DEF WholeInv, HistInv, RootInv
  <2>3. Top \notin absent'
    BY <1>1, NodeAssumption DEF Absent
  <2> QED
    BY <1>3, <2>1, <2>2, <2>3 DEF Stands, NoTodo, NoCalls, NoCall
<1>4. CASE /\ pc # "idle" /\ absent' = absent \cap Absent' /\ clean /\ fresh /\ gen' = gen
           /\ ~(\E who : Request(who)) /\ ~Crash
  <2>1. /\ \A s \in DOMAIN items : items[s].gen = gen => Stands(items[s].node)
        /\ \A s \in Sources : \A t \in todo[s] : Stands(t[1])
        /\ \A s \in Sources : cur[s].stage # "none" => \A c \in cur[s].es \cup {cur[s].node} : Stands(c)
    BY <1>2, <1>4 DEF WholeInv, HistInv, NoneVanished, Stands
  <2>2. ItemsStand
    <3>1. CASE UNCHANGED catalog
      BY <2>1, <3>1 DEF catalog
    <3>2. ASSUME NEW n, NEW pid, NEW id, Publishes(n, pid, id) PROVE ItemsStand
      <4> DEFINE it == ItemOf(n, pid, id)
      <4>1. CatalogInv
        BY DEF WholeInv, Inv, CatalogInv, TypeOK
      <4>2. it \in Item /\ it.gen = gen /\ it.node = n
        BY <3>2, <4>1, PublishedItem DEF Publishes
      <4>3. \A s \in DOMAIN items' : (s \in DOMAIN items /\ items'[s] = items[s]) \/ items'[s] = it
        BY <3>2, <4>1, <4>2, PublishEffect DEF Publishes
      <4>4. Stands(n)
        BY <3>2, <1>4 DEF Publishes, Stands
      <4> HIDE DEF it
      <4> QED
        BY <1>4, <2>1, <4>2, <4>3, <4>4
    <3>3. CASE Sweep
      <4>1. \A s \in DOMAIN items' : s \in DOMAIN items /\ items'[s] = items[s]
        BY <3>3, SweepEffect DEF Sweep, WholeInv, Inv, CatalogInv, TypeOK
      <4> QED
        BY <1>4, <2>1, <4>1
    <3> QED
      BY <1>2, <1>4, <3>1, <3>2, <3>3, CatalogMoves
  <2>3. (Quiet /\ Others) \/ (Aside /\ \E s \in Sources : JobMoves(s))
    BY <1>1, <1>2, <1>4, RunningGrows
  <2>4. CASE Others
    <3>1. \A s \in Sources : todo'[s] \subseteq todo[s] /\ CallGoesOn(s)
      BY <1>1, <1>2, <1>4, <2>4, OthersKeepJobs
    <3>2. ASSUME NEW s \in Sources PROVE CallStands(s)
      BY <2>1, <3>1 DEF CallGoesOn, SameCall
    <3> QED
      BY <2>1, <2>2, <3>1, <3>2
  <2>5. ASSUME NEW s \in Sources, JobMoves(s), Aside PROVE TasksStand /\ \A r \in Sources : CallStands(r)
    <3>1. ASSUME NEW n \in Reachable PROVE Stands(n) /\ \A c \in Entries(n) : Stands(c)
      <4>1. absent \subseteq Absent
        BY DEF WholeInv, HistInv, WatchInv
      <4> QED
        BY <1>4, <4>1, ReachableStands DEF Stands
    <3>2. \A r \in Sources \ {s} : cur'[r] = cur[r] /\ todo'[r] = todo[r]
      BY <2>5, JobsOwn
    <3>3. SUFFICES (\A t \in todo'[s] : Stands(t[1])) /\ CallStands(s)
      BY <2>1, <3>2
    <3>4. ASSUME NEW n, NEW pid, NEW es, Arrives(s, n, pid, es), \A c \in es \cup {n} : Stands(c)
          PROVE  CallStands(s)
      <4>1. PICK id, st : cur'[s] = Call(st, n, pid, id, es)
        BY <1>2, <3>4 DEF Arrives, Enter
      <4> QED
        BY <3>4, <4>1 DEF Call
    <3>5. ASSUME NEW n, NEW pid, Takes(s, n, pid)
          PROVE  Stands(n) /\ \A t \in todo'[s] : Stands(t[1])
      BY <1>2, <2>1, <3>5 DEF Takes
    <3>6. CASE OpensContainer(s)
      <4>1. PICK es \in SUBSET Node :
              Arrives(s, s, 0, es) /\ IF Kind[s] = "playlist" THEN es = {s} ELSE es = {} /\ s \in Reachable
        BY <3>6 DEF OpensContainer
      <4>2. \A c \in es \cup {s} : Stands(c)
        BY <3>1, <4>1 DEF Stands, Anyway
      <4> QED
        BY <2>1, <3>4, <3>6, <4>1, <4>2 DEF OpensContainer
    <3>7. CASE OpensNothing(s)
      BY <2>1, <3>7 DEF OpensNothing
    <3>8. CASE OpensFile(s)
      BY <1>2, <2>1, <3>1, <3>8 DEF OpensFile
    <3>9. CASE Visits(s)
      <4>1. PICK n \in Node, pid \in Int, es \in SUBSET Node :
              /\ Takes(s, n, pid) /\ Arrives(s, n, pid, es)
              /\ IF Kind[n] = "playlist" THEN es = Entries(n) /\ n \in Reachable ELSE es = {}
        BY <3>9 DEF Visits
      <4>2. \A c \in es \cup {n} : Stands(c)
        BY <3>1, <3>5, <4>1
      <4> QED
        BY <3>4, <3>5, <4>1, <4>2
    <3>10. CASE Misses(s) \/ PassesBy(s)
      BY <2>1, <3>5, <3>10 DEF Misses, PassesBy
    <3>11. CASE Marks(s) \/ BreaksOff(s) \/ ListsNothing(s)
      BY <1>2, <2>1, <3>11 DEF Marks, BreaksOff, ListsNothing, Finishes, Enter, NoCall
    <3>12. CASE Lists(s)
      <4>1. PICK L \in SUBSET Node :
              /\ todo' = [todo EXCEPT ![s] = @ \cup {<<c, cur[s].id>> : c \in L}]
              /\ IF Kind[cur[s].node] = "playlist" THEN L = cur[s].es
                                                   ELSE L = Entries(cur[s].node) /\ cur[s].node \in Reachable
        BY <3>12 DEF Lists
      <4>2. cur[s].stage = "published" /\ cur'[s].stage = "none"
        BY <1>2, <3>12 DEF Lists, Finishes, At, Enter, NoCall
      <4>3. \A c \in L : Stands(c)
        BY <2>1, <3>1, <4>1, <4>2
      <4>4. \A t \in todo'[s] : Stands(t[1])
        BY <1>2, <2>1, <4>1, <4>3
      <4> QED
        BY <4>2, <4>4
    <3> QED
      BY <2>5, <3>6, <3>7, <3>8, <3>9, <3>10, <3>11, <3>12 DEF JobMoves
  <2> QED
    BY <2>2, <2>3, <2>4, <2>5
<1> QED
  BY <1>1, <1>3, <1>4, RunningHistory

-----------------------------------------------------------------------------
(* A scan that is not cancelled has still before it whatever it has not    *)
(* seen.                                                                   *)

(* The place above a place that is not at the top. *)
LEMMA UpFacts ==
  ASSUME NEW v \in Places
  PROVE  /\ v[1] \in Node /\ v[2] \in {"top", "in"} /\ v = <<v[1], v[2]>>
         /\ v[2] = "top" => v[1] \in Sources
         /\ v[2] = "in" =>
              /\ Up(v) \in Places /\ Up(v)[1] \in Node /\ IsFolder(Up(v)[1])
              /\ v[1] \in Sources => Kind[v[1]] = "playlist" /\ Up(v) = <<v[1], "top">>
              /\ v[1] \notin Sources =>
                   /\ Parent[v[1]] \in Node /\ Up(v)[1] = Parent[v[1]]
                   /\ Up(v)[2] = "top" => Kind[Parent[v[1]]] # "playlist"
<1>1. v[1] \in Node /\ v[2] \in {"top", "in"} /\ v = <<v[1], v[2]>> /\ (v[2] = "top" => v[1] \in Sources)
  BY DEF Places, Sources
<1>2. CASE v[1] \in Sources /\ v[2] = "in"
  <2>1. Kind[v[1]] = "playlist" /\ Up(v) = <<v[1], "top">>
    BY <1>2 DEF Places, Up
  <2> QED
    BY <1>1, <1>2, <2>1 DEF Places, IsFolder
<1>3. CASE v[1] \notin Sources /\ v[2] = "in"
  <2> DEFINE p == Parent[v[1]]
  <2>1. p \in Node /\ p # Top /\ Kind[p] \in {"folder", "playlist"}
    BY <1>1, <1>3, NodeAssumption, TreeAssumption DEF Sources
  <2>2. Up(v) = <<p, IF p \in Sources /\ Kind[p] # "playlist" THEN "top" ELSE "in">>
    BY <1>3 DEF Up
  <2>3. Up(v) \in Places
    BY <2>1, <2>2 DEF Places
  <2>4. Up(v)[1] = p /\ (Up(v)[2] = "top" => Kind[p] # "playlist")
    BY <2>2
  <2> QED
    BY <1>1, <1>3, <2>1, <2>3, <2>4 DEF IsFolder
<1> QED
  BY <1>1, <1>2, <1>3

(* Nothing but a reset takes a cancellation back, and only a sweep lets a   *)
(* scan save.                                                              *)
LEMMA CancelStays ==
  ASSUME WholeInv, ~spent', [Next]_vars, ~(\E who : Request(who)), ~Crash, pc # "idle", pc' # "idle"
  PROVE  /\ ~cancelled' => ~cancelled
         /\ pc' = "save" => pc = "save" \/ ~cancelled
<1>1. (Quiet /\ Others) \/ (Aside /\ \E s \in Sources : JobMoves(s))
  BY RunningGrows
<1>2. CASE Aside
  BY <1>2 DEF Aside, server
<1>3. CASE Others
  <2>1. CASE WorldStep \/ StartJobs \/ JobsDone \/ Sweep \/ Stop \/ UNCHANGED vars
    BY <2>1 DEF WorldStep, StartJobs, JobsDone, Sweep, Stop, vars, server
  <2>2. ~BeginScan /\ ~EndCancelled /\ ~PruneAndSave /\ ~PruneAndCutShort
    BY DEF BeginScan, EndCancelled, PruneAndSave, PruneAndCutShort, EndScan
  <2>3. ASSUME NEW s \in Sources, BumpUpdateId(s) \/ Discard(s) \/ PublishItem(s)
        PROVE  cancelled' = cancelled /\ pc' = pc
    BY <2>3 DEF BumpUpdateId, Discard, PublishItem, server
  <2> QED
    BY <1>3, <2>1, <2>2, <2>3 DEF Others
<1> QED
  BY <1>1, <1>2, <1>3

(* What a step of a job leaves of what is before the scan. *)
LEMMA JobsCover ==
  ASSUME WholeInv, ~spent, pc # "idle", NEW s \in Sources, JobMoves(s), Aside, ~cancelled,
         db.touched \subseteq db'.touched,
         NEW v \in Places, v[1] \in steady, Covered(v)
  PROVE  Covered(v)'
<1>1. /\ DbTree /\ TasksPlaced /\ CallsPlaced /\ DbIdsOK(db) /\ 0 < Base /\ Base \in Int
      /\ DOMAIN todo = Sources /\ cur \in [Sources -> Calls] /\ PhaseInv
  BY Running, IdAssumption DEF WholeInv, Inv, TypeOK, JobsOK, HistInv
<1>2. /\ cur[s].stage \in {"none", "published"}
      /\ \A r \in Sources \ {s} : cur'[r] = cur[r] /\ todo'[r] = todo[r]
  BY JobsOwn
<1>3. \A u : Seen(u) => Seen(u)'
  BY DEF Seen
<1>4. /\ v[1] \in Visible /\ v[1] \in Reachable /\ v[1] \notin gone
      /\ v[2] = "in" => Up(v)[1] \in Reachable
  <2>1. steady \subseteq Visible /\ \A n \in steady : Parent[n] # Top => Parent[n] \in steady
    BY DEF WholeInv, HistInv, WatchInv
  <2>2. v[1] \in Shown(gone \cup down)
    BY <2>1, WorldSets
  <2>3. v[1] \notin gone \cup down
    BY <2>2, ShownCloses
  <2>4. v[2] = "in" => Up(v)[1] \in steady
    BY <2>1, UpFacts, NodeAssumption
  <2> QED
    BY <2>1, <2>2, <2>3, <2>4 DEF Visible
<1>5. ASSUME NEW n, NEW pid, NEW es, Arrives(s, n, pid, es)
      PROVE  Seen(Place(n, pid))'
  <2>1. KeyOf(n, pid) \in db'.touched
    BY <1>5 DEF Arrives, GrowsBy
  <2>2. IsItem(KeyOf(n, pid)) /\ PlaceOf(KeyOf(n, pid)) = Place(n, pid)
    BY DEF KeyOf, ContainerKey, MediaKey, IsItem, PlaceOf
  <2> QED
    BY <2>1, <2>2 DEF Seen
<1>6. ASSUME NEW t \in todo[s], t \notin todo'[s]
      PROVE  /\ <<t[1], t[2]>> = t /\ TaskIn(db.recs, db.touched, t)
             /\ Seen(Place(t[1], t[2]))' \/ (Kind[t[1]] = "playlist" /\ t[1] \notin Visible)
  <2>0. t = <<t[1], t[2]>> /\ TaskIn(db.recs, db.touched, t)
    BY <1>1 DEF TasksPlaced, WholeInv, Inv, TypeOK, JobsOK
  <2>1. PICK n, pid : Takes(s, n, pid)
    <3>1. ~OpensContainer(s) /\ ~OpensNothing(s) /\ ~Marks(s) /\ ~BreaksOff(s) /\ ~ListsNothing(s)
      BY <1>6 DEF OpensContainer, OpensNothing, Marks, BreaksOff, ListsNothing
    <3>2. ~OpensFile(s)
      BY <1>1, <1>6 DEF OpensFile, Opens, PhaseInv
    <3>3. ~Lists(s)
      BY <1>1, <1>6 DEF Lists
    <3> QED
      BY <3>1, <3>2, <3>3 DEF JobMoves, Visits, Misses, PassesBy
  <2>2. \A m, q : Takes(s, m, q) => t = <<m, q>>
    BY <1>1, <1>6 DEF Takes
  <2>3. pc = "jobs"
    BY <2>1 DEF Takes
  <2>4. CASE Visits(s)
    BY <1>5, <2>0, <2>2, <2>4 DEF Visits
  <2>5. CASE Misses(s)
    BY <2>0, <2>2, <2>5 DEF Misses, Visible, Fails
  <2>6. CASE PassesBy(s)
    <3>1. Kind[t[1]] = "playlist" /\ Entries(t[1]) = {}
      BY <2>2, <2>6 DEF PassesBy
    <3>2. \A c \in Reachable : c \in Node /\ c \notin gone
      BY PathSteps DEF Reachable
    <3>3. t[1] \notin Visible
      BY <3>1, <3>2 DEF Visible, Entries
    <3> QED
      BY <2>0, <3>1, <3>3
  <2>7. ~Finishes(s)
    BY <2>1 DEF Takes, Finishes, At
  <2>8. ~Opens(s)
    BY <2>3 DEF Opens
  <2> QED
    BY <2>4, <2>5, <2>6, <2>7, <2>8
    DEF JobMoves, OpensContainer, OpensNothing, OpensFile, Marks, BreaksOff, Lists, ListsNothing
<1>7. CASE Seen(v)
  BY <1>3, <1>7 DEF Covered
<1>8. CASE v[2] = "top" /\ v[1] \in unopened
  <2>1. CASE v[1] \in unopened'
    BY <1>8, <2>1 DEF Covered
  <2>2. CASE v[1] \notin unopened'
    <3>1. Opens(s) /\ v[1] = s
      BY <1>8, <2>2 DEF JobMoves, OpensContainer, OpensNothing, OpensFile, Visits, Misses,
         PassesBy, Marks,
                        BreaksOff, Lists, ListsNothing, Opens, Takes, Finishes
    <3>2. ~Finishes(s) /\ ~(\E n, pid : Takes(s, n, pid))
      BY <3>1 DEF Opens, Finishes, Takes
    <3>3. ~OpensNothing(s)
      BY <1>4, <3>1 DEF OpensNothing, Fails
    <3>4. CASE OpensContainer(s)
      <4>1. Seen(Place(s, 0))'
        BY <1>5, <3>4 DEF OpensContainer
      <4>2. Place(s, 0) = v
        BY <1>8, <3>1, UpFacts DEF Place
      <4> QED
        BY <4>1, <4>2 DEF Covered
    <3>5. CASE OpensFile(s)
      BY <1>1, <1>8, <3>1, <3>5 DEF OpensFile, Covered
    <3> QED
      BY <3>2, <3>3, <3>4, <3>5 DEF JobMoves, Visits, Misses, PassesBy, Marks, BreaksOff,
         Lists, ListsNothing
  <2> QED
    BY <2>1, <2>2
<1>9. ASSUME NEW r \in Sources, NEW t \in todo[r], Place(t[1], t[2]) = v
      PROVE  Seen(v)' \/ t \in todo'[r]
  <2>1. CASE t \in todo'[r]
    BY <2>1
  <2>2. CASE t \notin todo'[r]
    <3>1. r = s
      BY <1>2, <2>2
    <3>2. v[1] = t[1]
      BY <1>9 DEF Place
    <3> QED
      BY <1>4, <1>6, <1>9, <2>2, <3>1, <3>2
  <2> QED
    BY <2>1, <2>2
<1>10. CASE v[2] = "top" /\ \E r \in Sources : <<v[1], 0>> \in todo[r]
  <2>1. PICK r \in Sources : <<v[1], 0>> \in todo[r]
    BY <1>10
  <2>2. Place(v[1], 0) = v
    BY <1>10, UpFacts DEF Place
  <2> QED
    BY <1>9, <1>10, <2>1, <2>2 DEF Covered
<1>11. CASE v[2] = "in" /\ \E r \in Sources : \E t \in todo[r] : t[1] = v[1] /\ t[2] # 0
  <2>0. PICK r \in Sources : \E t \in todo[r] : t[1] = v[1] /\ t[2] # 0
    BY <1>11
  <2>1. PICK t \in todo[r] : t[1] = v[1] /\ t[2] # 0
    BY <2>0
  <2>2. Place(t[1], t[2]) = v
    BY <1>11, <2>1, UpFacts DEF Place
  <2>3. Seen(v)' \/ t \in todo'[r]
    BY <1>9, <2>2
  <2> QED
    BY <1>11, <2>1, <2>3 DEF Covered
<1>12. CASE v[2] = "in" /\ ~Seen(Up(v)) /\ Seen(Up(v))'
  <2>1. PICK k \in db'.touched : k \notin db.touched /\ IsItem(k) /\ PlaceOf(k) = Up(v)
    BY <1>12 DEF Seen
  <2>2. ~Quiet /\ ~(\E n, pid : Fails(n, pid))
    <3>1. \A n, pid : ErrorKey(n, pid)[1] = "error"
      BY DEF ErrorKey
    <3> QED
      BY <2>1, <3>1 DEF Quiet, Fails, GrowsBy, IsItem
  <2>3. ASSUME NEW n, NEW pid, NEW es, Arrives(s, n, pid, es), v[1] \in es \/ Kind[n] # "playlist"
        PROVE  Listing(v)'
    <3>1. PICK id, st :
            /\ GrowsBy(db, db', KeyOf(n, pid)) /\ Enter(s, Call(st, n, pid, id, es))
            /\ IF IsFolder(n) THEN st \in {"bump", "published"} ELSE st = "publish"
      BY <2>3 DEF Arrives
    <3>2. k = KeyOf(n, pid)
      BY <2>1, <3>1 DEF GrowsBy
    <3>3. PlaceOf(k) = Place(n, pid)
      BY <3>2 DEF KeyOf, ContainerKey, MediaKey, PlaceOf
    <3>4. Up(v) = Place(n, pid) /\ Up(v)[1] = n
      BY <2>1, <3>3 DEF Place
    <3>5. IsFolder(n)
      BY <1>12, <3>4, UpFacts
    <3>6. cur'[s] = Call(st, n, pid, id, es)
      BY <1>1, <3>1 DEF Enter
    <3>7. cur'[s].stage = st /\ cur'[s].node = n /\ cur'[s].pid = pid /\ cur'[s].es = es
      BY <3>6 DEF Call
    <3> QED
      BY <2>3, <3>1, <3>4, <3>5, <3>7 DEF Listing
  <2>4. ASSUME NEW n, NEW pid, NEW es, Arrives(s, n, pid, es) PROVE Up(v) = Place(n, pid)
    <3>1. k = KeyOf(n, pid)
      BY <2>1, <2>4 DEF Arrives, GrowsBy
    <3> QED
      BY <2>1, <3>1 DEF KeyOf, ContainerKey, MediaKey, PlaceOf
  <2>5. CASE OpensContainer(s)
    <3>1. PICK es : Arrives(s, s, 0, es) /\ (Kind[s] = "playlist" => es = {s})
      BY <2>5 DEF OpensContainer
    <3>2. Up(v) = <<s, "top">>
      BY <2>4, <3>1 DEF Place
    <3>3. Kind[s] = "playlist" => v[1] = s
      BY <1>12, <3>2, UpFacts
    <3>4. Listing(v)'
      BY <2>3, <3>1, <3>3
    <3> QED
      BY <1>12, <3>4 DEF Covered
  <2>6. CASE Visits(s)
    <3>1. PICK n \in Node, pid \in Int, es \in SUBSET Node :
            Takes(s, n, pid) /\ Arrives(s, n, pid, es) /\ (Kind[n] = "playlist" => es = Entries(n))
      BY <2>6 DEF Visits
    <3>2. Up(v) = Place(n, pid)
      BY <2>4, <3>1
    <3>3. ASSUME Kind[n] = "playlist" PROVE v[1] \in Entries(n)
      <4>1. <<n, pid>> \in todo[s]
        BY <3>1 DEF Takes
      <4>2. pid # 0
        BY <1>1, <3>3, <4>1 DEF TasksPlaced, TaskIn
      <4>3. Up(v) = <<n, "in">>
        BY <3>2, <4>2 DEF Place
      <4>4. Parent[v[1]] = n /\ v[1] \in Node
        BY <1>12, <4>3, UpFacts
      <4> QED
        BY <1>4, <4>4 DEF Entries
    <3>4. Listing(v)'
      BY <2>3, <3>1, <3>3
    <3> QED
      BY <1>12, <3>4 DEF Covered
  <2> QED
    BY <2>2, <2>5, <2>6 DEF JobMoves, OpensNothing, OpensFile, Misses, PassesBy, Marks,
       BreaksOff, Lists, ListsNothing
<1>13. CASE v[2] = "in" /\ ~Seen(Up(v))'
  BY <1>13 DEF Covered
<1>14. CASE v[2] = "in" /\ Listing(v)
  <2>1. PICK r \in Sources : /\ cur[r].stage \in {"bump", "published"}
                             /\ Place(cur[r].node, cur[r].pid) = Up(v)
                             /\ Kind[cur[r].node] = "playlist" => v[1] \in cur[r].es
    BY <1>14 DEF Listing
  <2>2. CASE cur'[r] = cur[r]
    <3>1. Listing(v)'
      BY <2>1, <2>2 DEF Listing
    <3> QED
      BY <1>14, <3>1 DEF Covered
  <2>3. CASE cur'[r] # cur[r]
    <3>1. r = s /\ cur[s].stage = "published"
      BY <1>2, <2>1, <2>3
    <3>2. ~Opens(s) /\ ~(\E n, pid : Takes(s, n, pid))
      BY <1>1, <3>1 DEF Opens, Takes, At, PhaseInv
    <3> DEFINE n == cur[s].node
    <3>3. Up(v)[1] = n /\ IsFolder(n) /\ n \in Reachable
      BY <1>4, <1>14, <2>1, <3>1, UpFacts DEF Place
    <3>4. ~Marks(s) /\ ~BreaksOff(s) /\ ~ListsNothing(s)
      BY <3>3 DEF Marks, BreaksOff, ListsNothing, Fails
    <3>5. CASE Lists(s)
      <4>1. PICK L \in SUBSET Node :
              /\ todo' = [todo EXCEPT ![s] = @ \cup {<<c, cur[s].id>> : c \in L}]
              /\ IF Kind[n] = "playlist" THEN L = cur[s].es ELSE L = Entries(n)
        BY <3>5 DEF Lists
      <4>2. v[1] \in L
        <5>1. CASE Kind[n] = "playlist"
          BY <2>1, <3>1, <4>1, <5>1
        <5>2. CASE Kind[n] # "playlist"
          <6>1. Parent[v[1]] = n /\ v[1] \in Node
            BY <1>14, <3>3, <5>2, UpFacts
          <6> QED
            BY <1>4, <4>1, <5>2, <6>1 DEF Entries
        <5> QED
          BY <5>1, <5>2
      <4>3. cur[s].id # 0
        <5>1. /\ KeyOf(n, cur[s].pid) \in DOMAIN db.recs
              /\ db.recs[KeyOf(n, cur[s].pid)] = cur[s].id
          BY <1>1, <3>1 DEF CallsPlaced, CallIn, DbTree, Tree
        <5> QED
          BY <1>1, <5>1 DEF DbIdsOK
      <4>4. <<v[1], cur[s].id>> \in todo'[s]
        BY <1>1, <4>1, <4>2
      <4>5. <<v[1], cur[s].id>>[1] = v[1] /\ <<v[1], cur[s].id>>[2] # 0
        BY <4>3
      <4> HIDE DEF n
      <4> QED
        BY <1>14, <4>4, <4>5 DEF Covered
    <3> QED
      BY <3>2, <3>4, <3>5 DEF JobMoves, OpensContainer, OpensNothing, OpensFile, Visits,
         Misses, PassesBy
  <2> QED
    BY <2>2, <2>3
<1> QED
  BY <1>7, <1>8, <1>10, <1>11, <1>12, <1>13, <1>14 DEF Covered

(* A step of a scan leaves each steady place covered. *)
LEMMA CoverageNext ==
  ASSUME WholeInv, [HNext]_hvars, WatchInv'
  PROVE  Coverage'
<1> SUFFICES ASSUME clean', ~spent', pc' = "save" \/ (pc' # "idle" /\ ~cancelled'),
                    NEW v \in Places, v[1] \in steady'
             PROVE  Covered(v)'
  BY DEF Coverage
<1>1. /\ ~spent /\ [Next]_vars /\ pc' # "idle"
      /\ \/ BeginScan
         \/ /\ pc # "idle" /\ steady' = steady \cap Visible' /\ clean
            /\ ~(\E who : Request(who)) /\ ~Crash
  BY RunningHistory
<1>2. CASE BeginScan
  <2>1. db'.touched = {} /\ unopened' = Sources
    BY <1>2 DEF BeginScan, LoadDatabase, BeginScanPass
  <2>2. \A u : ~Seen(u)'
    BY <2>1 DEF Seen
  <2> QED
    BY <2>1, <2>2, UpFacts DEF Covered
<1>3. CASE pc # "idle" /\ steady' = steady \cap Visible' /\ clean /\ ~(\E who : Request(who)) /\ ~Crash
  <2>1. pc = "save" \/ ~cancelled
    BY <1>1, <1>3, CancelStays
  <2>2. v[1] \in steady /\ Covered(v)
    BY <1>1, <1>3, <2>1 DEF WholeInv, HistInv, Coverage
  <2>3. /\ db.touched \subseteq db'.touched
        /\ (Quiet /\ Others) \/ (Aside /\ \E s \in Sources : JobMoves(s))
    BY <1>1, <1>3, RunningGrows
  <2>4. ASSUME Quiet, Others PROVE Covered(v)'
    <3>1. /\ \A s \in Sources : CallGoesOn(s)
          /\ unopened' = unopened /\ (todo' = todo \/ (cancelled' /\ pc' = "jobs"))
      BY <1>1, <1>3, <2>4, OthersKeepJobs
    <3>2. todo' = todo
      BY <3>1
    <3>3. \A u : Seen(u)' <=> Seen(u)
      BY <2>4 DEF Quiet, Seen
    <3>4. Listing(v) => Listing(v)'
      BY <3>1 DEF Listing, CallGoesOn, SameCall
    <3> QED
      BY <2>2, <3>1, <3>2, <3>3, <3>4 DEF Covered
  <2>5. ASSUME NEW s \in Sources, JobMoves(s), Aside PROVE Covered(v)'
    <3>1. pc' = pc /\ pc \in {"open", "jobs"} /\ (cancelled' <=> cancelled)
      BY <2>5 DEF Aside, server, JobMoves, OpensContainer, OpensNothing, OpensFile, Visits,
         Misses, PassesBy,
                  Marks, BreaksOff, Lists, ListsNothing, Opens, Takes, Finishes
    <3>2. ~cancelled
      BY <3>1
    <3> QED
      BY <1>1, <1>3, <2>2, <2>3, <2>5, <3>2, JobsCover
  <2> QED
    BY <2>3, <2>4, <2>5
<1> QED
  BY <1>1, <1>2, <1>3

(* A scan that has come to its sweep without a cancellation and without a  *)
(* reset has seen every place of every node that was there all along.      *)
LEMMA AllSeen ==
  ASSUME WholeInv, clean, ~spent, pc = "save" \/ (pc = "check" /\ ~cancelled),
         NEW v \in Places, v[1] \in steady
  PROVE  Seen(v)
<1>1. /\ unopened = {} /\ \A s \in Sources : todo[s] = {} /\ cur[s].stage = "none"
      /\ \A u \in Places : u[1] \in steady => Covered(u)
      /\ \A n \in steady : Parent[n] # Top => Parent[n] \in steady
  BY DEF WholeInv, HistInv, PhaseInv, Coverage, WatchInv
<1>2. ASSUME NEW u \in Places, u[1] \in steady, ~Seen(u) PROVE u[2] = "in" /\ ~Seen(Up(u))
  <2>1. Covered(u) /\ u[2] \in {"top", "in"}
    BY <1>1, <1>2, UpFacts
  <2>2. ~Listing(u)
    BY <1>1 DEF Listing
  <2> QED
    BY <1>1, <1>2, <2>1, <2>2 DEF Covered
<1>3. ASSUME NEW u \in Places, u[1] \in steady, u[1] \in Sources PROVE Seen(u)
  <2>1. u[2] = "in" => Up(u) \in Places /\ Up(u) = <<u[1], "top">>
    BY <1>3, UpFacts
  <2> QED
    BY <1>2, <1>3, <2>1
<1> DEFINE Missed == {n \in Node : n \in steady /\ \E u \in Places : u[1] = n /\ ~Seen(u)}
<1>4. Missed = {}
  <2> SUFFICES ASSUME Missed # {} PROVE FALSE
    OBVIOUS
  <2>1. PICK n \in Missed : Parent[n] \notin Missed
    BY TreeAssumption
  <2>2. PICK u \in Places : u[1] = n /\ ~Seen(u)
    BY <2>1
  <2>3. n \in steady /\ n \in Node /\ n \notin Sources /\ u[2] = "in" /\ ~Seen(Up(u))
    BY <1>2, <1>3, <2>1, <2>2
  <2>4. Up(u) \in Places /\ Up(u)[1] = Parent[n] /\ Parent[n] \in Node
    BY <2>2, <2>3, UpFacts
  <2>5. Parent[n] \in steady
    BY <1>1, <2>3, <2>4, NodeAssumption
  <2> QED
    BY <2>1, <2>3, <2>4, <2>5
<1> QED
  BY <1>4, UpFacts

-----------------------------------------------------------------------------
(* What a client holds resolves.                                           *)

(* Such a scan has touched every key of such a node, and published it. *)
LEMMA SteadyIsCurrent ==
  ASSUME WholeInv, clean, ~spent, pc = "save" \/ (pc = "check" /\ ~cancelled),
         NEW k \in DOMAIN db.recs, IsItem(k), k[3] \in steady
  PROVE  k \in db.touched /\ Current(db.recs[k]) /\ PlaceOf(k) \in Places
<1>1. TreeOK(db.recs) /\ OnePerPlace(db.recs) /\ db.touched \subseteq DOMAIN db.recs
  BY Running DEF DbTree, Tree
<1>2. PlaceOf(k) \in Places /\ PlaceOf(k)[1] = k[3]
  BY <1>1 DEF TreeOK, PlaceOf, Place
<1>3. PICK l \in db.touched : IsItem(l) /\ PlaceOf(l) = PlaceOf(k)
  BY <1>2, AllSeen DEF Seen
<1>4. l = k
  BY <1>1, <1>3 DEF OnePerPlace
<1>5. \A s \in Sources : cur[s].stage = "none"
  BY DEF WholeInv, HistInv, PhaseInv
<1> QED
  BY <1>2, <1>3, <1>4, <1>5 DEF WholeInv, HistInv, TouchedPublished

(* Only a sweep lets a scan save, and only a scan that saves writes. *)
LEMMA SaveFollowsSweep ==
  ASSUME WholeInv, ~spent', [Next]_vars
  PROVE  /\ pc' = "save" => pc = "save" \/ Sweep
         /\ file' # file => pc = "save" /\ pc' = "idle"
<1>1. Others \/ (Aside /\ \E s \in Sources : JobMoves(s))
  BY Moves DEF WholeInv, Inv
<1>2. CASE Aside
  BY <1>2 DEF Aside
<1>3. CASE Others
  <2>1. CASE WorldStep \/ BeginScan \/ StartJobs \/ JobsDone \/ EndCancelled \/ Stop \/ Crash \/ UNCHANGED vars
    BY <2>1 DEF WorldStep, BeginScan, LoadDatabase, StartJobs, JobsDone, EndCancelled, Stop,
       Crash, vars
  <2>2. CASE Sweep
    BY <2>2 DEF Sweep
  <2>3. CASE PruneAndSave \/ PruneAndCutShort
    BY <2>3 DEF PruneAndSave, PruneAndCutShort, EndScan
  <2>4. CASE Request("start") \/ Request("rescan")
    BY <2>4 DEF Request
  <2>5. CASE \E s \in Sources : BumpUpdateId(s) \/ Discard(s) \/ PublishItem(s)
    BY <2>5 DEF BumpUpdateId, Discard, PublishItem
  <2> QED
    BY <1>3, <2>1, <2>2, <2>3, <2>4, <2>5 DEF Others
<1> QED
  BY <1>1, <1>2, <1>3

HeldOK(h) ==
  /\ h[1] \in Node /\ (pc # "idle" => h[1] \in steady)
  /\ Resolves(h[1], h[2])
  /\ Current(h[2]) \/ (pc # "save" /\ Saved(items[idx[h[2]]]))

(* A reset that comes between two scans lets clients hold what is saved. *)
LEMMA HeldFromReset ==
  ASSUME WholeInv, ~spent, HistoryStep, NEW who, Request(who), gen' = gen + 1, pc' = pc, ~overlap',
         NEW h \in held'
  PROVE  HeldOK(h)'
<1>1. CatalogInv /\ gen \in Nat /\ RootIds
  BY DEF WholeInv, Inv, HistInv, RootInv, CatalogInv, TypeOK, CatalogOK
<1>2. pc = "idle" /\ held' = {g \in Holdable : g[1] \in Visible'}
  BY <1>1, HistoryResets
<1>3. PICK i \in DOMAIN idx : /\ h = <<items[idx[i]].node, i>> /\ items[idx[i]].node \in Visible
                              /\ Saved(items[idx[i]])
  BY <1>2 DEF Holdable
<1>4. items[idx[i]].node \in Node /\ items[idx[i]].node # Top
  BY <1>3, NodeAssumption DEF Visible, Reachable
<1>5. i \in DOMAIN idx' /\ items'[idx'[i]] = items[idx[i]] /\ file' = file
  BY <1>1, <1>4, ResetEffect DEF Request
<1>6. Saved(items[idx[i]])'
  BY <1>3, <1>5 DEF Saved, RecordKey
<1>7. h[1] = items[idx[i]].node /\ h[2] = i
  BY <1>3
<1>8. Resolves(h[1], h[2])' /\ Saved(items[idx[h[2]]])'
  BY <1>5, <1>6, <1>7 DEF Resolves
<1> QED
  BY <1>2, <1>4, <1>7, <1>8 DEF HeldOK

(* Publishing an item leads an id from one copy of its node's item to      *)
(* another.                                                                *)
LEMMA HeldByPublish ==
  ASSUME WholeInv, ~spent, ~spent', [Next]_vars, NEW n, NEW pid, NEW id, Publishes(n, pid, id),
         NEW h, HeldOK(h), pc' # "idle" => h[1] \in steady'
  PROVE  HeldOK(h)'
<1> DEFINE it == ItemOf(n, pid, id)
<1>1. CatalogInv /\ IdInv' /\ n \in Node /\ pid \in Int /\ id \in Int
  BY IdInvNext DEF WholeInv, Inv, CatalogInv, TypeOK, Publishes
<1>2. it \in Item /\ it.gen = gen /\ it.id = id /\ it.node = n
  BY <1>1, PublishedItem
<1>3. file' = file /\ pc' = pc /\ pc \in {"open", "jobs"}
  BY DEF Publishes, Aside
<1>4. Publish(it)
  BY DEF Publishes
<1>5. /\ Current(id)' /\ gen' = gen
      /\ \A i : Current(i) => Current(i)'
      /\ h[2] \in DOMAIN idx'
      /\ items'[idx'[h[2]]] = items[idx[h[2]]] \/ (h[2] = id /\ ~Current(h[2]) /\ items'[idx'[h[2]]] = it)
  BY <1>1, <1>2, <1>4, PublishEffect DEF HeldOK, Resolves
<1>6. CASE items'[idx'[h[2]]] = items[idx[h[2]]]
  <2>1. Current(h[2]) => Current(h[2])'
    BY <1>5
  <2>2. Saved(items[idx[h[2]]]) => Saved(items[idx[h[2]]])'
    BY <1>3, <1>6 DEF Saved, RecordKey
  <2> QED
    BY <1>3, <1>5, <1>6, <2>1, <2>2 DEF HeldOK, Resolves, Saved, RecordKey
<1>7. CASE h[2] = id /\ ~Current(h[2]) /\ items'[idx'[h[2]]] = it
  <2> DEFINE old == items[idx[h[2]]]
  <2>1. /\ RecordKey(old) \in DOMAIN file.recs /\ file.recs[RecordKey(old)] = id
        /\ old.node = h[1]
    BY <1>1, <1>7 DEF HeldOK, Saved, Resolves, CatalogInv, IndexAgrees
  <2>2. Holds(db'.recs, file'.recs) /\ Injective(db'.recs)
    BY <1>1, <1>3 DEF IdInv, DbIdsOK
  <2>3. KeyOf(n, pid) \in DOMAIN db'.recs /\ db'.recs[KeyOf(n, pid)] = id
    BY DEF Publishes
  <2>4. RecordKey(old) = KeyOf(n, pid)
    BY <1>3, <2>1, <2>2, <2>3 DEF Holds, Injective
  <2>5. h[1] = n
    BY <2>1, <2>4 DEF RecordKey, KeyOf, ContainerKey, MediaKey
  <2>6. Current(h[2])'
    BY <1>5, <1>7 DEF Current
  <2> HIDE DEF it
  <2> QED
    BY <1>2, <1>5, <1>7, <2>5, <2>6 DEF HeldOK, Resolves
<1> QED
  BY <1>5, <1>6, <1>7

(* A sweep drops nothing that a client holds. *)
LEMMA HeldBySweep ==
  ASSUME WholeInv, ~spent, ~overlap, Sweep, NEW h, HeldOK(h), pc' # "idle" => h[1] \in steady'
  PROVE  HeldOK(h)'
<1>1. pc = "check" /\ pc' = "save" /\ ~cancelled /\ SweepStaleEntries /\ CatalogInv
  BY DEF Sweep, WholeInv, Inv, CatalogInv, TypeOK
<1>2. clean /\ h[1] \in steady /\ Holds(db.recs, file.recs)
  BY <1>1, Running DEF WholeInv, HistInv, WatchInv, HeldOK
<1>3. Current(h[2])
  <2> SUFFICES ASSUME ~Current(h[2]) PROVE FALSE
    OBVIOUS
  <2> DEFINE it == items[idx[h[2]]]
             k == RecordKey(it)
  <2>1. k \in DOMAIN file.recs /\ file.recs[k] = h[2] /\ it.node = h[1]
    BY <1>1 DEF HeldOK, Saved, Resolves, CatalogInv, IndexAgrees
  <2>2. k \in DOMAIN db.recs /\ db.recs[k] = h[2]
    BY <1>2, <2>1 DEF Holds
  <2>3. IsItem(k) /\ k[3] = h[1]
    BY <2>1 DEF RecordKey, ContainerKey, MediaKey, IsItem
  <2> HIDE DEF k
  <2> QED
    BY <1>1, <1>2, <2>2, <2>3, SteadyIsCurrent
<1>4. Current(h[2])' /\ items'[idx'[h[2]]] = items[idx[h[2]]]
  BY <1>1, <1>3, SweepEffect
<1> QED
  BY <1>1, <1>4 DEF HeldOK, Resolves, Current

(* Every other step leaves what a client holds where it is. *)
LEMMA HeldNext ==
  ASSUME WholeInv, [HNext]_hvars
  PROVE  HeldInv'
<1> SUFFICES ASSUME ~overlap', ~spent', NEW h \in held'
             PROVE  HeldOK(h)'
  BY DEF HeldInv, HeldOK
<1>1. [Next]_vars /\ TypeOK /\ gen \in Nat
  BY DEF HNext, hvars, WholeInv, Inv, TypeOK, CatalogOK
<1>2. ~spent
  BY <1>1, CatalogMoves
<1>3. CASE UNCHANGED hvars
  <2>1. HeldOK(h)
    BY <1>2, <1>3 DEF WholeInv, HistInv, HeldInv, HeldOK, hvars, hist
  <2> QED
    BY <1>3, <2>1 DEF HeldOK, hvars, vars, hist, catalog, Resolves, Current, Saved, RecordKey
<1>4. CASE HNext
  <2>1. HistoryStep
    BY <1>4 DEF HNext
  <2>2. CASE (\E who : Request(who)) /\ gen' = gen + 1 /\ pc' = pc
    BY <1>2, <2>1, <2>2, HeldFromReset
  <2>3. CASE Crash /\ gen' = 0 /\ gen > 0
    BY <1>1, <2>1, <2>3, HistoryDies DEF Crash
  <2>4. CASE gen' = gen /\ (BeginScan \/ (pc = "idle" => pc' = "idle"))
    <3>1. /\ ~overlap /\ h \in held /\ h[1] \in Visible'
          /\ pc # "idle" /\ pc' # "idle" => steady' = steady \cap Visible'
          /\ Begins => steady' = Visible'
      BY <1>1, <2>1, <2>4, HistoryGoesOn
    <3>2. HeldOK(h)
      BY <1>2, <3>1 DEF WholeInv, HistInv, HeldInv, HeldOK
    <3>3. pc' # "idle" => h[1] \in steady'
      <4>1. BeginScan => Begins
        BY DEF BeginScan, LoadDatabase, Begins
      <4> QED
        BY <2>4, <3>1, <3>2, <4>1 DEF HeldOK
    <3>4. /\ pc' = "save" => pc = "save" \/ Sweep
          /\ file' # file => pc = "save" /\ pc' = "idle"
      BY <1>1, SaveFollowsSweep
    <3>5. CASE UNCHANGED catalog /\ ~Sweep
      <4>1. items' = items /\ idx' = idx /\ gen' = gen
        BY <3>5 DEF catalog
      <4>2. Current(h[2]) => Current(h[2])'
        BY <4>1 DEF Current
      <4>3. ~Current(h[2]) => pc' # "save" /\ file' = file
        BY <3>2, <3>4, <3>5 DEF HeldOK
      <4> QED
        BY <3>2, <3>3, <4>1, <4>2, <4>3 DEF HeldOK, Resolves, Saved, RecordKey
    <3>6. ASSUME NEW n, NEW pid, NEW id, Publishes(n, pid, id) PROVE HeldOK(h)'
      BY <1>1, <1>2, <3>2, <3>3, <3>6, HeldByPublish
    <3>7. CASE Sweep
      BY <1>2, <3>1, <3>2, <3>3, <3>7, HeldBySweep
    <3>8. ~(\E who : Request(who))
      BY <1>1, <2>4 DEF Request, ResetForRescan
    <3>9. ~Crash
      BY <1>1, <2>4 DEF Crash
    <3> QED
      BY <1>1, <3>5, <3>6, <3>7, <3>8, <3>9, CatalogMoves
  <2> QED
    BY <1>1, <2>2, <2>3, <2>4, ScanPhases
<1> QED
  BY <1>3, <1>4

-----------------------------------------------------------------------------
(* The theorems about the catalog and its history.                         *)

(* Before the first scan nothing is held and nothing is saved. *)
LEMMA HistInvInit ==
  ASSUME HInit
  PROVE  HistInv
<1>1. Init /\ HistoryInit
  BY DEF HInit
<1>2. PhaseInv
  BY <1>1 DEF Init, PhaseInv, NoTodo, NoCalls, NoCall
<1>3. TreeInv
  BY <1>1 DEF Init, TreeInv, TreeOK, OnePerPlace, EmptyFile, NoRecords
<1>4. WatchInv /\ HeldInv /\ TouchedPublished /\ Coverage /\ NoneVanished /\ ItemsRecorded
  BY <1>1 DEF Init, HistoryInit, WatchInv, HeldInv, TouchedPublished, Coverage, NoneVanished,
     ItemsRecorded
<1>5. RootInv
  BY <1>1 DEF Init, RootInv, RootIds, NoItems
<1> QED
  BY <1>2, <1>3, <1>4, <1>5 DEF HistInv

(* Every step of the catalog and its history keeps the invariant. *)
LEMMA HistInvNext ==
  ASSUME WholeInv, [HNext]_hvars
  PROVE  HistInv'
<1>1. [Next]_vars /\ TypeOK /\ HistInv
  BY DEF HNext, hvars, WholeInv, Inv
<1>2. PhaseInv' /\ WatchInv'
  BY <1>1, PhaseNext, WatchNext DEF HistInv
<1> QED
  BY <1>1, <1>2, RootNext, RecordedNext, TreeNext, PublishedNext, VanishedNext, CoverageNext,
     HeldNext
  DEF HistInv

(* The history watches the catalog and does not change what it does: the   *)
(* catalog's invariants hold with it, and the history's own.               *)
THEOREM HistInvHolds == HSpec => [](Inv /\ IdInv /\ HistInv)
<1>1. HSpec => Spec
  <2>1. HInit => Init
    BY DEF HInit
  <2>2. [HNext]_hvars => [Next]_vars
    BY DEF HNext, hvars
  <2> QED
    BY <2>1, <2>2, PTL DEF HSpec, Spec
<1>2. HInit => HistInv
  BY HistInvInit
<1>3. Inv /\ IdInv /\ HistInv /\ [HNext]_hvars => HistInv'
  BY HistInvNext DEF WholeInv
<1> QED
  BY <1>1, <1>2, <1>3, InvHolds, IdInvHolds, PTL DEF HSpec

(* ResetForRescan and PublishItem: an id that a client has kept from before *)
(* the last reset, saved and of a node that never went away, resolves to   *)
(* that node at every moment, unless the reset came in the middle of a scan. *)
THEOREM HeldAlwaysResolves == HSpec => []HeldResolves
<1>1. HistInv => HeldResolves
  BY DEF HistInv, HeldInv, HeldResolves
<1> QED
  BY <1>1, HistInvHolds, PTL

(* A sweep drops what vanished before the scan began. *)
LEMMA DropsVanished ==
  ASSUME WholeInv, Sweep, fresh, clean, ~spent, NEW n \in absent,
         NEW i \in DOMAIN idx', Resolves(n, i)'
  PROVE  Kind[n] = "playlist" /\ n \in Sources
<1>1. CatalogInv /\ SweepStaleEntries
  BY DEF WholeInv, Inv, CatalogInv, TypeOK, Sweep
<1>2. idx'[i] \in DOMAIN items' /\ items'[idx'[i]].node = n
  BY <1>1, SweepKeeps DEF CatalogInv, IndexAgrees, Resolves
<1>3. /\ idx'[i] \in DOMAIN items /\ items'[idx'[i]] = items[idx'[i]]
      /\ items[idx'[i]].gen = gen
  BY <1>1, <1>2, SweepEffect
<1> QED
  BY <1>2, <1>3 DEF WholeInv, HistInv, NoneVanished, Anyway

(* A sweep keeps what was there all along, and the container it is in. *)
LEMMA FindsSteady ==
  ASSUME WholeInv, Sweep, fresh, clean, ~spent, NEW n \in steady
  PROVE  \E i \in DOMAIN idx' : /\ Resolves(n, i)'
                               /\ items'[idx'[i]].parent \in DOMAIN idx' \cup {0}
<1>1. CatalogInv /\ SweepStaleEntries /\ pc = "check" /\ ~cancelled
  BY DEF WholeInv, Inv, CatalogInv, TypeOK, Sweep
<1>2. DbTree /\ DbIdsOK(db) /\ RootIds /\ n \in Node /\ 0 < Base /\ Base \in Int
      /\ \A m \in steady : Parent[m] # Top => Parent[m] \in steady
  BY <1>1, Running, IdAssumption DEF WholeInv, HistInv, RootInv, WatchInv, Visible, Reachable
<1> DEFINE v == IF n \in Sources THEN <<n, "top">> ELSE <<n, "in">>
<1>3. v \in Places /\ v[1] = n
  BY <1>2 DEF Places
<1> HIDE DEF v
<1>4. PICK k \in db.touched : IsItem(k) /\ PlaceOf(k) = v
  BY <1>1, <1>3, AllSeen DEF Seen
<1>5. k[3] = n /\ k \in DOMAIN db.recs
  BY <1>2, <1>3, <1>4 DEF PlaceOf, Place, DbTree, Tree
<1> DEFINE i == db.recs[k]
           it == items[idx[i]]
<1>6. Current(i)
  BY <1>1, <1>4, <1>5, SteadyIsCurrent
<1>7. idx[i] \in DOMAIN items /\ it.id = i /\ it.gen = gen /\ it.node # Top
  BY <1>1, <1>2, <1>5, <1>6 DEF Current, CatalogInv, IndexAgrees, RootIds, DbIdsOK
<1>8. RecordKey(it) = k
  BY <1>2, <1>5, <1>7 DEF WholeInv, HistInv, ItemsRecorded, DbIdsOK, Injective
<1>9. it.node = n /\ it.parent = k[2]
  BY <1>5, <1>8 DEF RecordKey, ContainerKey, MediaKey
<1>10. i \in DOMAIN idx' /\ items'[idx'[i]] = it
  BY <1>1, <1>6, SweepEffect DEF Current
<1>11. k[2] = 0 \/ k[2] \in DOMAIN idx'
  <2> SUFFICES ASSUME k[2] # 0 PROVE k[2] \in DOMAIN idx'
    OBVIOUS
  <2>1. Hangs(Keeping(db.recs, db.touched), k) /\ db.touched \subseteq DOMAIN db.recs
    BY <1>2, <1>4 DEF DbTree, Tree, TreeOK, Keeping
  <2>2. PICK p \in db.touched : p \in DOMAIN db.recs /\ p[1] = "container" /\ PlaceOf(p) = Up(v) /\ db.recs[p] = k[2]
    BY <1>4, <2>1 DEF Hangs, Keeping
  <2>3. p[3] = Up(v)[1] /\ IsItem(p)
    BY <2>2 DEF PlaceOf, Place, IsItem
  <2>4. v[2] = "in"
    BY <1>4, <1>5 DEF PlaceOf, Place
  <2>5. Up(v)[1] \in steady
    BY <1>2, <1>3, <2>4, UpFacts, NodeAssumption
  <2>6. Current(db.recs[p])
    BY <1>1, <2>2, <2>3, <2>5, SteadyIsCurrent
  <2> QED
    BY <1>1, <2>2, <2>6, SweepEffect DEF Current
<1> HIDE DEF i, it
<1> QED
  BY <1>9, <1>10, <1>11 DEF Resolves

(* SweepStaleEntries after a scan that a reset of its own preceded and no  *)
(* other disturbed: the catalog holds nothing that was gone all along but a *)
(* source's playlist, and all that was there all along, with its container. *)
THEOREM SweepLeavesWhatIsThere == HSpec => SweepIsExact
<1> DEFINE Dropped == \A n \in absent : (\E i \in DOMAIN idx' : Resolves(n, i)') => Kind[n] = "playlist" /\ n \in Sources
           KeepsFinding == \A n \in steady : \E i \in DOMAIN idx' :
                             /\ Resolves(n, i)'
                             /\ items'[idx'[i]].parent \in DOMAIN idx' \cup {0}
<1>1. Inv /\ IdInv /\ HistInv /\ [HNext]_hvars => [Sweep /\ fresh /\ clean /\ ~spent => Dropped]_hvars
  BY DropsVanished DEF WholeInv
<1>2. Inv /\ IdInv /\ HistInv /\ [HNext]_hvars => [Sweep /\ fresh /\ clean /\ ~spent => KeepsFinding]_hvars
  BY FindsSteady DEF WholeInv
<1>3. HSpec => SweepDropsVanished
  BY <1>1, HistInvHolds, PTL DEF HSpec, SweepDropsVanished
<1>4. HSpec => SweepFindsAll
  BY <1>2, HistInvHolds, PTL DEF HSpec, SweepFindsAll
<1> QED
  BY <1>3, <1>4 DEF SweepIsExact

(* PruneUntouched and Save, after a scan that no reset disturbed: what was *)
(* there all along keeps the id it was saved with.                         *)
THEOREM SteadyIdsAreSaved == HSpec => SaveKeepsSteady
<1> DEFINE Kept == \A k \in DOMAIN file.recs :
                     k[1] # "error" /\ k[3] \in steady => k \in DOMAIN file'.recs /\ file'.recs[k] = file.recs[k]
<1>1. ASSUME WholeInv, PruneAndSave, clean, ~spent PROVE Kept
  <2> SUFFICES ASSUME NEW k \in DOMAIN file.recs, k[1] # "error", k[3] \in steady
               PROVE  k \in DOMAIN file'.recs /\ file'.recs[k] = file.recs[k]
    OBVIOUS
  <2>1. pc = "save" /\ (file' = FileOf(PruneUntouched(db)) \/ file' = file)
    BY <1>1 DEF PruneAndSave
  <2>2. k \in DOMAIN db.recs /\ db.recs[k] = file.recs[k]
    BY <1>1, <2>1, Running DEF Holds
  <2>3. k \in db.touched
    BY <1>1, <2>1, <2>2, SteadyIsCurrent DEF IsItem
  <2> QED
    BY <2>1, <2>2, <2>3 DEF FileOf, PruneUntouched, Keeping
<1>2. Inv /\ IdInv /\ HistInv /\ [HNext]_hvars => [PruneAndSave /\ clean /\ ~spent => Kept]_hvars
  BY <1>1 DEF WholeInv
<1> QED
  BY <1>2, HistInvHolds, PTL DEF HSpec, SaveKeepsSteady

-----------------------------------------------------------------------------
(* The search cache of ContentDirectory.  First what is counted: the items *)
(* of the entries of C, each with the container whose entry it is in.      *)

Cells(f, C) == UNION {{c} \X f[c].result : c \in C}

FiniteResults(f, C) == IsFiniteSet(C) /\ \A c \in C : IsFiniteSet(f[c].result)

(* The items of some entries are finitely many. *)
LEMMA CellsFinite ==
  ASSUME NEW f, NEW C, FiniteResults(f, C)
  PROVE  IsFiniteSet(Cells(f, C)) /\ Cardinality(Cells(f, C)) \in Nat
<1> DEFINE parts == {{c} \X f[c].result : c \in C}
<1>1. IsFiniteSet(parts)
  <2> DEFINE g == [c \in C |-> {c} \X f[c].result]
  <2>1. g \in Surjection(C, parts)
    BY DEF Surjection
  <2> QED
    BY <2>1, FS_Surjection DEF FiniteResults
<1>2. \A c \in C : IsFiniteSet({c} \X f[c].result)
  <2> SUFFICES ASSUME NEW c \in C
               PROVE  IsFiniteSet({c} \X f[c].result)
    OBVIOUS
  <2>1. IsFiniteSet({c}) /\ IsFiniteSet(f[c].result)
    BY FS_Singleton DEF FiniteResults
  <2> QED
    BY <2>1, FS_Product
<1>3. IsFiniteSet(UNION parts)
  BY <1>1, <1>2, FS_UNION
<1> QED
  BY <1>3, FS_CardinalityType DEF Cells

(* The items of one entry are as many as its result has. *)
LEMMA CellsOfOne ==
  ASSUME NEW f, NEW c, IsFiniteSet(f[c].result)
  PROVE  Cardinality(Cells(f, {c})) = Cardinality(f[c].result)
<1>1. Cells(f, {c}) = {c} \X f[c].result
  BY DEF Cells
<1>2. IsFiniteSet({c}) /\ Cardinality({c}) = 1
  BY FS_Singleton
<1>3. Cardinality(f[c].result) \in Nat
  BY FS_CardinalityType
<1>4. Cardinality({c} \X f[c].result) = 1 * Cardinality(f[c].result)
  BY <1>2, FS_Product
<1>5. 1 * Cardinality(f[c].result) = Cardinality(f[c].result)
  BY <1>3
<1> QED
  BY <1>1, <1>4, <1>5

(* Entries apart are counted apart. *)
LEMMA CellsApart ==
  ASSUME NEW f, NEW A, NEW B, FiniteResults(f, A), FiniteResults(f, B), A \cap B = {}
  PROVE  Cardinality(Cells(f, A \cup B)) = Cardinality(Cells(f, A)) + Cardinality(Cells(f, B))
<1>1. Cells(f, A \cup B) = Cells(f, A) \cup Cells(f, B)
  BY DEF Cells
<1>2. Cells(f, A) \cap Cells(f, B) = {}
  BY DEF Cells
<1>3. IsFiniteSet(Cells(f, A)) /\ IsFiniteSet(Cells(f, B))
  BY CellsFinite
<1>4. Cardinality(Cells(f, A)) \in Nat /\ Cardinality(Cells(f, B)) \in Nat
  BY CellsFinite
<1>5. Cardinality({}) = 0
  BY FS_EmptySet
<1> DEFINE X == Cells(f, A)
           Y == Cells(f, B)
<1>6. /\ IsFiniteSet(X) /\ IsFiniteSet(Y) /\ X \cap Y = {} /\ Cardinality({}) = 0
      /\ Cardinality(X) \in Nat /\ Cardinality(Y) \in Nat
  BY <1>2, <1>3, <1>4, <1>5
<1> HIDE DEF X, Y
<1>7. Cardinality(X \cup Y) = Cardinality(X) + Cardinality(Y) - Cardinality(X \cap Y)
  BY <1>6, FS_Union
<1>8. Cardinality(X \cap Y) = 0
  BY <1>6
<1>9. Cardinality(X \cup Y) = Cardinality(X) + Cardinality(Y)
  BY <1>6, <1>7, <1>8
<1> QED
  BY <1>1, <1>9 DEF X, Y

(* The total in these terms *)
LEMMA SumIs == \A C : Sum(C) = Cardinality(Cells(cache, C))
BY DEF Sum, Cells

-----------------------------------------------------------------------------
SearchStages == {"none", "ask", "walk", "store"}

SearchTypes ==
  /\ IsFiniteSet(DOMAIN cache)
  /\ \A c \in DOMAIN cache : IsFiniteSet(cache[c].result) /\ cache[c].tag \in Nat /\ cache[c].tag <= updateId
  /\ DOMAIN call = Worker /\ call = [w \in Worker |-> call[w]]
  /\ \A w \in Worker :
       /\ call[w].stage \in SearchStages
       /\ call[w].stage # "none" => call[w].tag \in Nat /\ call[w].tag <= updateId
       /\ call[w].stage = "store" => IsFiniteSet(call[w].result)

(* Storing a result keeps both budgets and the total. *)
LEMMA StoreKeepsBudget ==
  ASSUME SearchTypes, BudgetKept, NEW w \in Worker, Store(w)
  PROVE  BudgetKept'
<1> DEFINE c == call[w].c
           R == call[w].result
           n == Cardinality(R)
           D == DOMAIN cache
<1>1. PICK V \in SUBSET (D \ {c}) :
        /\ Evicts(V, c, n)
        /\ cache' = [k \in (D \ V) \cup {c} |-> IF k = c THEN EntryOf(w) ELSE cache[k]]
        /\ total' = NewTotal(V, c, n)
  BY DEF Store
<1> DEFINE K == (D \ V) \ {c}
           P == IF c \in D THEN {c} ELSE {}
<1>2. IsFiniteSet(R) /\ n \in Nat
  BY FS_CardinalityType DEF SearchTypes, Store
<1>3. FiniteResults(cache, D) /\ FiniteResults(cache, V) /\ FiniteResults(cache, K) /\ FiniteResults(cache, P)
  <2>1. IsFiniteSet(D) /\ IsFiniteSet(V) /\ IsFiniteSet(K) /\ IsFiniteSet(P)
    BY FS_Subset DEF SearchTypes
  <2> QED
    BY <2>1 DEF SearchTypes, FiniteResults
<1> DEFINE sumV == Cardinality(Cells(cache, V))
           sumK == Cardinality(Cells(cache, K))
           sumP == Cardinality(Cells(cache, P))
<1>4. sumV \in Nat /\ sumK \in Nat /\ sumP \in Nat
  BY <1>3, CellsFinite
<1>5. total = sumV + (sumK + sumP) /\ Cardinality(Cells(cache, K \cup P)) = sumK + sumP
  <2>1. D = V \cup (K \cup P) /\ V \cap (K \cup P) = {} /\ K \cap P = {}
    BY <1>1
  <2>2. FiniteResults(cache, K \cup P)
    BY <1>3, FS_Union DEF FiniteResults
  <2>3. Cardinality(Cells(cache, K \cup P)) = sumK + sumP
    BY <1>3, <2>1, CellsApart
  <2>4. Cardinality(Cells(cache, D)) = sumV + Cardinality(Cells(cache, K \cup P))
    BY <1>3, <2>1, <2>2, CellsApart
  <2> QED
    BY <2>3, <2>4, SumIs DEF BudgetKept
<1>6. sumP = IF c \in D THEN Cardinality(cache[c].result) ELSE 0
  <2>1. CASE c \in D
    BY <2>1, CellsOfOne DEF SearchTypes
  <2>2. CASE c \notin D
    <3>1. Cells(cache, {}) = {} /\ Cardinality({}) = 0
      BY FS_EmptySet DEF Cells
    <3> QED
      BY <2>2, <3>1
  <2> QED
    BY <2>1, <2>2
<1>7. Sum(V) = sumV
  BY SumIs
<1> HIDE DEF sumV, sumK, sumP
<1>8. total' = sumK + n
  BY <1>1, <1>2, <1>4, <1>5, <1>6, <1>7 DEF NewTotal
<1>9. total' = Sum(DOMAIN cache)'
  <2>1. DOMAIN cache' = K \cup {c} /\ cache'[c].result = R /\ \A k \in K : cache'[k] = cache[k]
    BY <1>1 DEF EntryOf
  <2>2. Cells(cache', K) = Cells(cache, K)
    BY <2>1 DEF Cells
  <2>3. FiniteResults(cache', K) /\ FiniteResults(cache', {c})
    BY <1>2, <1>3, <2>1, FS_Singleton DEF FiniteResults
  <2>4. Cardinality(Cells(cache', K \cup {c})) = Cardinality(Cells(cache', K)) + Cardinality(Cells(cache', {c}))
    BY <2>3, CellsApart
  <2>5. Cardinality(Cells(cache', {c})) = n
    BY <1>2, <2>1, CellsOfOne
  <2>6. Cardinality(Cells(cache', DOMAIN cache')) = sumK + n
    BY <2>1, <2>2, <2>4, <2>5 DEF sumK
  <2> QED
    BY <1>8, <2>6 DEF Sum, Cells
<1>10. /\ Cardinality(DOMAIN cache') <= MaxContainers
       /\ total' <= MaxItems \/ Cardinality(DOMAIN cache') = 1
  <2>1. DOMAIN cache' = K \cup {c} /\ IsFiniteSet(K) /\ c \notin K
    BY <1>1, <1>3 DEF FiniteResults
  <2>2. Cardinality(DOMAIN cache') = Cardinality(K) + 1 /\ Cardinality(K) \in Nat
    BY <2>1, FS_AddElement, FS_CardinalityType
  <2>3. CASE V = D \ {c}
    <3>1. K = {}
      BY <2>3
    <3>2. Cardinality(K) = 0
      BY <3>1, FS_EmptySet
    <3> HIDE DEF K
    <3>3. Cardinality(DOMAIN cache') = 1
      BY <2>2, <3>2
    <3> QED
      BY <3>3, SearchAssumption DEF SearchAssumption
  <2>4. CASE ~NeedsEviction(D \ V, total - Sum(V), c, n)
    <3>1. D \ V = K \cup P
      BY <1>1
    <3>2. total - Sum(V) = sumK + sumP
      BY <1>4, <1>5, <1>7
    <3>3. sumK + n <= MaxItems
      <4>1. c \in D \ V <=> c \in D
        BY <1>1
      <4>2. sumK + sumP >= sumP /\ (sumK + sumP) - sumP = sumK
        BY <1>4
      <4> QED
        BY <1>6, <2>4, <3>2, <4>1, <4>2, <1>2, <1>4, SearchAssumption DEF NeedsEviction,
           SearchAssumption
    <3>4. Cardinality(K) + 1 <= MaxContainers
      <4>1. CASE c \in D
        <5>1. K \subseteq D \ {c} /\ IsFiniteSet(D) /\ Cardinality(D) \in Nat /\ Cardinality(D) <= MaxContainers
          BY FS_CardinalityType DEF SearchTypes, BudgetKept
        <5>2. IsFiniteSet(D \ {c}) /\ Cardinality(D \ {c}) = Cardinality(D) - 1
          BY <4>1, <5>1, FS_RemoveElement
        <5>3. Cardinality(K) <= Cardinality(D \ {c})
          BY <5>1, <5>2, FS_Subset
        <5> QED
          BY <2>2, <5>1, <5>2, <5>3, SearchAssumption DEF SearchAssumption
      <4>2. CASE c \notin D
        <5>1. D \ V = K /\ c \notin K
          BY <4>2
        <5>2. ~(Cardinality(K) >= MaxContainers)
          BY <2>4, <5>1 DEF NeedsEviction
        <5> QED
          BY <2>2, <5>2, SearchAssumption DEF SearchAssumption
      <4> QED
        BY <4>1, <4>2
    <3> QED
      BY <1>8, <2>2, <3>3, <3>4
  <2>5. V = D \ {c} \/ ~NeedsEviction(D \ V, total - Sum(V), c, n)
    BY <1>1 DEF Evicts
  <2> QED
    BY <2>3, <2>4, <2>5
<1> QED
  BY <1>9, <1>10 DEF BudgetKept

-----------------------------------------------------------------------------
(* What a search can rely on.  Until the ids are spent, none is -1, which  *)
(* is what the root has for a parent.                                      *)

Apart ==
  ~spent =>
    /\ \A s \in DOMAIN items : items[s].id # -1 /\ (items[s].node = Top => items[s].parent = -1)
    /\ \A s \in Sources : At(s, "publish") => cur[s].id # -1 /\ cur[s].node # Top

AllBumped == \A s \in Sources : ~At(s, "bump")

Asked ==
  ~spent => /\ \A c \in DOMAIN cache : c # -1
            /\ \A w \in Worker : call[w].stage # "none" => call[w].c # -1

Complete ==
  ~spent /\ AllBumped =>
    /\ \A c \in DOMAIN cache : cache[c].tag = updateId => Found(c, cache[c].key) \subseteq cache[c].result
    /\ \A w \in Worker : call[w].stage = "store" /\ call[w].tag = updateId =>
         Found(call[w].c, call[w].q) \subseteq call[w].result

(* Publishing adds the item, or nothing. *)
LEMMA PublishAdds ==
  ASSUME CatalogOK, NEW it, Publish(it)
  PROVE  \A s \in DOMAIN items' : (s \in DOMAIN items /\ items'[s] = items[s]) \/ items'[s] = it
<1>1. CASE Current(it.id)
  BY <1>1 DEF Publish, catalog
<1>2. CASE ~Current(it.id)
  <2> DEFINE new == size + 1
  <2>1. new \notin DOMAIN items
    BY DEF CatalogOK
  <2>2. /\ DOMAIN items' = DOMAIN items \cup {new} /\ items'[new] = it
        /\ \A s \in DOMAIN items : items'[s] = items[s]
    BY <1>2, <2>1 DEF Publish, Push, Append
  <2> QED
    BY <2>2
<1> QED
  BY <1>1, <1>2

(* No step gives an item the id -1 before the ids are spent. *)
LEMMA ApartNext ==
  ASSUME Inv, IdInv, Apart, [Next]_vars
  PROVE  Apart'
<1> SUFFICES ASSUME ~spent'
             PROVE  Apart'
  BY DEF Apart
<1>1. ~spent /\ (Others \/ (Aside /\ \E s \in Sources : JobMoves(s)))
  BY Moves DEF Inv
<1>2. /\ \A s \in DOMAIN items : items[s].id # -1 /\ (items[s].node = Top => items[s].parent = -1)
      /\ \A s \in Sources : cur[s].stage = "publish" => cur[s].id # -1 /\ cur[s].node # Top
      /\ DOMAIN cur = Sources /\ CatalogOK /\ CatalogInv
  BY <1>1 DEF Apart, At, Inv, TypeOK, JobsOK, CatalogInv
<1>3. 0 < Base /\ Base \in Int /\ \A n \in Node : n # Top
  BY IdAssumption, NodeAssumption
<1>4. ASSUME UNCHANGED catalog, \/ UNCHANGED cur
                                \/ \E s \in Sources : \E c : Enter(s, c) /\ (c.stage = "publish" => c.id # -1 /\ c.node # Top)
                                \/ cur' = NoCalls
      PROVE  Apart'
  BY <1>2, <1>4 DEF catalog, Enter, NoCalls, NoCall, Apart, At
<1>5. ASSUME NEW s \in Sources, NEW it, Publish(it), it.id # -1, it.node # Top,
             NEW c, Enter(s, c), c.stage # "publish"
      PROVE  Apart'
  <2>1. \A t \in DOMAIN items' : (t \in DOMAIN items /\ items'[t] = items[t]) \/ items'[t] = it
    BY <1>2, <1>5, PublishAdds
  <2>2. \A t \in Sources : cur'[t] = cur[t] \/ cur'[t] = c
    BY <1>2, <1>5 DEF Enter
  <2> QED
    BY <1>2, <1>5, <2>1, <2>2 DEF Apart, At
<1>6. ASSUME NEW s \in Sources, NEW n \in Node, NEW pid \in Int, NEW es, Arrives(s, n, pid, es)
      PROVE  Apart'
  <2>1. PICK id \in Int, st \in Stages :
          /\ Base <= id
          /\ Enter(s, Call(st, n, pid, id, es))
          /\ \/ IsFolder(n) /\ st \in {"bump", "published"} /\ Publish(ItemOf(n, pid, id))
             \/ ~IsFolder(n) /\ st = "publish" /\ es = {} /\ UNCHANGED catalog
    BY <1>6 DEF Arrives
  <2> DEFINE it == ItemOf(n, pid, id)
             c == Call(st, n, pid, id, es)
  <2>2. it.id = id /\ it.node = n /\ c.stage = st /\ c.id = id /\ c.node = n
    BY DEF ItemOf, Call
  <2>3. id # -1 /\ n # Top
    BY <1>3, <2>1
  <2> HIDE DEF it, c
  <2>4. CASE UNCHANGED catalog
    BY <1>4, <2>1, <2>2, <2>3, <2>4 DEF c
  <2>5. CASE st \in {"bump", "published"} /\ Publish(it)
    BY <1>5, <2>1, <2>2, <2>3, <2>5 DEF c
  <2> QED
    BY <2>1, <2>4, <2>5 DEF it
<1>7. ASSUME NEW s \in Sources, JobMoves(s) PROVE Apart'
  <2>1. CASE OpensContainer(s)
    BY <1>6, <2>1 DEF OpensContainer, Sources
  <2>2. CASE Visits(s)
    BY <1>6, <2>2 DEF Visits
  <2>3. CASE OpensNothing(s) \/ OpensFile(s) \/ Misses(s) \/ PassesBy(s)
    BY <1>4, <2>3 DEF OpensNothing, OpensFile, Misses, PassesBy, Fails
  <2>4. CASE Marks(s) \/ BreaksOff(s) \/ Lists(s) \/ ListsNothing(s)
    <3>1. Finishes(s)
      BY <2>4 DEF Marks, BreaksOff, Lists, ListsNothing
    <3>2. Enter(s, NoCall) /\ UNCHANGED catalog /\ NoCall.stage # "publish"
      BY <3>1 DEF Finishes, catalog, NoCall
    <3> QED
      BY <1>4, <3>2
  <2> QED
    BY <1>7, <2>1, <2>2, <2>3, <2>4 DEF JobMoves
<1>8. ASSUME WorldStep \/ StartJobs \/ JobsDone \/ EndCancelled \/ PruneAndSave \/ PruneAndCutShort
           \/ Stop \/ UNCHANGED vars
      PROVE  UNCHANGED catalog /\ UNCHANGED cur
  <2>1. CASE WorldStep \/ StartJobs \/ JobsDone \/ EndCancelled
    BY <2>1 DEF WorldStep, StartJobs, JobsDone, EndCancelled, jobs
  <2>2. CASE PruneAndSave \/ PruneAndCutShort
    BY <2>2 DEF PruneAndSave, PruneAndCutShort, EndScan, jobs
  <2>3. CASE Stop \/ UNCHANGED vars
    BY <2>3 DEF Stop, vars, jobs
  <2> QED
    BY <1>8, <2>1, <2>2, <2>3
<1>9. CASE BeginScan
  <2>1. UNCHANGED catalog /\ cur' = NoCalls
    BY <1>9 DEF BeginScan, LoadDatabase
  <2> QED
    BY <1>4, <2>1
<1>10. CASE Crash
  BY <1>10 DEF Crash, NoItems, NoCalls, NoCall, Apart, At
<1>11. CASE Sweep
  <2>1. \A s \in DOMAIN items' : s \in DOMAIN items /\ items'[s] = items[s]
    BY <1>2, <1>11, SweepEffect DEF Sweep
  <2>2. cur' = cur
    BY <1>11 DEF Sweep, jobs
  <2> QED
    BY <1>2, <2>1, <2>2 DEF Apart, At
<1>12. ASSUME NEW who, Request(who) PROVE Apart'
  <2>1. cur' = cur /\ ResetForRescan
    BY <1>12 DEF Request, jobs
  <2>2. ASSUME NEW s \in DOMAIN items'
        PROVE  items'[s].id # -1 /\ (items'[s].node = Top => items'[s].parent = -1)
    <3>1. CASE 0 \in DOMAIN idx
      <4>1. items' = [items EXCEPT ![idx[0]].gen = gen + 1] /\ DOMAIN items' = DOMAIN items
        BY <2>1, <3>1, <1>2 DEF ResetForRescan, CatalogOK
      <4>2. items[s] \in Item /\ s \in DOMAIN items
        BY <1>2, <2>2, <4>1 DEF CatalogOK
      <4>3. items'[s] = IF s = idx[0] THEN [items[s] EXCEPT !.gen = gen + 1] ELSE items[s]
        BY <4>1, <4>2, <1>2 DEF CatalogOK
      <4>4. items'[s].id = items[s].id /\ items'[s].node = items[s].node /\ items'[s].parent = items[s].parent
        BY <4>2, <4>3 DEF Item
      <4> QED
        BY <1>2, <4>2, <4>4
    <3>2. CASE 0 \notin DOMAIN idx
      <4> DEFINE new == size + 1
      <4>1. new \notin DOMAIN items
        BY <1>2 DEF CatalogOK
      <4>2. DOMAIN items' = DOMAIN items \cup {new} /\ items'[new] = RootItem /\ \A t \in DOMAIN items : items'[t] = items[t]
        BY <2>1, <3>2, <4>1 DEF ResetForRescan, Append
      <4>3. RootItem.id = 0 /\ RootItem.parent = -1
        BY DEF RootItem
      <4> QED
        BY <1>2, <2>2, <4>2, <4>3
    <3> QED
      BY <3>1, <3>2
  <2> QED
    BY <1>2, <2>1, <2>2 DEF Apart, At
<1>13. ASSUME NEW s \in Sources, BumpUpdateId(s) \/ Discard(s) PROVE Apart'
  <2>1. UNCHANGED catalog /\ (cur' = cur \/ (At(s, "bump") /\ Enter(s, [cur[s] EXCEPT !.stage = "published"])))
    BY <1>13 DEF BumpUpdateId, Discard
  <2>2. cur[s] \in Calls
    BY DEF Inv, TypeOK, JobsOK
  <2>3. [cur[s] EXCEPT !.stage = "published"].stage # "publish"
    BY <2>2 DEF Calls
  <2> QED
    BY <1>4, <2>1, <2>3
<1>14. ASSUME NEW s \in Sources, PublishItem(s) PROVE Apart'
  <2>1. cur[s] \in Calls /\ At(s, "publish") /\ cur[s].id # -1 /\ cur[s].node # Top
    BY <1>2, <1>14 DEF Inv, TypeOK, JobsOK, PublishItem, At
  <2>2. CASE Enter(s, NoCall) /\ UNCHANGED catalog
    <3>1. NoCall.stage # "publish"
      BY DEF NoCall
    <3> QED
      BY <1>4, <2>2, <3>1
  <2>3. CASE /\ Publish(ItemOf(cur[s].node, cur[s].pid, cur[s].id))
             /\ Enter(s, [cur[s] EXCEPT !.stage = IF Current(cur[s].id) THEN "published" ELSE "bump"])
    <3> DEFINE st == IF Current(cur[s].id) THEN "published" ELSE "bump"
               it == ItemOf(cur[s].node, cur[s].pid, cur[s].id)
               c == [cur[s] EXCEPT !.stage = st]
    <3>1. st # "publish" /\ it.id = cur[s].id /\ it.node = cur[s].node
      BY DEF ItemOf
    <3>2. c.stage = st
      BY <2>1 DEF Calls
    <3>3. Publish(it) /\ Enter(s, c)
      BY <2>3
    <3> HIDE DEF st, it, c
    <3> QED
      BY <1>5, <2>1, <3>1, <3>2, <3>3
  <2> QED
    BY <1>14, <2>2, <2>3 DEF PublishItem
<1>15. CASE Others
  <2>1. \/ WorldStep \/ StartJobs \/ JobsDone \/ EndCancelled \/ PruneAndSave \/ PruneAndCutShort
           \/ Stop \/ UNCHANGED vars
        \/ BeginScan \/ Crash \/ Sweep \/ (\E who : Request(who))
        \/ \E s \in Sources : BumpUpdateId(s) \/ Discard(s) \/ PublishItem(s)
    BY <1>15 DEF Others
  <2> QED
    BY <1>4, <1>8, <1>9, <1>10, <1>11, <1>12, <1>13, <1>14, <2>1
<1> QED
  BY <1>1, <1>7, <1>15

-----------------------------------------------------------------------------
(* What the counter tells.  When no publisher has still to bump it after a *)
(* step, either the step bumped it, or none had before and the step left   *)
(* the catalog to searches, or swept it.                                   *)

Sees == UNCHANGED <<items, kids>>

(* A publisher that is not at "bump" afterwards has published nothing. *)
LEMMA ContainerTells ==
  ASSUME DOMAIN cur = Sources, NEW s \in Sources, NEW n, NEW pid, NEW es,
         PublishContainer(s, n, pid, es), AllBumped'
  PROVE  Sees /\ \A t \in Sources \ {s} : cur'[t] = cur[t]
<1>1. PICK id : /\ Publish(ItemOf(n, pid, id))
                /\ Enter(s, Call(IF Current(id) THEN "published" ELSE "bump", n, pid, id, es))
  BY DEF PublishContainer
<1>2. Current(id)
  <2>1. cur'[s].stage # "bump"
    BY DEF AllBumped, At
  <2>2. cur'[s].stage = IF Current(id) THEN "published" ELSE "bump"
    BY <1>1 DEF Enter, Call
  <2> QED
    BY <2>1, <2>2
<1>3. ItemOf(n, pid, id).id = id
  BY DEF ItemOf
<1>4. Sees
  BY <1>1, <1>2, <1>3 DEF Publish, catalog, Sees
<1> QED
  BY <1>1, <1>4 DEF Enter

LEMMA CounterTells ==
  ASSUME TypeOK, PhaseInv, WorldStep \/ ScanStep \/ Stop, AllBumped'
  PROVE  updateId' > updateId \/ (updateId' = updateId /\ AllBumped /\ (Sees \/ Sweep))
<1> DEFINE Told == updateId' > updateId \/ (updateId' = updateId /\ AllBumped /\ (Sees \/ Sweep))
<1>0. updateId \in Nat /\ DOMAIN cur = Sources
  BY DEF TypeOK, JobsOK
<1>a. ASSUME UNCHANGED catalog, cur' = cur, updateId' = updateId
      PROVE  Told
  BY <1>a DEF catalog, AllBumped, At, Sees
<1>b. ASSUME NEW s \in Sources, cur[s].stage # "bump", \A t \in Sources \ {s} : cur'[t] = cur[t]
      PROVE  AllBumped
  BY <1>b DEF AllBumped, At
<1>1. CASE WorldStep \/ Stop
  BY <1>1, <1>a DEF WorldStep, Stop, jobs
<1>2. CASE StartJobs \/ EndCancelled
  BY <1>2, <1>a DEF StartJobs, EndCancelled, jobs
<1>3. CASE PruneAndSave \/ PruneAndCutShort
  BY <1>3, <1>a DEF PruneAndSave, PruneAndCutShort, EndScan, jobs
<1>4. CASE BeginScan
  <2>1. AllBumped
    BY <1>4 DEF BeginScan, PhaseInv, AllBumped, At
  <2> QED
    BY <1>4, <2>1 DEF BeginScan, catalog, Sees
<1>5. CASE JobsDone
  BY <1>0, <1>5 DEF JobsDone
<1>6. CASE Sweep
  <2>1. cur' = cur /\ updateId' = updateId
    BY <1>6 DEF Sweep, jobs
  <2> QED
    BY <1>6, <2>1 DEF AllBumped, At
<1>7. ASSUME NEW s \in Sources, OpenSource(s) PROVE Told
  <2>1. AllBumped /\ updateId' = updateId
    BY <1>7 DEF OpenSource, AllBumped
  <2>2. UNCHANGED catalog \/ \E n, pid, es : PublishContainer(s, n, pid, es)
    BY <1>7 DEF OpenSource
  <2>3. Sees
    BY <1>0, <2>2, ContainerTells DEF catalog, Sees
  <2> QED
    BY <2>1, <2>3
<1>8. ASSUME NEW s \in Sources, BumpUpdateId(s) PROVE Told
  BY <1>0, <1>8 DEF BumpUpdateId
<1>9. ASSUME NEW s \in Sources, Visit(s) PROVE Told
  <2>1. updateId' = updateId /\ At(s, "none")
    BY <1>9 DEF Visit, VisitFolder, VisitPlaylist, VisitFile, TakeTask
  <2>2. \/ UNCHANGED catalog /\ (cur' = cur \/ \E c : Enter(s, c))
        \/ \E n, pid, es : PublishContainer(s, n, pid, es)
    BY <1>9 DEF Visit, VisitFolder, VisitPlaylist, VisitFile
  <2>3. Sees /\ \A t \in Sources \ {s} : cur'[t] = cur[t]
    BY <1>0, <2>2, ContainerTells DEF catalog, Sees, Enter
  <2>4. AllBumped
    BY <1>b, <2>1, <2>3 DEF At
  <2> QED
    BY <2>1, <2>3, <2>4
<1>10. ASSUME NEW s \in Sources, Discard(s) PROVE Told
  BY <1>10, <1>a DEF Discard
<1>11. ASSUME NEW s \in Sources, FinishCall(s) PROVE Told
  <2>1. UNCHANGED catalog /\ updateId' = updateId /\ At(s, "published") /\ Enter(s, NoCall)
    BY <1>11 DEF FinishCall
  <2>2. AllBumped
    BY <1>b, <2>1 DEF At, Enter
  <2> QED
    BY <2>1, <2>2 DEF catalog, Sees
<1>12. ASSUME NEW s \in Sources, PublishItem(s) PROVE Told
  <2>1. updateId' = updateId /\ At(s, "publish") /\ cur[s] \in Calls
    BY <1>12 DEF PublishItem, TypeOK, JobsOK
  <2>2. CASE Enter(s, NoCall) /\ UNCHANGED catalog
    <3>1. AllBumped
      BY <1>b, <2>1, <2>2 DEF At, Enter
    <3> QED
      BY <2>1, <2>2, <3>1 DEF catalog, Sees
  <2>3. CASE /\ Publish(ItemOf(cur[s].node, cur[s].pid, cur[s].id))
             /\ Enter(s, [cur[s] EXCEPT !.stage = IF Current(cur[s].id) THEN "published" ELSE "bump"])
    <3>1. AllBumped
      BY <1>b, <2>1, <2>3 DEF At, Enter
    <3>2. cur'[s].stage = IF Current(cur[s].id) THEN "published" ELSE "bump"
      BY <1>0, <2>1, <2>3 DEF Enter, Calls
    <3>3. Current(cur[s].id) /\ ItemOf(cur[s].node, cur[s].pid, cur[s].id).id = cur[s].id
      BY <3>2 DEF AllBumped, At, ItemOf
    <3> QED
      BY <2>1, <2>3, <3>1, <3>3 DEF Publish, catalog, Sees
  <2> QED
    BY <1>12, <2>2, <2>3 DEF PublishItem
<1> QED
  BY <1>1, <1>2, <1>3, <1>4, <1>5, <1>6, <1>7, <1>8, <1>9, <1>10, <1>11, <1>12 DEF ScanStep,
     JobStep

(* No step but a crash takes the counter back. *)
LEMMA CounterGrows ==
  ASSUME TypeOK, WorldStep \/ ScanStep \/ Stop \/ \E who : Request(who)
  PROVE  updateId' \in Nat /\ updateId <= updateId'
<1>0. updateId \in Nat
  BY DEF TypeOK
<1>1. ASSUME NEW s \in Sources, OpenSource(s) \/ BumpUpdateId(s) \/ Visit(s) \/ Discard(s)
                                \/ PublishItem(s) \/ FinishCall(s)
      PROVE  updateId' \in {updateId, updateId + 1}
  BY <1>1 DEF OpenSource, BumpUpdateId, Visit, VisitFolder, VisitPlaylist, VisitFile, TakeTask,
     Discard, PublishItem, FinishCall
<1>2. CASE \/ WorldStep \/ BeginScan \/ StartJobs \/ JobsDone \/ EndCancelled \/ Sweep
           \/ PruneAndSave \/ PruneAndCutShort \/ Stop \/ \E who : Request(who)
  <2>1. updateId' \in {updateId, updateId + 1}
    BY <1>2 DEF WorldStep, BeginScan, StartJobs, JobsDone, EndCancelled, Sweep, PruneAndSave,
       PruneAndCutShort, EndScan, Stop, Request, ResetForRescan
  <2> QED
    BY <1>0, <2>1
<1> QED
  BY <1>0, <1>1, <1>2 DEF ScanStep, JobStep

-----------------------------------------------------------------------------
(* A sweep adds nothing to what a search finds: what is listed below a     *)
(* node afterwards was listed below it before.                             *)
LEMMA SweepFinds ==
  ASSUME CatalogInv, ~spent, Apart, SweepStaleEntries, NEW c, c # -1, NEW q
  PROVE  Found(c, q)' \subseteq Found(c, q)
<1>1. DOMAIN items' \subseteq DOMAIN items /\ \A s \in DOMAIN items' : items'[s] = items[s]
  BY SweepEffect
<1>2. \A p : p # -1 => KidsOf(p)' \subseteq KidsOf(p) \cap DOMAIN items'
  <2> SUFFICES ASSUME NEW p, p # -1, NEW s \in KidsOf(p)'
               PROVE  s \in KidsOf(p) /\ s \in DOMAIN items'
    OBVIOUS
  <2>1. s \in Swept /\ items[s].parent = p /\ DOMAIN items' = Swept
    BY DEF KidsOf, SweepStaleEntries
  <2>2. s \in DOMAIN items /\ items[s].node # Top
    BY <2>1 DEF Swept, Apart
  <2> QED
    BY <2>1, <2>2 DEF CatalogInv, IndexAgrees, KidsOf
<1>3. \A s \in DOMAIN items : items[s].id # -1
  BY DEF Apart
<1>4. ASSUME NEW s \in Descendants(c)'
      PROVE  s \in Descendants(c)
  <2>1. s \in DOMAIN items' /\ \A S \in SUBSET DOMAIN items' : ListsBelow(S, c)' => s \in S
    BY <1>4 DEF Descendants
  <2>2. ASSUME NEW S \in SUBSET DOMAIN items, ListsBelow(S, c)
        PROVE  s \in S
    <3>0. PICK T : T = S \cap DOMAIN items'
      OBVIOUS
    <3>1. KidsOf(c)' \subseteq T
      BY <1>2, <2>2, <3>0 DEF ListsBelow
    <3>2. ASSUME NEW t \in T, items'[t].folder, NEW p, p = items'[t].id
          PROVE  KidsOf(p)' \subseteq T
      <4>1. p = items[t].id /\ p # -1 /\ items[t].folder /\ t \in S
        BY <1>1, <1>3, <3>0, <3>2
      <4>2. KidsOf(p) \subseteq S
        BY <2>2, <4>1 DEF ListsBelow
      <4>3. KidsOf(p)' \subseteq KidsOf(p) \cap DOMAIN items'
        BY <1>2, <4>1
      <4> QED
        BY <3>0, <4>2, <4>3
    <3>3. ListsBelow(T, c)'
      BY <3>1, <3>2 DEF ListsBelow, KidsOf
    <3> QED
      BY <2>1, <3>0, <3>3
  <2> QED
    BY <1>1, <2>1, <2>2 DEF Descendants
<1> QED
  BY <1>1, <1>4 DEF Found, Descendants

(* What a search finds depends on the items and on how they are listed. *)
LEMMA SameFinds ==
  ASSUME Sees, NEW c, NEW q
  PROVE  Found(c, q)' = Found(c, q)
BY DEF Sees, Found, Descendants, ListsBelow, KidsOf

-----------------------------------------------------------------------------
(* The invariant of the search, step by step.                              *)

ScanInv   == Inv /\ IdInv /\ PhaseInv /\ Apart
CacheInv  == SearchTypes /\ BudgetKept /\ Asked /\ Complete
SearchInv == ScanInv /\ CacheInv

(* A search leaves the catalog alone; everything else is a step of it. *)
LEMMA SearchIsAside ==
  ASSUME [SNext]_svars
  PROVE  [Next]_vars
BY DEF SNext, svars, ResetAndClear, SearchStep, SearchBegins, AskCache, Walk, Store, Next

LEMMA ScanInvNext ==
  ASSUME ScanInv, [Next]_vars
  PROVE  ScanInv'
<1>1. TypeOK /\ Inv /\ IdInv /\ PhaseInv /\ Apart
  BY DEF ScanInv, Inv
<1> QED
  BY <1>1, InvNext, IdInvNext, PhaseNext, ApartNext DEF ScanInv

(* A walk finds finitely many items. *)
LEMMA FoundFinite ==
  ASSUME CatalogOK, NEW c, NEW q
  PROVE  IsFiniteSet(Found(c, q))
<1>1. 0 \in Int /\ size \in Int
  BY DEF CatalogOK
<1>a. IsFiniteSet(0 .. size)
  BY <1>1, FS_Interval
<1>2. DOMAIN items \subseteq 0 .. size
  BY DEF CatalogOK
<1>3. Found(c, q) \subseteq 0 .. size
  BY <1>2 DEF Found, Descendants
<1> QED
  BY <1>a, <1>3, FS_Subset

(* The catalog moves on, the cache and the searches do not: what carries   *)
(* the counter's value has missed nothing.                                 *)
LEMMA ScanKeeps ==
  ASSUME SearchInv, WorldStep \/ ScanStep \/ Stop, [Next]_vars, UNCHANGED <<cache, total, call>>
  PROVE  CacheInv'
<1>1. TypeOK /\ IdInv /\ CatalogInv /\ PhaseInv /\ Apart
  BY DEF SearchInv, ScanInv, Inv, CatalogInv, TypeOK
<1>2. SearchTypes /\ BudgetKept /\ Asked /\ Complete
  BY DEF SearchInv, CacheInv
<1>3. updateId \in Nat /\ updateId' \in Nat /\ updateId <= updateId'
  BY <1>1, CounterGrows DEF TypeOK
<1>4. SearchTypes'
  BY <1>2, <1>3 DEF SearchTypes
<1>5. BudgetKept'
  BY <1>2 DEF BudgetKept, Sum
<1>6. ~spent' => ~spent
  BY <1>1, Moves
<1>7. Asked'
  BY <1>2, <1>6 DEF Asked
<1>8. Complete'
  <2> SUFFICES ASSUME ~spent', AllBumped'
               PROVE  Complete'
    BY DEF Complete
  <2>1. updateId' > updateId \/ (updateId' = updateId /\ AllBumped /\ (Sees \/ Sweep))
    BY <1>1, CounterTells
  <2>2. CASE updateId' > updateId
    <3>1. \A c \in DOMAIN cache : cache[c].tag # updateId'
      BY <1>2, <1>3, <2>2 DEF SearchTypes
    <3>2. \A w \in Worker : call[w].stage = "store" => call[w].tag # updateId'
      BY <1>2, <1>3, <2>2 DEF SearchTypes
    <3> QED
      BY <3>1, <3>2 DEF Complete
  <2>3. CASE updateId' = updateId /\ AllBumped /\ (Sees \/ Sweep)
    <3>1. \A c, q : c # -1 => Found(c, q)' \subseteq Found(c, q)
      BY <1>1, <1>6, <2>3, SameFinds, SweepFinds DEF Sweep
    <3>2. ASSUME NEW c \in DOMAIN cache, cache[c].tag = updateId
          PROVE  Found(c, cache[c].key)' \subseteq cache[c].result
      <4>1. PICK q : q = cache[c].key
        OBVIOUS
      <4>2. Found(c, q) \subseteq cache[c].result /\ c # -1
        BY <1>2, <1>6, <2>3, <3>2, <4>1 DEF Complete, Asked
      <4>3. Found(c, q)' \subseteq cache[c].result
        BY <3>1, <4>2
      <4> QED
        BY <4>1, <4>3
    <3>3. ASSUME NEW w \in Worker, call[w].stage = "store", call[w].tag = updateId
          PROVE  Found(call[w].c, call[w].q)' \subseteq call[w].result
      <4>1. PICK c, q : c = call[w].c /\ q = call[w].q
        OBVIOUS
      <4>2. Found(c, q) \subseteq call[w].result /\ c # -1
        BY <1>2, <1>6, <2>3, <3>3, <4>1 DEF Complete, Asked
      <4>3. Found(c, q)' \subseteq call[w].result
        BY <3>1, <4>2
      <4> QED
        BY <4>1, <4>3
    <3> QED
      BY <2>3, <3>2, <3>3 DEF Complete
  <2> QED
    BY <2>1, <2>2, <2>3
<1> QED
  BY <1>4, <1>5, <1>7, <1>8 DEF CacheInv

(* A reset clears the cache, and what searches under way carry is older    *)
(* than the counter from then on.                                          *)
LEMMA ClearKeeps ==
  ASSUME SearchInv, ResetAndClear
  PROVE  CacheInv'
<1>1. TypeOK /\ SearchTypes /\ Asked
  BY DEF SearchInv, ScanInv, Inv, CacheInv
<1>2. updateId \in Nat /\ updateId' = updateId + 1 /\ cache' = NoEntries /\ total' = 0 /\ call' = call
      /\ spent' = spent
  BY <1>1 DEF ResetAndClear, Start, Rescan, Request, ResetForRescan, TypeOK
<1>3. DOMAIN cache' = {} /\ IsFiniteSet({}) /\ Cardinality({}) = 0
  BY <1>2, FS_EmptySet DEF NoEntries
<1>4. SearchTypes'
  BY <1>1, <1>2, <1>3 DEF SearchTypes
<1>5. BudgetKept'
  <2>1. UNION {{c} \X cache'[c].result : c \in DOMAIN cache'} = {}
    BY <1>3
  <2> QED
    BY <1>2, <1>3, <2>1, SearchAssumption DEF BudgetKept, Sum, SearchAssumption
<1>6. Asked'
  BY <1>1, <1>2, <1>3 DEF Asked
<1>7. Complete'
  <2>1. \A w \in Worker : call'[w].stage = "store" => call'[w].tag # updateId'
    BY <1>1, <1>2 DEF SearchTypes
  <2> QED
    BY <1>3, <2>1 DEF Complete
<1> QED
  BY <1>4, <1>5, <1>6, <1>7 DEF CacheInv

(* A search reads the counter before it walks, and stores under the        *)
(* counter it read.                                                        *)
LEMMA SearchKeeps ==
  ASSUME SearchInv, NEW w \in Worker,
         (\E c \in DOMAIN idx, q \in Criteria : SearchBegins(w, c, q)) \/ AskCache(w) \/ Walk(w) \/ Store(w)
  PROVE  CacheInv'
<1>1. CatalogOK /\ IndexAgrees /\ Apart /\ updateId \in Nat
  BY DEF SearchInv, ScanInv, Inv, TypeOK
<1>2. SearchTypes /\ BudgetKept /\ Asked /\ Complete
  BY DEF SearchInv, CacheInv
<1>3. UNCHANGED <<items, kids, updateId, cur, spent>> /\ Sees
  BY DEF SearchBegins, AskCache, Walk, Store, vars, catalog, jobs, Sees
<1>4. \A c, q : Found(c, q)' = Found(c, q)
  BY <1>3, SameFinds
<1>5. AllBumped' <=> AllBumped
  BY <1>3 DEF AllBumped, At
<1>6. DOMAIN call = Worker
  BY <1>2 DEF SearchTypes
<1>7. ASSUME UNCHANGED <<cache, total>>, NEW r, call' = [call EXCEPT ![w] = r],
             r.stage \in SearchStages,
             r.stage # "none" => r.tag \in Nat /\ r.tag <= updateId /\ (spent \/ r.c # -1),
             r.stage = "store" => /\ IsFiniteSet(r.result)
                                  /\ ~spent /\ AllBumped => Found(r.c, r.q) \subseteq r.result
      PROVE  CacheInv'
  <2>1. /\ DOMAIN call' = Worker /\ call'[w] = r /\ \A v \in Worker : v # w => call'[v] = call[v]
        /\ call' = [v \in Worker |-> call'[v]]
    BY <1>2, <1>6, <1>7 DEF SearchTypes
  <2>2. SearchTypes'
    BY <1>2, <1>3, <1>7, <2>1 DEF SearchTypes
  <2>3. BudgetKept'
    BY <1>2, <1>7 DEF BudgetKept, Sum
  <2>4. Asked'
    BY <1>2, <1>3, <1>7, <2>1 DEF Asked
  <2>5. Complete'
    <3> SUFFICES ASSUME ~spent, AllBumped
                 PROVE  Complete'
      BY <1>3, <1>5 DEF Complete
    <3>1. ASSUME NEW c \in DOMAIN cache, cache[c].tag = updateId
          PROVE  Found(c, cache[c].key)' \subseteq cache[c].result
      <4>1. Found(c, cache[c].key) \subseteq cache[c].result
        BY <1>2, <3>1 DEF Complete
      <4>2. PICK q : q = cache[c].key
        OBVIOUS
      <4>3. Found(c, q)' \subseteq cache[c].result
        BY <1>4, <4>1, <4>2
      <4> QED
        BY <1>7, <4>2, <4>3
    <3>2. ASSUME NEW v \in Worker, call'[v].stage = "store", call'[v].tag = updateId
          PROVE  Found(call[v].c, call[v].q)' \subseteq call'[v].result
      <4>1. PICK c, q : c = call'[v].c /\ q = call'[v].q
        OBVIOUS
      <4>2. Found(c, q) \subseteq call'[v].result
        BY <1>2, <1>7, <2>1, <3>2, <4>1 DEF Complete
      <4>3. Found(c, q)' \subseteq call'[v].result
        BY <1>4, <4>2
      <4> QED
        BY <4>1, <4>3
    <3> QED
      BY <1>3, <1>7, <3>1, <3>2 DEF Complete
  <2> QED
    BY <2>2, <2>3, <2>4, <2>5 DEF CacheInv
<1>8. ASSUME NEW c \in DOMAIN idx, NEW q \in Criteria, SearchBegins(w, c, q)
      PROVE  CacheInv'
  <2> DEFINE r == [stage |-> "ask", c |-> c, q |-> q, tag |-> updateId]
  <2>1. spent \/ c # -1
    BY <1>1 DEF IndexAgrees, Apart
  <2>2. call' = [call EXCEPT ![w] = r] /\ UNCHANGED <<cache, total>>
    BY <1>8 DEF SearchBegins
  <2>3. /\ r.stage = "ask" /\ r.stage \in SearchStages /\ r.stage # "store"
        /\ r.tag \in Nat /\ r.tag <= updateId /\ (spent \/ r.c # -1)
    BY <1>1, <2>1 DEF SearchStages
  <2> HIDE DEF r
  <2> QED
    BY <1>7, <2>2, <2>3
<1>9. CASE AskCache(w)
  <2>1. call[w].stage = "ask" /\ UNCHANGED <<cache, total>>
    BY <1>9 DEF AskCache
  <2>2. CASE call' = [call EXCEPT ![w] = NoSearch]
    <3>1. NoSearch.stage = "none"
      BY DEF NoSearch
    <3> QED
      BY <1>7, <2>1, <2>2, <3>1 DEF SearchStages
  <2>3. CASE call' = [call EXCEPT ![w] = [@ EXCEPT !.stage = "walk"]]
    <3> DEFINE r == [call[w] EXCEPT !.stage = "walk"]
    <3>1. r.stage = "walk" /\ r.tag = call[w].tag /\ r.c = call[w].c
      BY <2>1
    <3>2. call' = [call EXCEPT ![w] = r]
      BY <2>3
    <3> HIDE DEF r
    <3> QED
      BY <1>2, <1>7, <2>1, <3>1, <3>2 DEF SearchStages, SearchTypes, Asked
  <2> QED
    BY <1>9, <2>2, <2>3 DEF AskCache
<1>10. CASE Walk(w)
  <2> DEFINE r == [stage |-> "store", c |-> call[w].c, q |-> call[w].q, tag |-> call[w].tag,
                   result |-> Found(call[w].c, call[w].q)]
  <2>1. call[w].stage = "walk" /\ UNCHANGED <<cache, total>> /\ call' = [call EXCEPT ![w] = r]
    BY <1>10 DEF Walk
  <2>2. r.stage = "store" /\ r.c = call[w].c /\ r.q = call[w].q /\ r.tag = call[w].tag
        /\ r.result = Found(call[w].c, call[w].q)
    OBVIOUS
  <2>3. IsFiniteSet(r.result)
    BY <1>1, <2>2, FoundFinite
  <2> HIDE DEF r
  <2> QED
    BY <1>2, <1>7, <2>1, <2>2, <2>3 DEF SearchStages, SearchTypes, Asked
<1>11. CASE Store(w)
  <2>1. call[w].stage = "store" /\ call' = [call EXCEPT ![w] = NoSearch]
    BY <1>11 DEF Store
  <2>2. PICK V : cache' = [k \in (DOMAIN cache \ V) \cup {call[w].c} |->
                            IF k = call[w].c THEN EntryOf(w) ELSE cache[k]]
    BY <1>11 DEF Store
  <2>3. \A v \in Worker : call'[v] = IF v = w THEN NoSearch ELSE call[v]
    BY <1>6, <2>1
  <2>4. NoSearch.stage = "none" /\ EntryOf(w).tag = call[w].tag /\ EntryOf(w).key = call[w].q
        /\ EntryOf(w).result = call[w].result
    BY DEF NoSearch, EntryOf
  <2>5. \A c \in DOMAIN cache' : \/ c = call[w].c /\ cache'[c] = EntryOf(w)
                                 \/ c \in DOMAIN cache /\ cache'[c] = cache[c]
    BY <2>2
  <2>6. SearchTypes'
    <3>1. DOMAIN cache' \subseteq DOMAIN cache \cup {call[w].c}
      BY <2>2
    <3>2. IsFiniteSet(DOMAIN cache')
      BY <1>2, <3>1, FS_AddElement, FS_Subset DEF SearchTypes
    <3>3. \A c \in DOMAIN cache' : IsFiniteSet(cache'[c].result) /\ cache'[c].tag \in Nat /\ cache'[c].tag <= updateId
      BY <1>2, <2>1, <2>4, <2>5 DEF SearchTypes
    <3>4. DOMAIN call' = Worker /\ call' = [v \in Worker |-> call'[v]]
      BY <1>2, <2>1 DEF SearchTypes
    <3> QED
      BY <1>2, <1>3, <2>3, <2>4, <3>2, <3>3, <3>4 DEF SearchTypes, SearchStages
  <2>7. BudgetKept'
    BY <1>2, <1>11, StoreKeepsBudget
  <2>8. Asked'
    BY <1>2, <1>3, <2>1, <2>3, <2>4, <2>5 DEF Asked
  <2>9. Complete'
    <3> SUFFICES ASSUME ~spent, AllBumped
                 PROVE  Complete'
      BY <1>3, <1>5 DEF Complete
    <3>1. ASSUME NEW c \in DOMAIN cache', cache'[c].tag = updateId, NEW q, q = cache'[c].key
          PROVE  Found(c, q)' \subseteq cache'[c].result
      <4>1. Found(c, q) \subseteq cache'[c].result
        BY <1>2, <2>1, <2>4, <2>5, <3>1 DEF Complete
      <4> QED
        BY <1>4, <4>1
    <3>2. ASSUME NEW v \in Worker, call'[v].stage = "store", call'[v].tag = updateId,
                 NEW c, NEW q, c = call'[v].c, q = call'[v].q
          PROVE  Found(c, q)' \subseteq call'[v].result
      <4>1. Found(c, q) \subseteq call'[v].result
        BY <1>2, <2>3, <2>4, <3>2 DEF Complete
      <4> QED
        BY <1>4, <4>1
    <3> QED
      BY <1>3, <3>1, <3>2 DEF Complete
  <2> QED
    BY <2>6, <2>7, <2>8, <2>9 DEF CacheInv
<1> QED
  BY <1>8, <1>9, <1>10, <1>11

LEMMA SearchInvInit == SInit => SearchInv
<1> SUFFICES ASSUME SInit
             PROVE  SearchInv
  OBVIOUS
<1>1. Init /\ cache = NoEntries /\ total = 0 /\ call = [w \in Worker |-> NoSearch]
  BY DEF SInit
<1>2. PhaseInv
  BY <1>1 DEF Init, PhaseInv, NoTodo, NoCalls, NoCall
<1>3. Apart
  BY <1>1 DEF Init, Apart, At, NoItems, NoCalls, NoCall
<1>4. DOMAIN cache = {} /\ IsFiniteSet({}) /\ Cardinality({}) = 0
  BY <1>1, FS_EmptySet DEF NoEntries
<1>5. \A w \in Worker : call[w].stage = "none"
  BY <1>1 DEF NoSearch
<1>6. SearchTypes
  BY <1>1, <1>4, <1>5 DEF SearchTypes, SearchStages
<1>7. BudgetKept
  <2>1. UNION {{c} \X cache[c].result : c \in DOMAIN cache} = {}
    BY <1>4
  <2>2. Sum(DOMAIN cache) = 0
    BY <1>4, <2>1 DEF Sum
  <2>3. total = 0 /\ 0 <= MaxContainers /\ 0 <= MaxItems
    BY <1>1, SearchAssumption DEF SearchAssumption
  <2> QED
    BY <1>4, <2>2, <2>3 DEF BudgetKept
<1>8. Asked /\ Complete
  BY <1>4, <1>5 DEF Asked, Complete
<1> QED
  BY <1>1, <1>2, <1>3, <1>6, <1>7, <1>8, InvInit, IdInvInit DEF SearchInv, ScanInv, CacheInv

LEMMA SearchInvNext ==
  ASSUME SearchInv, [SNext]_svars
  PROVE  SearchInv'
<1>1. [Next]_vars
  BY SearchIsAside
<1>2. ScanInv'
  BY <1>1, ScanInvNext DEF SearchInv
<1>3. ASSUME (WorldStep \/ ScanStep \/ Stop) /\ UNCHANGED <<cache, total, call>> PROVE CacheInv'
  BY <1>1, <1>3, ScanKeeps
<1>4. ASSUME ResetAndClear PROVE CacheInv'
  BY <1>4, ClearKeeps
<1>5. ASSUME SearchStep PROVE CacheInv'
  BY <1>5, SearchKeeps DEF SearchStep
<1>6. ASSUME UNCHANGED svars PROVE CacheInv'
  <2>1. UNCHANGED <<items, kids, updateId, cur, spent, cache, total, call>>
    BY <1>6 DEF svars, vars, catalog, jobs
  <2>2. \A c, q : Found(c, q)' = Found(c, q)
    BY <2>1, SameFinds DEF Sees
  <2>3. SearchTypes' /\ BudgetKept' /\ Asked'
    BY <2>1 DEF SearchInv, CacheInv, SearchTypes, BudgetKept, Sum, Asked
  <2>4. Complete'
    BY <2>1 DEF SearchInv, CacheInv, Complete, AllBumped, At, Found, Descendants, ListsBelow,
       KidsOf
  <2> QED
    BY <2>3, <2>4 DEF CacheInv
<1>7. CacheInv'
  BY <1>3, <1>4, <1>5, <1>6 DEF SNext
<1> QED
  BY <1>2, <1>7 DEF SearchInv

(* The catalog's invariant and that of the search cache hold in every      *)
(* state of scans and searches together.                                   *)
THEOREM SearchInvHolds == SSpec => []SearchInv
<1>1. SInit => SearchInv
  BY SearchInvInit
<1>2. SearchInv /\ [SNext]_svars => SearchInv'
  BY SearchInvNext
<1> QED
  BY <1>1, <1>2, PTL DEF SSpec

(* The total the cache keeps is what its entries hold, and neither budget  *)
(* is exceeded, whatever was evicted, overwritten and cleared.             *)
THEOREM BudgetsAreKept == SSpec => []BudgetKept
<1>1. SearchInv => BudgetKept
  BY DEF SearchInv, CacheInv
<1> QED
  BY <1>1, SearchInvHolds, PTL

(* A cached result under the counter of now misses nothing of the catalog, *)
(* once every publisher has bumped the counter.                            *)
THEOREM NothingIsMissed == SSpec => []SearchMissesNothing
<1>1. SearchInv => SearchMissesNothing
  BY DEF SearchInv, CacheInv, Complete, AllBumped, SearchMissesNothing
<1> QED
  BY <1>1, SearchInvHolds, PTL

=============================================================================
