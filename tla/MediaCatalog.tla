---------------------------- MODULE MediaCatalog ----------------------------
(***************************************************************************)
(* The media catalog of src/media_sources_common.cpp and the scan that     *)
(* fills it.  A tree of nodes (folders, playlists, files, streams) is what *)
(* the configured sources hold; it changes while the server runs.  A scan  *)
(* loads the id database, opens a container per source, lets one job per   *)
(* source walk its tree, and then sweeps the catalog and saves the ids.    *)
(*                                                                         *)
(* m_items is a function from slots to items: a slot is the position at    *)
(* which the item was pushed, so that the order of slots is the order of   *)
(* the vector, and a sweep keeps the slots of the items it keeps.          *)
(***************************************************************************)
EXTENDS MediaDatabase, FiniteSets

CONSTANTS Node,         \* folders, playlists, files and streams
          Top,          \* what the parent of a source is: the root container
          Parent,       \* [Node -> Node \cup {Top}]
          Kind,         \* [Node -> {"folder", "playlist", "file", "stream"}]
          Removable,    \* nodes that users remove and put back
          Flaky,        \* nodes that may be unreachable for a while
          AutoScan,     \* backgroundScanEnabled
          MaxGen,       \* bound: no reset beyond this generation
          MaxUpdateId   \* bound: no scan without a reset starts at or beyond it

Sources == {n \in Node : Parent[n] = Top}

ASSUME NodeAssumption ==
  /\ Top \notin Node
  /\ Parent \in [Node -> Node \cup {Top}]
  /\ Kind \in [Node -> {"folder", "playlist", "file", "stream"}]
  /\ Removable \subseteq Node /\ Flaky \subseteq Node
  /\ AutoScan \in BOOLEAN /\ MaxGen \in Nat /\ MaxUpdateId \in Nat

(* The nodes are a forest: no node is below itself, and only a folder or a *)
(* playlist has nodes below it.                                            *)
ASSUME TreeAssumption ==
  /\ \A S \in SUBSET Node : S # {} => \E n \in S : Parent[n] \notin S
  /\ \A n \in Node : Parent[n] # Top => Kind[Parent[n]] \in {"folder", "playlist"}

VARIABLES
  gone, down,      \* the world: nodes removed, nodes unreachable
  file,            \* media-cache.tsv
  db,              \* the MediaDatabase of the running scan
  items, idx, kids,\* m_items, m_idToIndex, m_childrenByParent
  size,            \* the last slot used
  gen,             \* m_currentGeneration
  updateId,        \* m_systemUpdateId
  pc,              \* the scan: "idle", "open", "jobs", "check", "save"
  unopened,        \* sources the scan has not opened yet
  todo,            \* per source: <<node, parent id>> still to visit
  cur,             \* per source: what its job is in the middle of
  cancelled,       \* ScanCancellation
  up,              \* the server runs
  pending,         \* who has reset the catalog and waits for its scan
  owner,           \* who started the running scan
  spent            \* history: the id space has run out once

world   == <<gone, down>>
catalog == <<items, idx, kids, size, gen>>
jobs    == <<unopened, todo, cur>>
server  == <<cancelled, up, pending, owner>>
vars    == <<world, file, db, catalog, updateId, pc, jobs, server, spent>>

-----------------------------------------------------------------------------
(* The world.                                                              *)

Path[n \in Node] == {n} \cup IF Parent[n] = Top THEN {} ELSE Path[Parent[n]]

Reachable == {n \in Node : Path[n] \cap (gone \cup down) = {}}

(* what a folder's listing or a playlist's text names *)
Entries(n) == {c \in Node : Parent[c] = n /\ c \notin gone}

Remove(n)  == n \in Removable \ gone /\ gone' = gone \cup {n} /\ UNCHANGED down
PutBack(n) == n \in gone /\ gone' = gone \ {n} /\ UNCHANGED down
GoDown(n)  == n \in Flaky \ down /\ down' = down \cup {n} /\ UNCHANGED gone
ComeUp(n)  == n \in down /\ down' = down \ {n} /\ UNCHANGED gone

WorldStep ==
  /\ \E n \in Node : Remove(n) \/ PutBack(n) \/ GoDown(n) \/ ComeUp(n)
  /\ UNCHANGED <<file, db, catalog, updateId, pc, jobs, server, spent>>

-----------------------------------------------------------------------------
(* The keys of the database.  A scan error is recorded under a key that no *)
(* item has: the path of a source, or a container key without the prefix   *)
(* that ContainerRecordKey puts before it.                                 *)

Key == {"media", "container", "error"} \X Int \X Node

MediaKey(n, pid)     == <<"media", pid, n>>
ContainerKey(n, pid) == <<"container", pid, n>>
ErrorKey(n, pid)     == <<"error", pid, n>>

IsFolder(n) == Kind[n] \in {"folder", "playlist"}

Take(key, id) ==
  /\ id \in StableIds(db, key)
  /\ db' = GetOrCreate(db, key, id)
  /\ spent' = (spent \/ Spends(db, key))

ScanError(key) ==
  \E id \in StableIds(db, key) :
    /\ db' = RecordScanError(db, key, id)
    /\ spent' = (spent \/ Spends(db, key))

-----------------------------------------------------------------------------
(* The catalog.                                                            *)

RootItem == [id |-> 0, parent |-> -1, node |-> Top, folder |-> TRUE, gen |-> gen + 1]

NoItems == [s \in {} |-> RootItem]
NoIndex == [i \in {} |-> 0]
NoKids  == [p \in {} |-> {}]

ItemOf(n, pid, id) ==
  [id |-> id, parent |-> pid, node |-> n, folder |-> IsFolder(n), gen |-> gen]

KidsOf(p) == IF p \in DOMAIN kids THEN kids[p] ELSE {}

(* already published in this generation *)
Current(id) == id \in DOMAIN idx /\ items[idx[id]].gen = gen

(* fault: the index keeps leading to the first copy *)
AppendKeepsIndex(it) ==
  /\ size' = size + 1
  /\ items' = [s \in DOMAIN items \cup {size + 1} |-> IF s = size + 1 THEN it ELSE items[s]]
  /\ idx' = [i \in DOMAIN idx \cup {it.id} |->
               IF i \in DOMAIN idx THEN idx[i] ELSE size + 1]

Append(it) ==
  /\ size' = size + 1
  /\ items' = [s \in DOMAIN items \cup {size + 1} |-> IF s = size + 1 THEN it ELSE items[s]]
  /\ idx' = [i \in DOMAIN idx \cup {it.id} |-> IF i = it.id THEN size + 1 ELSE idx[i]]

Push(it) ==
  /\ Append(it)
  /\ kids' = [p \in DOMAIN kids \cup {it.parent} |->
                IF p = it.parent THEN KidsOf(p) \cup {size + 1} ELSE kids[p]]
  /\ UNCHANGED gen

(* PublishContainer and PublishItem, as far as they hold m_mutex: the      *)
(* counter is bumped after the unlock, in a step of its own.               *)
Publish(it) == IF Current(it.id) THEN UNCHANGED catalog ELSE Push(it)

(* fault: the catalog is cleared when a rescan begins *)
ResetClears ==
  /\ gen' = gen + 1
  /\ updateId' = updateId + 1
  /\ size' = 1 /\ items' = [s \in {1} |-> RootItem]
  /\ idx' = [i \in {0} |-> 1] /\ kids' = NoKids

(* The catalog's part of ResetForRescan. *)
ResetForRescan ==
  /\ gen' = gen + 1
  /\ updateId' = updateId + 1
  /\ IF 0 \in DOMAIN idx
       THEN /\ items' = [items EXCEPT ![idx[0]].gen = gen + 1]
            /\ UNCHANGED <<idx, size>>
       ELSE Append(RootItem)
  /\ UNCHANGED kids

(* fault: the generation before counts as current *)
SweptLate == {s \in DOMAIN items : items[s].gen + 1 >= gen}

Swept == {s \in DOMAIN items : items[s].gen = gen}

(* the last item of a set of slots that has this id *)
Newest(S, id) ==
  CHOOSE s \in S : items[s].id = id /\ \A t \in S : items[t].id = id => t <= s

SweepStaleEntries ==
  /\ items' = [s \in Swept |-> items[s]]
  /\ idx' = [i \in {items[s].id : s \in Swept} |-> Newest(Swept, i)]
  /\ kids' = [p \in {items[s].parent : s \in Swept} |-> {s \in Swept : items[s].parent = p}]
  /\ UNCHANGED <<size, gen>>

-----------------------------------------------------------------------------
(* One job per source.  cur[s] is the call the job is in the middle of:    *)
(* "publish" has an id and not yet published, "bump" has published and not *)
(* yet bumped the counter, "published" has still to use what it published. *)

NoCall == [stage |-> "none", node |-> Top, pid |-> 0, id |-> 0, es |-> {}]

NoTodo  == [s \in Sources |-> {}]
NoCalls == [s \in Sources |-> NoCall]

Call(st, n, pid, id, es) == [stage |-> st, node |-> n, pid |-> pid, id |-> id, es |-> es]

At(s, st) == cur[s].stage = st

Enter(s, call) == cur' = [cur EXCEPT ![s] = call]

PublishContainer(s, n, pid, es) ==
  \E id \in StableIds(db, ContainerKey(n, pid)) :
    /\ Take(ContainerKey(n, pid), id)
    /\ Publish(ItemOf(n, pid, id))
    /\ Enter(s, Call(IF Current(id) THEN "published" ELSE "bump", n, pid, id, es))

(* The prelude of Scan: one source after the other, before any job runs.   *)
OpenSource(s) ==
  /\ pc = "open" /\ s \in unopened
  /\ \A t \in Sources : ~At(t, "bump")
  /\ unopened' = unopened \ {s}
  /\ \/ /\ Kind[s] # "playlist" /\ s \notin Reachable
        /\ ScanError(ErrorKey(s, 0))
        /\ UNCHANGED <<catalog, todo, cur>>
     \/ /\ Kind[s] = "file" /\ s \in Reachable
        /\ todo' = [todo EXCEPT ![s] = {<<s, 0>>}]
        /\ UNCHANGED <<db, spent, catalog, cur>>
     \/ /\ Kind[s] = "folder" /\ s \in Reachable
        /\ PublishContainer(s, s, 0, {})
        /\ UNCHANGED todo
     \/ /\ Kind[s] = "playlist"
        /\ PublishContainer(s, s, 0, {s})
        /\ UNCHANGED todo
  /\ UNCHANGED <<world, file, updateId, pc, server>>

StartJobs ==
  /\ pc = "open" /\ unopened = {} /\ \A t \in Sources : ~At(t, "bump")
  /\ pc' = "jobs"
  /\ UNCHANGED <<world, file, db, catalog, updateId, jobs, server, spent>>

BumpUpdateId(s) ==
  /\ At(s, "bump")
  /\ updateId' = updateId + 1
  /\ Enter(s, [cur[s] EXCEPT !.stage = "published"])
  /\ UNCHANGED <<world, file, db, catalog, pc, unopened, todo, server, spent>>

(* A playlist's media entries, and a source that is a single file, are     *)
(* added without a look at the cancel flag; every other loop stops at it,  *)
(* and drops what is left of its folder or playlist.                       *)
Unbroken(t) ==
  /\ Kind[t[1]] \in {"file", "stream"}
  /\ Parent[t[1]] \in {Top} \cup {n \in Node : Kind[n] = "playlist"}

Discard(s) ==
  /\ pc = "jobs" /\ At(s, "none") /\ cancelled
  /\ \E t \in todo[s] :
       /\ ~Unbroken(t)
       /\ todo' = [todo EXCEPT ![s] = {u \in @ : Unbroken(u) \/ u[2] # t[2]}]
  /\ UNCHANGED <<world, file, db, catalog, updateId, pc, unopened, cur, server, spent>>

(* fault: the task stays in the queue *)
TakeTaskKeeps(s, t) ==
  /\ pc = "jobs" /\ At(s, "none") /\ t \in todo[s]
  /\ ~cancelled \/ Unbroken(t)
  /\ UNCHANGED <<world, file, updateId, pc, unopened, server, todo>>

TakeTask(s, t) ==
  /\ pc = "jobs" /\ At(s, "none") /\ t \in todo[s]
  /\ ~cancelled \/ Unbroken(t)
  /\ todo' = [todo EXCEPT ![s] = @ \ {t}]
  /\ UNCHANGED <<world, file, updateId, pc, unopened, server>>

(* ScanFolder, at an entry that is a folder. *)
VisitFolder(s, n, pid) ==
  /\ Kind[n] = "folder"
  /\ TakeTask(s, <<n, pid>>)
  /\ PublishContainer(s, n, pid, {})

(* ScanOnePlaylistNode, up to its container. *)
VisitPlaylist(s, n, pid) ==
  /\ Kind[n] = "playlist"
  /\ TakeTask(s, <<n, pid>>)
  /\ \/ /\ n \notin Reachable
        /\ ScanError(ErrorKey(n, pid))
        /\ UNCHANGED <<catalog, cur>>
     \/ /\ n \in Reachable /\ Entries(n) = {}
        /\ UNCHANGED <<db, spent, catalog, cur>>
     \/ /\ n \in Reachable /\ Entries(n) # {}
        /\ PublishContainer(s, n, pid, Entries(n))

(* AddMediaFile, up to the id. *)
VisitFile(s, n, pid) ==
  /\ Kind[n] \in {"file", "stream"}
  /\ TakeTask(s, <<n, pid>>)
  /\ \E id \in StableIds(db, MediaKey(n, pid)) :
       /\ Take(MediaKey(n, pid), id)
       /\ Enter(s, Call("publish", n, pid, id, {}))
  /\ UNCHANGED catalog

Visit(s) ==
  \E t \in todo[s] : \/ VisitFolder(s, t[1], t[2])
                     \/ VisitPlaylist(s, t[1], t[2])
                     \/ VisitFile(s, t[1], t[2])

(* AddMediaFile, from the file's size to PublishItem. *)
PublishItem(s) ==
  /\ At(s, "publish")
  /\ \/ /\ Kind[cur[s].node] = "file" /\ cur[s].node \notin Reachable
        /\ Enter(s, NoCall)
        /\ UNCHANGED catalog
     \/ /\ Kind[cur[s].node] = "stream" \/ cur[s].node \in Reachable
        /\ Publish(ItemOf(cur[s].node, cur[s].pid, cur[s].id))
        /\ Enter(s, [cur[s] EXCEPT !.stage = IF Current(cur[s].id) THEN "published" ELSE "bump"])
  /\ UNCHANGED <<world, file, db, updateId, pc, unopened, todo, server, spent>>

(* What a job does with what it has published: it marks a media item's     *)
(* record, lists a folder, goes through a playlist's entries.              *)
FinishCall(s) ==
  /\ pc = "jobs" /\ At(s, "published")
  /\ Enter(s, NoCall)
  /\ LET n == cur[s].node
         below(es) == {<<c, cur[s].id>> : c \in es}
     IN  \/ /\ ~IsFolder(n)
            /\ db' = MarkScanSuccess(db, MediaKey(n, cur[s].pid))
            /\ UNCHANGED <<todo, spent>>
         \/ /\ Kind[n] = "folder" /\ cancelled
            /\ UNCHANGED <<todo, db, spent>>
         \/ /\ Kind[n] = "folder" /\ ~cancelled /\ n \in Reachable
            /\ todo' = [todo EXCEPT ![s] = @ \cup below(Entries(n))]
            /\ UNCHANGED <<db, spent>>
         \/ /\ Kind[n] = "folder" /\ ~cancelled /\ n \notin Reachable
            /\ ScanError(ErrorKey(n, cur[s].pid))
            /\ UNCHANGED todo
         \/ /\ Kind[n] = "playlist"
            /\ todo' = [todo EXCEPT ![s] = @ \cup below(cur[s].es)]
            /\ UNCHANGED <<db, spent>>
  /\ UNCHANGED <<world, file, catalog, updateId, pc, unopened, server>>

-----------------------------------------------------------------------------
(* The scan as a whole.                                                    *)

LoadDatabase ==
  /\ \E d \in Load(file) :
       /\ db' = BeginScanPass(d)
       /\ spent' = (spent \/ d.nextId < Base)
  /\ pc' = "open"
  /\ unopened' = Sources
  /\ todo' = NoTodo /\ cur' = NoCalls

(* After a reset, or at the server's own initiative without one. *)
BeginScan ==
  /\ pc = "idle"
  /\ \/ pending # "no" /\ owner' = pending
     \/ pending = "no" /\ AutoScan /\ up /\ gen > 0 /\ updateId < MaxUpdateId /\ owner' = "auto"
  /\ pending' = "no"
  /\ LoadDatabase
  /\ UNCHANGED <<world, file, catalog, updateId, cancelled, up>>

JobsDone ==
  /\ pc = "jobs" /\ \A s \in Sources : todo[s] = {} /\ At(s, "none")
  /\ pc' = "check"
  /\ updateId' = updateId + 1
  /\ UNCHANGED <<world, file, db, catalog, jobs, server, spent>>

EndCancelled ==
  /\ pc = "check" /\ cancelled
  /\ pc' = "idle" /\ owner' = "no" /\ db' = NewDb
  /\ UNCHANGED <<world, file, catalog, updateId, jobs, cancelled, up, pending, spent>>

Sweep ==
  /\ pc = "check" /\ ~cancelled
  /\ SweepStaleEntries
  /\ pc' = "save"
  /\ UNCHANGED <<world, file, db, updateId, jobs, server, spent>>

EndScan ==
  /\ pc' = "idle" /\ owner' = "no" /\ db' = NewDb
  /\ UNCHANGED <<world, catalog, updateId, jobs, cancelled, up, pending, spent>>

(* The file is written, or the save has failed and the old one is there. *)
PruneAndSave ==
  /\ pc = "save" /\ EndScan
  /\ file' \in {FileOf(PruneUntouched(db)), file}

PruneAndCutShort ==
  /\ pc = "save" /\ EndScan
  /\ \E id \in Base .. IdMax : file' = FileBelow(PruneUntouched(db), id)

JobStep == \E s \in Sources : Visit(s) \/ Discard(s) \/ PublishItem(s) \/ FinishCall(s)

ScanStep ==
  \/ BeginScan \/ (\E s \in Sources : OpenSource(s)) \/ StartJobs
  \/ (\E s \in Sources : BumpUpdateId(s))
  \/ JobStep \/ JobsDone \/ EndCancelled \/ Sweep \/ PruneAndSave \/ PruneAndCutShort

-----------------------------------------------------------------------------
(* The server around it.                                                   *)

Request(who) ==
  /\ gen < MaxGen
  /\ cancelled' = FALSE
  /\ ResetForRescan
  /\ pending' = who
  /\ UNCHANGED <<world, file, db, pc, jobs, owner, spent>>

Start == ~up /\ pc = "idle" /\ pending = "no" /\ up' = TRUE /\ Request("start")

(* m_rescanMutex: one Rescan at a time, until its scan has ended.  It clears *)
(* the cancel flag before it asks whether the server runs.                 *)
Rescan ==
  /\ pending = "no" /\ owner # "rescan" /\ gen > 0
  /\ Request("rescan")
  /\ UNCHANGED up

(* A scan the server has not started before the stop it does not start     *)
(* after it; a Rescan that finds the server stopped scans all the same.    *)
Stop ==
  /\ up /\ up' = FALSE
  /\ cancelled' = TRUE
  /\ pending' \in {"no"} \cup (IF pending = "rescan" THEN {pending} ELSE {})
  /\ UNCHANGED <<world, file, db, catalog, updateId, pc, jobs, owner, spent>>

Init ==
  /\ gone \in SUBSET Removable /\ down = {}
  /\ file = EmptyFile /\ spent = FALSE
  /\ db = NewDb
  /\ items = NoItems /\ idx = NoIndex /\ kids = NoKids /\ size = 0 /\ gen = 0
  /\ updateId = 1
  /\ pc = "idle" /\ unopened = {} /\ todo = NoTodo /\ cur = NoCalls
  /\ cancelled = FALSE /\ up = FALSE /\ pending = "no" /\ owner = "no"

(* The process dies and is started again: only the file is left. *)
Crash ==
  /\ gen > 0
  /\ db' = NewDb
  /\ items' = NoItems /\ idx' = NoIndex /\ kids' = NoKids /\ size' = 0 /\ gen' = 0
  /\ updateId' = 1
  /\ pc' = "idle" /\ unopened' = {} /\ todo' = NoTodo /\ cur' = NoCalls
  /\ cancelled' = FALSE /\ up' = FALSE /\ pending' = "no" /\ owner' = "no"
  /\ UNCHANGED <<world, file, spent>>

Next == WorldStep \/ ScanStep \/ Start \/ Rescan \/ Stop \/ Crash

Spec == Init /\ [][Next]_vars
FairSpec == Spec /\ WF_vars(ScanStep)

-----------------------------------------------------------------------------
Stages == {"none", "publish", "bump", "published"}
Whos   == {"no", "start", "rescan", "auto"}

Item == [id : Int, parent : Int, node : Node \cup {Top}, folder : BOOLEAN, gen : Nat]
Calls == [stage : Stages, node : Node \cup {Top}, pid : Int, id : Int, es : SUBSET Node]

RecsOK(recs) == recs = [k \in DOMAIN recs |-> recs[k]] /\ \A k \in DOMAIN recs : recs[k] \in Int

DbOK(d) == RecsOK(d.recs) /\ d.nextId \in Int /\ \A i \in d.freed : i \in Int

CatalogOK ==
  /\ size \in Nat /\ gen \in Nat
  /\ items = [s \in DOMAIN items |-> items[s]]
  /\ \A s \in DOMAIN items : s \in Nat /\ s <= size /\ items[s] \in Item /\ items[s].gen <= gen
  /\ idx = [i \in DOMAIN idx |-> idx[i]] /\ \A i \in DOMAIN idx : i \in Int /\ idx[i] \in Nat
  /\ kids = [p \in DOMAIN kids |-> kids[p]]
  /\ \A p \in DOMAIN kids : p \in Int /\ \A s \in kids[p] : s \in Nat

JobsOK ==
  /\ unopened \subseteq Sources
  /\ DOMAIN todo = Sources /\ \A s \in Sources : \A t \in todo[s] : t \in Node \X Int
  /\ cur \in [Sources -> Calls]

(* The type invariant; every slot lies within m_items, and no item is of a *)
(* generation that has not begun.                                          *)
TypeOK ==
  /\ gone \subseteq Node /\ down \subseteq Node
  /\ RecsOK(file.recs) /\ DbOK(db) /\ CatalogOK /\ JobsOK
  /\ updateId \in Nat
  /\ pc \in {"idle", "open", "jobs", "check", "save"}
  /\ cancelled \in BOOLEAN /\ up \in BOOLEAN /\ spent \in BOOLEAN
  /\ pending \in Whos /\ owner \in Whos

(* The two indexes agree with the items: an id leads to the newest item    *)
(* that has it, every item has its id in the index, and every item but the *)
(* root is listed under its parent and nowhere else (what TryGetChildren,  *)
(* GetItem and the sweep rely on).                                         *)
IndexAgrees ==
  /\ \A i \in DOMAIN idx : idx[i] \in DOMAIN items /\ items[idx[i]].id = i
  /\ \A s \in DOMAIN items : items[s].id \in DOMAIN idx /\ s <= idx[items[s].id]
  /\ \A s \in DOMAIN items : items[s].node # Top =>
       items[s].parent \in DOMAIN kids /\ s \in kids[items[s].parent]
  /\ \A p \in DOMAIN kids : \A s \in kids[p] : s \in DOMAIN items /\ items[s].parent = p

(* A generation holds an id at most once, however scans, resets and stops  *)
(* interleave: what makes the sweep leave one copy of every item, although *)
(* PublishItem only looks at the copy the index leads to.                  *)
OneCopyPerGeneration ==
  \A s, t \in DOMAIN items :
    items[s].id = items[t].id /\ items[s].gen = items[t].gen => s = t

(* Until the id space is spent, no two records share an id: neither in the *)
(* database of the running scan nor in media-cache.tsv.                    *)
UniqueIds == ~spent => Injective(db.recs) /\ Injective(file.recs)

(* What every reader of the catalog and every save relies on.              *)
CatalogConsistent == TypeOK /\ IndexAgrees /\ OneCopyPerGeneration /\ UniqueIds

(* Until then, a save never gives a saved key another id, whatever scans   *)
(* were cancelled, saves failed and crashes came in between.               *)
SavedIdsStay ==
  [][~spent' => \A k \in DOMAIN file.recs \cap DOMAIN file'.recs : file'.recs[k] = file.recs[k]]_vars

(* A scan that was asked for is carried out and ends, unless the server is *)
(* stopped first: Rescan, which waits for it, returns.                     *)
RescanEnds == pending # "no" ~> pending = "no" /\ pc = "idle"

=============================================================================
