----------------------- MODULE PlaylistDispatcher_proof -----------------------
(***************************************************************************)
(* What is proved of PlaylistDispatcher for every set of sources, every    *)
(* graph of playlists, and any number of workers and limits: the group's   *)
(* count and the limiter's slots are exact, a dispatcher that ends leaves  *)
(* nothing behind, and a source that is done has missed nothing.           *)
(***************************************************************************)
EXTENDS Functions, PlaylistDispatcher, FiniteSetTheorems, TLAPS

(* Nodes that a playlist can be at: paths that are not empty. *)
Path == Seq(Playlist) \ {<<>>}

Types ==
  /\ pc \in [Source -> Labels]
  /\ left \in [Source -> SUBSET Playlist]
  /\ queue \in [Source -> SUBSET Path]
  /\ held \in [Source -> Seq(Playlist)]
  /\ \A s \in Source : Holds(s) \subseteq Path
  /\ pending \in [Source -> Nat] /\ discovered \in [Source -> Nat]
  /\ pool \subseteq Source \X Path
  /\ task \in [Worker -> Tasks \cup {Idle}]
  /\ \A w \in Worker : task[w].st # "idle" => task[w].n \in Path
  /\ visited \in [Source -> SUBSET Path] /\ opened \in [Source -> SUBSET Path]
  /\ threw \in [Source -> BOOLEAN]

PoolOf(s) == {t[2] : t \in {u \in pool : u[1] = s}}
TaskOf(s) == {task[w].n : w \in Runs(s)}

(* A node is in one place only. *)
Distinct(s) ==
  /\ queue[s] \cap Holds(s) = {} /\ queue[s] \cap PoolOf(s) = {} /\ Holds(s) \cap PoolOf(s) = {}
  /\ \A w \in Runs(s) : task[w].n \notin queue[s] \cup Holds(s) \cup PoolOf(s)
  /\ \A w, v \in Runs(s) : task[w].n = task[v].n => w = v

(* A node whose children are not queued yet has none of its descendants    *)
(* outstanding, so that its children are new when they are queued.         *)
Extends(m, n) == Len(n) < Len(m) /\ \A i \in 1 .. Len(n) : m[i] = n[i]
Before == {"scan", "entries", "count", "limit"}
Open(s) ==
  queue[s] \cup Holds(s) \cup PoolOf(s) \cup {task[w].n : w \in {v \in Runs(s) : task[v].st \in Before}}
NoneBelow(s) == \A m \in Outstanding(s), n \in Open(s) : ~Extends(m, n)

Exact(s) == IsFiniteSet(Outstanding(s)) /\ pending[s] = Cardinality(Outstanding(s))

(* What was named is seen, outstanding, or the child of a node at hand. *)
Named(s) == {<<r>> : r \in Roots[s] \ left[s]} \cup UNION {Children(n) : n \in opened[s]}
Read == {"entries", "count", "limit"}
Owed(s) == UNION {Children(task[w].n) : w \in {v \in Runs(s) : task[v].st \in Read}}
Complete(s) ==
  ~quit /\ ~threw[s] => visited[s] \cup Outstanding(s) \cup Owed(s) = Named(s)
Seen(s) ==
  \A w \in Runs(s) : /\ task[w].st # "scan" => task[w].n \in visited[s]
                     /\ task[w].st = "unwind" => threw[s]

Rested(s) ==
  /\ pc[s] \in {"queued", "next", "wait", "done"} => Outstanding(s) = {}
  /\ pc[s] = "done" => left[s] = {} \/ quit
  /\ left[s] \subseteq Roots[s]

SourceFits(s) == Distinct(s) /\ NoneBelow(s) /\ Exact(s) /\ Complete(s) /\ Seen(s) /\ Rested(s)

Flags == cancelled \in BOOLEAN /\ quit \in BOOLEAN /\ (cancelled => quit)

Inv == Types /\ Flags /\ \A s \in Source : SourceFits(s)

-----------------------------------------------------------------------------
(* A node that is submitted is in the pool's queue with its source. *)
LEMMA InPool ==
  ASSUME pool \subseteq Source \X Path, NEW s \in Source, NEW n
  PROVE  n \in PoolOf(s) <=> <<s, n>> \in pool
<1>1. ASSUME NEW u \in pool, u[1] = s
      PROVE  u = <<s, u[2]>>
  BY <1>1
<1>2. ASSUME n \in PoolOf(s) PROVE <<s, n>> \in pool
  <2>1. PICK u \in {u \in pool : u[1] = s} : n = u[2]
    BY <1>2 DEF PoolOf
  <2> QED
    BY <1>1, <2>1
<1>3. ASSUME <<s, n>> \in pool PROVE n \in PoolOf(s)
  BY <1>3 DEF PoolOf
<1> QED
  BY <1>2, <1>3

(* The same after a step *)
LEMMA InPoolNext ==
  ASSUME pool' \subseteq Source \X Path, NEW s \in Source, NEW n
  PROVE  n \in PoolOf(s)' <=> <<s, n>> \in pool'
<1>1. ASSUME NEW u \in pool', u[1] = s
      PROVE  u = <<s, u[2]>>
  BY <1>1
<1>2. ASSUME n \in PoolOf(s)' PROVE <<s, n>> \in pool'
  <2>1. PICK u \in {u \in pool' : u[1] = s} : n = u[2]
    BY <1>2 DEF PoolOf
  <2> QED
    BY <1>1, <2>1
<1>3. ASSUME <<s, n>> \in pool' PROVE n \in PoolOf(s)'
  BY <1>3 DEF PoolOf
<1> QED
  BY <1>2, <1>3

(* The four places, by name *)
LEMMA Places ==
  ASSUME NEW s
  PROVE  /\ Outstanding(s) = queue[s] \cup Holds(s) \cup PoolOf(s) \cup TaskOf(s)
         /\ Outstanding(s)' = queue'[s] \cup Holds(s)' \cup PoolOf(s)' \cup TaskOf(s)'
BY DEF Outstanding, PoolOf, TaskOf

(* Children: one level below, and no more than there are playlists. *)
LEMMA ChildrenFit ==
  ASSUME NEW n \in Path
  PROVE  /\ Children(n) \subseteq Path /\ IsFiniteSet(Children(n))
         /\ \A m \in Children(n) : Len(m) = Len(n) + 1 /\ \A i \in 1 .. Len(n) : m[i] = n[i]
<1>1. Last(n) \in Playlist /\ Len(n) \in Nat \ {0}
  BY DEF Path, Last
<1>2. Nested[Last(n)] \subseteq Playlist
  BY <1>1, DispatcherAssumption DEF DispatcherAssumption
<1>3. IsFiniteSet(Nested[Last(n)])
  BY <1>2, DispatcherAssumption, FS_Subset DEF DispatcherAssumption
<1>4. IsFiniteSet(Children(n))
  <2> DEFINE A == Nested[Last(n)]
             B == Children(n)
             f == [c \in A |-> Append(n, c)]
  <2>1. \A b \in B : \E c \in A : f[c] = b
    BY DEF Children
  <2>2. f \in [A -> B]
    BY DEF Children
  <2>3. f \in Surjection(A, B)
    BY <2>1, <2>2 DEF Surjection
  <2>4. IsFiniteSet(A)
    BY <1>3
  <2> HIDE DEF A, B, f
  <2>5. IsFiniteSet(B)
    BY <2>3, <2>4, FS_Surjection
  <2> QED
    BY <2>5 DEF B
<1>5. ASSUME NEW c \in Playlist
      PROVE  /\ Append(n, c) \in Path /\ Len(Append(n, c)) = Len(n) + 1
             /\ \A i \in 1 .. Len(n) : Append(n, c)[i] = n[i]
  BY <1>5 DEF Path
<1>6. ASSUME NEW m \in Children(n)
      PROVE  /\ m \in Path /\ Len(m) = Len(n) + 1
             /\ \A i \in 1 .. Len(n) : m[i] = n[i]
  <2>1. PICK c \in Nested[Last(n)] : m = Append(n, c)
    BY DEF Children
  <2>2. c \in Playlist
    BY <1>2
  <2> QED
    BY <1>5, <2>1, <2>2
<1> QED
  BY <1>4, <1>6

(* A new node that is its parent's child is below whatever its parent is   *)
(* below, and below nothing else but its parent.                           *)
LEMMA BelowChild ==
  ASSUME NEW n \in Path, NEW c \in Children(n), NEW m \in Path
  PROVE  /\ Extends(c, n)
         /\ Extends(m, c) => Extends(m, n)
         /\ Extends(c, m) => m = n \/ Extends(n, m)
         /\ \A d \in Children(n) : ~Extends(c, d)
<1>1. /\ c \in Path /\ Len(c) = Len(n) + 1 /\ \A i \in 1 .. Len(n) : c[i] = n[i]
      /\ Len(n) \in Nat /\ Len(m) \in Nat
  BY ChildrenFit DEF Path
<1>2. Extends(c, n)
  BY <1>1 DEF Extends
<1>3. Extends(m, c) => Extends(m, n)
  BY <1>1 DEF Extends
<1>4. ASSUME Extends(c, m) PROVE m = n \/ Extends(n, m)
  <2>1. Len(m) <= Len(n) /\ \A i \in 1 .. Len(m) : n[i] = m[i]
    BY <1>1, <1>4 DEF Extends
  <2>2. CASE Len(m) < Len(n)
    BY <2>1, <2>2 DEF Extends
  <2>3. CASE Len(m) = Len(n)
    <3>1. m \in Seq(Playlist) /\ n \in Seq(Playlist)
      BY DEF Path
    <3>2. m = n
      BY <2>1, <2>3, <3>1
    <3> QED
      BY <3>2
  <2> QED
    BY <1>1, <2>1, <2>2, <2>3
<1>5. \A d \in Children(n) : ~Extends(c, d)
  BY <1>1, ChildrenFit DEF Extends
<1> QED
  BY <1>2, <1>3, <1>4, <1>5

-----------------------------------------------------------------------------
(* What a step that leaves the nodes of a source where they are keeps.     *)

SamePlaces(s) ==
  /\ queue'[s] = queue[s] /\ Holds(s)' = Holds(s) /\ PoolOf(s)' = PoolOf(s)
  /\ Runs(s)' = Runs(s) /\ \A w \in Runs(s) : task'[w].n = task[w].n

(* The conjuncts about places survive if the nodes stay where they are. *)
LEMMA PlacesKeep ==
  ASSUME NEW s \in Source, SamePlaces(s), pending'[s] = pending[s],
         Distinct(s), NoneBelow(s), Exact(s),
         \A w \in Runs(s) : task'[w].st \in Before => task[w].st \in Before
  PROVE  /\ Distinct(s)' /\ NoneBelow(s)' /\ Exact(s)'
         /\ Outstanding(s)' = Outstanding(s)
<1>1. TaskOf(s)' = TaskOf(s)
  BY DEF SamePlaces, TaskOf
<1>2. Outstanding(s)' = Outstanding(s)
  BY <1>1, Places DEF SamePlaces
<1>3. Open(s)' \subseteq Open(s)
  BY DEF SamePlaces, Open
<1>4. NoneBelow(s)'
  <2> SUFFICES ASSUME NEW m \in Outstanding(s)', NEW n \in Open(s)'
               PROVE  ~Extends(m, n)
    BY DEF NoneBelow
  <2> QED
    BY <1>2, <1>3 DEF NoneBelow
<1>5. Distinct(s)'
  BY DEF SamePlaces, Distinct
<1> QED
  BY <1>2, <1>4, <1>5 DEF Exact

SameHistory(s) ==
  /\ visited'[s] = visited[s] /\ opened'[s] = opened[s] /\ threw'[s] = threw[s]
  /\ left'[s] = left[s] /\ (quit => quit')

Quiet == {"queued", "next", "wait", "done"}

(* A step that touches neither the nodes nor the history of a source, but  *)
(* may take a task of it to the next stage.                                *)
LEMMA RestKeeps ==
  ASSUME NEW s \in Source, SourceFits(s), SamePlaces(s), SameHistory(s), pending'[s] = pending[s],
         quit \in BOOLEAN,
         \A w \in Runs(s) : /\ task'[w].st \in Before => task[w].st \in Before
                            /\ task'[w].st \in Read <=> task[w].st \in Read
                            /\ task'[w].st # "scan" => task[w].st # "scan"
                            /\ task'[w].st = "unwind" => task[w].st = "unwind",
         pc'[s] \in Quiet => pc[s] \in Quiet \/ Outstanding(s) = {},
         pc'[s] = "done" => pc[s] = "done" \/ left[s] = {} \/ quit
  PROVE  SourceFits(s)'
<1>1. /\ Distinct(s)' /\ NoneBelow(s)' /\ Exact(s)'
      /\ Outstanding(s)' = Outstanding(s)
  BY PlacesKeep DEF SourceFits
<1>2. Owed(s)' = Owed(s)
  BY DEF SamePlaces, Owed
<1>3. Named(s)' = Named(s)
  BY DEF SameHistory, Named
<1>4. Complete(s)'
  BY <1>1, <1>2, <1>3 DEF SourceFits, Complete, SameHistory
<1>5. Seen(s)'
  BY DEF SourceFits, Seen, SamePlaces, SameHistory
<1>6. Rested(s)'
  BY <1>1 DEF SourceFits, Rested, SameHistory, Quiet
<1> QED
  BY <1>1, <1>4, <1>5, <1>6 DEF SourceFits

(* A step that takes a node of a source from one place to another. *)
LEMMA MoveKeeps ==
  ASSUME NEW s \in Source, SourceFits(s), SameHistory(s), pending'[s] = pending[s],
         Outstanding(s)' = Outstanding(s), Open(s)' \subseteq Open(s), Owed(s)' = Owed(s),
         Distinct(s)', Seen(s)',
         pc'[s] \notin Quiet, quit' = quit
  PROVE  SourceFits(s)'
<1>1. NoneBelow(s)'
  <2> SUFFICES ASSUME NEW m \in Outstanding(s)', NEW n \in Open(s)'
               PROVE  ~Extends(m, n)
    BY DEF NoneBelow
  <2> QED
    BY DEF NoneBelow, SourceFits
<1>2. Exact(s)'
  BY DEF Exact, SourceFits
<1>3. Named(s)' = Named(s)
  BY DEF SameHistory, Named
<1>4. Complete(s)'
  BY <1>3 DEF SourceFits, Complete, SameHistory
<1>5. Rested(s)'
  BY DEF SourceFits, Rested, SameHistory, Quiet
<1> QED
  BY <1>1, <1>2, <1>4, <1>5 DEF SourceFits

(* A step that is done with a node. *)
LEMMA RemoveKeeps ==
  ASSUME NEW s \in Source, SourceFits(s), NEW n \in Outstanding(s),
         Outstanding(s)' = Outstanding(s) \ {n}, pending' = [pending EXCEPT ![s] = @ - 1],
         pending \in [Source -> Nat],
         Open(s)' \subseteq Open(s), left' = left,
         Distinct(s)', Seen(s)', Complete(s)', pc'[s] \notin Quiet
  PROVE  SourceFits(s)' /\ pending' \in [Source -> Nat]
<1>1. NoneBelow(s)'
  <2> SUFFICES ASSUME NEW m \in Outstanding(s)', NEW k \in Open(s)'
               PROVE  ~Extends(m, k)
    BY DEF NoneBelow
  <2> QED
    BY DEF NoneBelow, SourceFits
<1>2. /\ IsFiniteSet(Outstanding(s)')
      /\ Cardinality(Outstanding(s)') = Cardinality(Outstanding(s)) - 1
  BY FS_RemoveElement DEF Exact, SourceFits
<1>3. pending[s] \in Nat /\ pending[s] = Cardinality(Outstanding(s)) /\ pending[s] # 0
  BY FS_EmptySet DEF Exact, SourceFits
<1>4. pending'[s] = pending[s] - 1 /\ pending' \in [Source -> Nat]
  BY <1>3
<1>5. Exact(s)'
  BY <1>2, <1>3, <1>4 DEF Exact
<1>6. Rested(s)'
  BY DEF SourceFits, Rested, Quiet
<1> QED
  BY <1>1, <1>4, <1>5, <1>6 DEF SourceFits

-----------------------------------------------------------------------------
(* The steps of a source's job.                                            *)

(* A job does not touch the other sources. *)
LEMMA JobElsewhere ==
  ASSUME Types, NEW s \in Source, JobStep(s), NEW r \in Source, r # s, SourceFits(r), quit \in BOOLEAN
  PROVE  SourceFits(r)'
<1>1. /\ queue'[r] = queue[r] /\ held'[r] = held[r] /\ pc'[r] = pc[r] /\ pending'[r] = pending[r]
      /\ left'[r] = left[r]
      /\ task' = task /\ UNCHANGED history
  BY DEF JobStep, BeginSource, StartTree, EndSource, Check, Sleep, Discard, Keep, Acquire,
     Submit, Wait,
         Goto, Types, history, dispatch, limiter
<1>2. pool' = pool \/ pool' = pool \cup {<<s, held[s]>>}
  BY DEF JobStep, BeginSource, StartTree, EndSource, Check, Sleep, Discard, Keep, Acquire,
     Submit, Wait,
         dispatch, limiter
<1>3. PoolOf(r)' = PoolOf(r)
  <2>1. CASE pool' = pool
    BY <2>1 DEF PoolOf
  <2>2. CASE pool' = pool \cup {<<s, held[s]>>}
    <3>1. {u \in pool' : u[1] = r} = {u \in pool : u[1] = r}
      BY <2>2
    <3> QED
      BY <3>1 DEF PoolOf
  <2> QED
    BY <1>2, <2>1, <2>2
<1>4. SamePlaces(r)
  BY <1>1, <1>3 DEF SamePlaces, Holds, Runs
<1>5. SameHistory(r)
  BY <1>1 DEF SameHistory, history
<1> QED
  BY <1>1, <1>4, <1>5, RestKeeps DEF Quiet

(* Steps that only take the job to its next place *)
LEMMA JobWalks ==
  ASSUME Types, NEW s \in Source, SourceFits(s), quit \in BOOLEAN, cancelled => quit,
         \/ BeginSource(s) \/ EndSource(s) \/ Sleep(s) \/ Keep(s) \/ Acquire(s) \/ Wait(s)
         \/ Check(s) /\ UNCHANGED queue
  PROVE  SourceFits(s)'
<1>1. UNCHANGED <<left, held, queue, pending, pool, task, cancelled, history>>
  <2>1. CASE Check(s) /\ UNCHANGED queue
    <3>1. \A n \in queue[s] : queue[s] # queue[s] \ {n}
      OBVIOUS
    <3>2. queue' = queue => queue'[s] = queue[s]
      OBVIOUS
    <3>3. UNCHANGED held
      BY <2>1, <3>1, <3>2 DEF Check, Types
    <3> QED
      BY <2>1, <3>3 DEF Check, history
  <2> QED
    BY <2>1 DEF BeginSource, EndSource, Sleep, Keep, Acquire, Wait, limiter, history
<1>2. /\ pc[s] \in {"took", "acquire", "submit"} <=> pc'[s] \in {"took", "acquire", "submit"}
      /\ pc'[s] \in Quiet => pc[s] \in Quiet \/ Outstanding(s) = {}
      /\ pc'[s] = "done" => pc[s] = "done" \/ left[s] = {} \/ quit
  <2>1. CASE BeginSource(s) \/ EndSource(s) \/ Sleep(s) \/ Keep(s) \/ Acquire(s) \/ Wait(s)
    BY <2>1 DEF BeginSource, EndSource, Sleep, Keep, Acquire, Wait, Goto, Types, Quiet
  <2>2. CASE Check(s) /\ UNCHANGED queue
    <3>1. \/ Ends(s) /\ Goto(s, "wait")
          \/ Goto(s, "drowsy")
      BY <2>2, <1>1 DEF Check, Types
    <3>2. Ends(s) => Outstanding(s) = {}
      BY FS_EmptySet DEF Ends, SourceFits, Exact
    <3> QED
      BY <2>2, <3>1, <3>2 DEF Goto, Types, Quiet, Check
  <2> QED
    BY <2>1, <2>2
<1>3. SamePlaces(s) /\ SameHistory(s)
  BY <1>1, <1>2 DEF SamePlaces, SameHistory, Holds, Runs, PoolOf, history
<1> QED
  BY <1>1, <1>2, <1>3, RestKeeps

(* ScanPlaylistTree starts with nothing outstanding, and with one node. *)
LEMMA StartTreeKeeps ==
  ASSUME Types, NEW s \in Source, SourceFits(s), StartTree(s)
  PROVE  SourceFits(s)'
<1>1. PICK r \in left[s] :
        /\ left' = [left EXCEPT ![s] = @ \ {r}]
        /\ queue' = [queue EXCEPT ![s] = @ \cup {<<r>>}]
  BY DEF StartTree
<1>2. /\ pc[s] = "next" /\ pc'[s] = "check" /\ pending' = [pending EXCEPT ![s] = @ + 1]
      /\ UNCHANGED <<held, pool, task, history>>
  BY DEF StartTree, Goto, Types, limiter, history
<1>3. Outstanding(s) = {} /\ pending[s] = 0
  BY <1>2, FS_EmptySet DEF SourceFits, Rested, Exact
<1>4. queue[s] = {} /\ PoolOf(s) = {} /\ Runs(s) = {} /\ Holds(s) = {}
  <2>1. queue[s] = {} /\ PoolOf(s) = {} /\ TaskOf(s) = {} /\ Holds(s) = {}
    BY <1>3, Places
  <2>2. \A w \in Runs(s) : task[w].n \in TaskOf(s)
    BY DEF TaskOf
  <2> QED
    BY <2>1, <2>2
<1>5. queue'[s] = {<<r>>} /\ PoolOf(s)' = {} /\ Runs(s)' = {} /\ Holds(s)' = {}
  BY <1>1, <1>2, <1>4 DEF Types, PoolOf, Runs, Holds
<1>6. TaskOf(s)' = {}
  BY <1>5 DEF TaskOf
<1>7. Outstanding(s)' = {<<r>>}
  BY <1>5, <1>6, Places
<1>8. Open(s)' = {<<r>>}
  BY <1>5 DEF Open
<1>9. NoneBelow(s)'
  BY <1>7, <1>8 DEF NoneBelow, Extends
<1>10. Exact(s)'
  <2>1. pending'[s] = 1
    BY <1>2, <1>3 DEF Types
  <2>2. IsFiniteSet({<<r>>}) /\ Cardinality({<<r>>}) = 1
    BY FS_Singleton
  <2> QED
    BY <1>7, <2>1, <2>2 DEF Exact
<1>11. Complete(s)'
  <2>1. Owed(s) = {} /\ Owed(s)' = {}
    BY <1>4, <1>5 DEF Owed
  <2>2. left'[s] = left[s] \ {r} /\ left[s] \subseteq Roots[s]
    BY <1>1 DEF Types, SourceFits, Rested
  <2>3. Roots[s] \ left'[s] = (Roots[s] \ left[s]) \cup {r}
    BY <2>2
  <2>4. Named(s)' = Named(s) \cup {<<r>>}
    BY <1>2, <2>3 DEF Named, history
  <2> QED
    BY <1>2, <1>3, <1>7, <2>1, <2>4 DEF Complete, SourceFits, history
<1>12. Rested(s)'
  <2>1. left'[s] \subseteq Roots[s]
    BY <1>1 DEF Types, SourceFits, Rested
  <2> QED
    BY <1>2, <2>1 DEF Rested
<1>13. Distinct(s)' /\ Seen(s)'
  BY <1>5 DEF Distinct, Seen
<1> QED
  BY <1>9, <1>10, <1>11, <1>12, <1>13 DEF SourceFits

(* The dispatcher takes a node from its queue. *)
LEMMA CheckKeeps ==
  ASSUME Types, NEW s \in Source, SourceFits(s), NEW n \in queue[s], pc[s] = "check",
         queue' = [queue EXCEPT ![s] = @ \ {n}], held' = [held EXCEPT ![s] = n], Goto(s, "took"),
         UNCHANGED <<left, pending, pool, task, history>>
  PROVE  SourceFits(s)'
<1>1. pc'[s] = "took" /\ Holds(s) = {} /\ Holds(s)' = {n} /\ queue'[s] = queue[s] \ {n}
  BY DEF Goto, Types, Holds
<1>2. PoolOf(s)' = PoolOf(s) /\ Runs(s)' = Runs(s) /\ TaskOf(s)' = TaskOf(s) /\ task' = task
  BY DEF PoolOf, Runs, TaskOf
<1>3. Outstanding(s)' = Outstanding(s)
  <2>1. Outstanding(s) = queue[s] \cup {} \cup PoolOf(s) \cup TaskOf(s)
    BY <1>1, Places
  <2>2. Outstanding(s)' = (queue[s] \ {n}) \cup {n} \cup PoolOf(s) \cup TaskOf(s)
    BY <1>1, <1>2, Places
  <2> QED
    BY <2>1, <2>2
<1>4. Open(s)' = Open(s) /\ Owed(s)' = Owed(s)
  BY <1>1, <1>2 DEF Open, Owed
<1>5. Distinct(s)'
  BY <1>1, <1>2 DEF SourceFits, Distinct
<1>6. Seen(s)' /\ SameHistory(s) /\ quit' = quit
  BY <1>2 DEF SourceFits, Seen, SameHistory, history
<1> QED
  BY <1>1, <1>3, <1>4, <1>5, <1>6, MoveKeeps DEF Quiet

(* The node that is held becomes a task of the pool. *)
LEMMA SubmitKeeps ==
  ASSUME Types, NEW s \in Source, SourceFits(s), Submit(s)
  PROVE  SourceFits(s)'
<1> DEFINE n == held[s]
<1>1. /\ pc[s] = "submit" /\ pc'[s] = "check" /\ pool' = pool \cup {<<s, n>>}
      /\ UNCHANGED <<left, queue, pending, task, history>>
  BY DEF Submit, Goto, Types, limiter, history
<1>2. Holds(s) = {n} /\ Holds(s)' = {}
  BY <1>1 DEF Holds
<1>3. PoolOf(s)' = PoolOf(s) \cup {n}
  <2> DEFINE A == {u \in pool : u[1] = s}
             B == {u \in pool' : u[1] = s}
  <2>1. B = A \cup {<<s, n>>}
    BY <1>1
  <2>2. PoolOf(s) = {t[2] : t \in A} /\ PoolOf(s)' = {t[2] : t \in B} /\ <<s, n>>[2] = n
    BY DEF PoolOf
  <2> HIDE DEF A, B
  <2> QED
    BY <2>1, <2>2
<1>4. Runs(s)' = Runs(s) /\ TaskOf(s)' = TaskOf(s) /\ task' = task
  BY <1>1 DEF Runs, TaskOf
<1>5. Outstanding(s)' = Outstanding(s)
  <2>1. Outstanding(s) = queue[s] \cup {n} \cup PoolOf(s) \cup TaskOf(s)
    BY <1>2, Places
  <2>2. Outstanding(s)' = queue[s] \cup {} \cup (PoolOf(s) \cup {n}) \cup TaskOf(s)
    BY <1>1, <1>2, <1>3, <1>4, Places
  <2> QED
    BY <2>1, <2>2
<1>6. Open(s)' = Open(s) /\ Owed(s)' = Owed(s)
  BY <1>1, <1>2, <1>3, <1>4 DEF Open, Owed
<1>7. Distinct(s)'
  BY <1>1, <1>2, <1>3, <1>4 DEF SourceFits, Distinct
<1>8. Seen(s)' /\ SameHistory(s) /\ quit' = quit
  BY <1>1, <1>4 DEF SourceFits, Seen, SameHistory, history
<1> QED
  BY <1>1, <1>5, <1>6, <1>7, <1>8, MoveKeeps DEF Quiet

(* A node dropped after a cancel leaves the count with it. *)
LEMMA DiscardKeeps ==
  ASSUME Types, NEW s \in Source, SourceFits(s), Discard(s), cancelled => quit
  PROVE  SourceFits(s)' /\ pending' \in [Source -> Nat]
<1> DEFINE n == held[s]
<1>1. /\ pc[s] = "took" /\ pc'[s] = "check" /\ quit' = quit /\ quit
      /\ pending' = [pending EXCEPT ![s] = @ - 1]
      /\ UNCHANGED <<left, queue, pool, task, history>>
  BY DEF Discard, Goto, Types, limiter, history
<1>2. Holds(s) = {n} /\ Holds(s)' = {}
  BY <1>1 DEF Holds
<1>3. /\ PoolOf(s)' = PoolOf(s) /\ Runs(s)' = Runs(s) /\ TaskOf(s)' = TaskOf(s) /\ task' = task
      /\ queue'[s] = queue[s]
  BY <1>1 DEF PoolOf, Runs, TaskOf
<1>4. n \notin queue[s] /\ n \notin PoolOf(s) /\ n \notin TaskOf(s)
  BY <1>2 DEF SourceFits, Distinct, TaskOf
<1>5. n \in Outstanding(s) /\ Outstanding(s)' = Outstanding(s) \ {n}
  BY <1>2, <1>3, <1>4, Places
<1>6. Open(s)' \subseteq Open(s)
  BY <1>2, <1>3 DEF Open
<1>7. Distinct(s)'
  BY <1>2, <1>3 DEF SourceFits, Distinct
<1>8. Seen(s)' /\ Complete(s)'
  BY <1>1, <1>3 DEF SourceFits, Seen, Complete, history
<1> QED
  BY <1>1, <1>5, <1>6, <1>7, <1>8, RemoveKeeps DEF Quiet, Types

-----------------------------------------------------------------------------
(* The steps of a worker.                                                  *)

(* A task at work is a record with a source and a node. *)
LEMMA TaskFits ==
  ASSUME Types, NEW w \in Worker, task[w].st # "idle"
  PROVE  task[w] \in Tasks /\ task[w].s \in Source /\ task[w].n \in Path
BY DEF Types, Tasks, Idle

(* A source whose task it is not *)
LEMMA OthersKeep ==
  ASSUME Types, NEW w \in Worker, NEW x, task' = [task EXCEPT ![w] = x],
         NEW r \in Source, SourceFits(r), quit \in BOOLEAN,
         w \notin Runs(r), x.st \in {"idle", "left"} \/ x.s # r,
         queue'[r] = queue[r], held' = held, PoolOf(r)' = PoolOf(r), pending'[r] = pending[r],
         SameHistory(r), pc'[r] = pc[r] \/ (pc[r] = "asleep" /\ pc'[r] = "check")
  PROVE  SourceFits(r)'
<1>1. task'[w] = x /\ \A v \in Worker \ {w} : task'[v] = task[v]
  BY DEF Types
<1>2. Runs(r)' = Runs(r) /\ \A v \in Runs(r) : task'[v] = task[v]
  BY <1>1 DEF Runs
<1>3. Holds(r)' = Holds(r)
  BY DEF Holds
<1>4. SamePlaces(r)
  BY <1>2, <1>3 DEF SamePlaces
<1> QED
  BY <1>2, <1>4, RestKeeps DEF Quiet

(* A task that comes to its next stage still runs, for the same node. *)
LEMMA StaysAtWork ==
  ASSUME NEW s \in Source, NEW w \in Runs(s), \A v \in Worker \ {w} : task'[v] = task[v],
         task'[w].st \notin {"idle", "left"}, task'[w].s = s, task'[w].n = task[w].n
  PROVE  /\ Runs(s)' = Runs(s) /\ TaskOf(s)' = TaskOf(s)
         /\ \A v \in Runs(s) : task'[v].n = task[v].n
<1>1. Runs(s)' = Runs(s)
  BY DEF Runs
<1>2. \A v \in Runs(s) : task'[v].n = task[v].n
  BY DEF Runs
<1> QED
  BY <1>1, <1>2 DEF TaskOf

(* The steps within a task that no node takes part in *)
Plods(w) ==
  \/ Discover(w) \/ Count(w) \/ SetLimit(w) \/ NotifyPushed(w) \/ Release(w) \/ NotifyLeft(w)

(* What such a step does to the task *)
LEMMA PlodShape ==
  ASSUME Types, NEW w \in Worker, Plods(w)
  PROVE  \E x \in Tasks \cup {Idle} :
           /\ task' = [task EXCEPT ![w] = x]
           /\ task[w].st # "idle"
           /\ \/ x.st = "idle" /\ task[w].st = "left"
              \/ /\ x \in Tasks /\ task[w].st # "left" /\ x.st \notin {"idle", "left"}
                 /\ x.s = task[w].s /\ x.n = task[w].n
                 /\ x.st \in Read <=> task[w].st \in Read
                 /\ x.st \in Before <=> task[w].st \in Before
                 /\ x.st \notin {"scan", "unwind"} /\ task[w].st # "scan"
<1>1. task[w].st # "idle" => task[w] \in Tasks
  BY TaskFits
<1>2. CASE Discover(w)
  <2>1. task[w].st = "entries" /\ task[w] \in Tasks
    BY <1>1, <1>2 DEF Discover
  <2>2. PICK c \in task[w].rest : task' = [task EXCEPT ![w].st = "count", ![w].rest = @ \ {c}]
    BY <1>2 DEF Discover
  <2> DEFINE x == [task[w] EXCEPT !.st = "count", !.rest = @ \ {c}]
  <2>3. task' = [task EXCEPT ![w] = x]
    BY <2>2 DEF Types
  <2>4. x \in Tasks /\ x.st = "count" /\ x.s = task[w].s /\ x.n = task[w].n
    BY <2>1 DEF Tasks, Stages
  <2> QED
    BY <2>1, <2>3, <2>4 DEF Read, Before
<1>3. CASE Count(w)
  <2>1. task[w].st = "count" /\ task[w] \in Tasks
    BY <1>1, <1>3 DEF Count
  <2> DEFINE x == [task[w] EXCEPT !.st = "limit", !.v = discovered[task[w].s]]
  <2>2. task' = [task EXCEPT ![w] = x]
    BY <1>3 DEF Count, Types
  <2>3. discovered[task[w].s] \in Nat
    BY <2>1 DEF Types, Tasks
  <2>4. x \in Tasks /\ x.st = "limit" /\ x.s = task[w].s /\ x.n = task[w].n
    BY <2>1, <2>3 DEF Tasks, Stages
  <2> QED
    BY <2>1, <2>2, <2>4 DEF Read, Before
<1>4. CASE SetLimit(w)
  <2>1. task[w].st = "limit" /\ task[w] \in Tasks
    BY <1>1, <1>4 DEF SetLimit
  <2> DEFINE x == [task[w] EXCEPT !.st = "entries", !.v = 0]
  <2>2. task' = [task EXCEPT ![w] = x]
    BY <1>4 DEF SetLimit, Types
  <2>3. x \in Tasks /\ x.st = "entries" /\ x.s = task[w].s /\ x.n = task[w].n
    BY <2>1 DEF Tasks, Stages
  <2> QED
    BY <2>1, <2>2, <2>3 DEF Read, Before
<1>5. CASE NotifyPushed(w)
  <2>1. task[w].st = "pushed" /\ task[w] \in Tasks
    BY <1>1, <1>5 DEF NotifyPushed
  <2> DEFINE x == [task[w] EXCEPT !.st = "release"]
  <2>2. task' = [task EXCEPT ![w] = x]
    BY <1>5 DEF NotifyPushed, Stage, Types
  <2>3. x \in Tasks /\ x.st = "release" /\ x.s = task[w].s /\ x.n = task[w].n
    BY <2>1 DEF Tasks, Stages
  <2> QED
    BY <2>1, <2>2, <2>3 DEF Read, Before
<1>6. CASE Release(w)
  <2>1. task[w].st = "release" /\ task[w] \in Tasks
    BY <1>1, <1>6 DEF Release
  <2> DEFINE x == [task[w] EXCEPT !.st = "leave"]
  <2>2. task' = [task EXCEPT ![w] = x]
    BY <1>6 DEF Release, Stage, Types
  <2>3. x \in Tasks /\ x.st = "leave" /\ x.s = task[w].s /\ x.n = task[w].n
    BY <2>1 DEF Tasks, Stages
  <2> QED
    BY <2>1, <2>2, <2>3 DEF Read, Before
<1>7. CASE NotifyLeft(w)
  <2>1. task[w].st = "left" /\ task' = [task EXCEPT ![w] = Idle]
    BY <1>7 DEF NotifyLeft, Become
  <2>2. Idle.st = "idle" /\ Idle \in Tasks \cup {Idle}
    BY DEF Idle
  <2> QED
    BY <2>1, <2>2
<1> QED
  BY <1>2, <1>3, <1>4, <1>5, <1>6, <1>7 DEF Plods

(* None of these steps moves a node of any source. *)
LEMMA PlodKeeps ==
  ASSUME Types, NEW w \in Worker, Plods(w), quit \in BOOLEAN, NEW r \in Source, SourceFits(r)
  PROVE  SourceFits(r)'
<1>1. PICK x \in Tasks \cup {Idle} :
           /\ task' = [task EXCEPT ![w] = x]
           /\ task[w].st # "idle"
           /\ \/ x.st = "idle" /\ task[w].st = "left"
              \/ /\ x \in Tasks /\ task[w].st # "left" /\ x.st \notin {"idle", "left"}
                 /\ x.s = task[w].s /\ x.n = task[w].n
                 /\ x.st \in Read <=> task[w].st \in Read
                 /\ x.st \in Before <=> task[w].st \in Before
                 /\ x.st \notin {"scan", "unwind"} /\ task[w].st # "scan"
  BY PlodShape
<1>2. UNCHANGED <<left, held, queue, pending, pool, history>>
  BY DEF Plods, Discover, Count, SetLimit, NotifyPushed, Release, NotifyLeft, dispatch,
     limiter, history
<1>3. pc'[r] = pc[r] \/ (pc[r] = "asleep" /\ pc'[r] = "check")
  <2>1. task[w].s \in Source
    BY <1>1, TaskFits
  <2>2. pc' = pc \/ pc' = Woken(pc, task[w].s)
    BY DEF Plods, Discover, Count, SetLimit, NotifyPushed, Release, NotifyLeft, dispatch, Notify
  <2> QED
    BY <2>1, <2>2 DEF Woken, Types
<1>4. SameHistory(r) /\ PoolOf(r)' = PoolOf(r) /\ Holds(r)' = Holds(r)
  BY <1>2, <1>3 DEF SameHistory, history, PoolOf, Holds
<1>5. CASE w \in Runs(r) /\ task[w].st # "left"
  <2>1. /\ x.st \notin {"idle", "left"} /\ x.s = task[w].s /\ x.n = task[w].n /\ task[w].s = r
        /\ x.st \in Read <=> task[w].st \in Read
        /\ x.st \in Before <=> task[w].st \in Before
        /\ x.st \notin {"scan", "unwind"} /\ task[w].st # "scan"
    BY <1>1, <1>5 DEF Runs
  <2>2. /\ Runs(r)' = Runs(r) /\ task'[w] = x /\ \A v \in Runs(r) \ {w} : task'[v] = task[v]
        /\ \A v \in Runs(r) : task'[v].n = task[v].n
    <3>1. task'[w] = x /\ \A v \in Worker \ {w} : task'[v] = task[v]
      BY <1>1 DEF Types
    <3>2. Runs(r)' = Runs(r) /\ \A v \in Runs(r) : task'[v].n = task[v].n
      BY <1>5, <2>1, <3>1, StaysAtWork
    <3> QED
      BY <3>1, <3>2 DEF Runs
  <2>3. SamePlaces(r)
    BY <1>2, <1>4, <2>2 DEF SamePlaces
  <2>4. \A v \in Runs(r) : /\ task'[v].st \in Before => task[v].st \in Before
                           /\ task'[v].st \in Read <=> task[v].st \in Read
                           /\ task'[v].st # "scan" => task[v].st # "scan"
                           /\ task'[v].st = "unwind" => task[v].st = "unwind"
    BY <2>1, <2>2
  <2>5. pc'[r] \in Quiet => pc[r] \in Quiet
    BY <1>3 DEF Quiet
  <2> QED
    BY <1>2, <1>3, <1>4, <2>3, <2>4, <2>5, RestKeeps DEF Quiet
<1>6. CASE ~(w \in Runs(r) /\ task[w].st # "left")
  <2>1. w \notin Runs(r) /\ (x.st \in {"idle", "left"} \/ x.s # r)
    BY <1>1, <1>6 DEF Runs
  <2> QED
    BY <1>1, <1>2, <1>3, <1>4, <2>1, OthersKeep
<1> QED
  BY <1>5, <1>6

(* A source with nodes outstanding is in the middle of a tree. *)
LEMMA BusyIsNotQuiet ==
  ASSUME NEW s \in Source, SourceFits(s), NEW n \in Outstanding(s)
  PROVE  pc[s] \notin Quiet
BY DEF SourceFits, Rested, Quiet

(* A worker takes a node from the pool. *)
LEMMA TakeTaskKeeps ==
  ASSUME Types, NEW w \in Worker, TakeTask(w), quit \in BOOLEAN, NEW r \in Source, SourceFits(r)
  PROVE  SourceFits(r)'
<1>1. PICK t \in pool : pool' = pool \ {t} /\ Become(w, Task("scan", t[1], t[2]))
  BY DEF TakeTask
<1> DEFINE s == t[1]
           n == t[2]
<1>2. s \in Source /\ n \in Path /\ t = <<s, n>>
  BY <1>1 DEF Types
<1>3. /\ task[w].st = "idle"
      /\ UNCHANGED <<pc, left, held, queue, pending, history>>
  BY DEF TakeTask, Free, dispatch, history
<1>4. /\ task'[w].st = "scan" /\ task'[w].s = s /\ task'[w].n = n
      /\ \A v \in Worker \ {w} : task'[v] = task[v]
  BY <1>1 DEF Become, Task, Types
<1>5. SameHistory(r) /\ Holds(r)' = Holds(r) /\ w \notin Runs(r)
  BY <1>3 DEF SameHistory, history, Holds, Runs
<1>6. CASE r = s
  <2>1. n \in PoolOf(r) /\ PoolOf(r)' = PoolOf(r) \ {n}
    <3>1. pool' \subseteq Source \X Path
      BY <1>1 DEF Types
    <3>2. \A m : m \in PoolOf(r) <=> <<r, m>> \in pool
      BY InPool DEF Types
    <3>3. \A m : m \in PoolOf(r)' <=> <<r, m>> \in pool'
      BY <3>1, InPoolNext
    <3>4. \A m : <<r, m>> \in pool' <=> <<r, m>> \in pool /\ m # n
      BY <1>1, <1>2, <1>6
    <3> QED
      BY <1>1, <1>2, <1>6, <3>2, <3>3, <3>4
  <2>2. /\ Runs(r)' = Runs(r) \cup {w}
        /\ \A v \in Runs(r) : task'[v] = task[v] /\ v # w
    BY <1>3, <1>4, <1>6 DEF Runs
  <2>3. TaskOf(r)' = TaskOf(r) \cup {n}
    <3>1. {task'[v].n : v \in Runs(r) \cup {w}} = {task[v].n : v \in Runs(r)} \cup {n}
      BY <1>4, <2>2
    <3> QED
      BY <2>2, <3>1 DEF TaskOf
  <2>4. Outstanding(r)' = Outstanding(r)
    <3>1. Outstanding(r) = queue[r] \cup Holds(r) \cup PoolOf(r) \cup TaskOf(r)
      BY Places
    <3>2. Outstanding(r)' = queue[r] \cup Holds(r) \cup (PoolOf(r) \ {n}) \cup (TaskOf(r) \cup {n})
      BY <1>3, <1>5, <2>1, <2>3, Places
    <3> QED
      BY <2>1, <3>1, <3>2
  <2>5. Open(r)' \subseteq Open(r)
    BY <1>3, <1>4, <1>5, <2>1, <2>2 DEF Open
  <2>6. Owed(r)' = Owed(r)
    <3>1. {v \in Runs(r)' : task'[v].st \in Read} = {v \in Runs(r) : task[v].st \in Read}
      BY <1>4, <2>2 DEF Read
    <3> QED
      BY <2>2, <3>1 DEF Owed
  <2>7. Distinct(r)'
    BY <1>3, <1>4, <1>5, <2>1, <2>2 DEF SourceFits, Distinct
  <2>8. Seen(r)'
    BY <1>3, <1>4, <2>2 DEF SourceFits, Seen, history
  <2>9. n \in Outstanding(r)
    BY <2>1, Places
  <2>10. pc'[r] \notin Quiet
    BY <1>3, <2>9, BusyIsNotQuiet
  <2>11. quit' = quit /\ pending'[r] = pending[r]
    BY <1>3 DEF history
  <2> QED
    BY <1>5, <2>4, <2>5, <2>6, <2>7, <2>8, <2>10, <2>11, MoveKeeps
<1>7. CASE r # s
  <2>1. PoolOf(r)' = PoolOf(r)
    <3>1. {u \in pool' : u[1] = r} = {u \in pool : u[1] = r}
      BY <1>1, <1>7
    <3> QED
      BY <3>1 DEF PoolOf
  <2>2. /\ task' = [task EXCEPT ![w] = Task("scan", s, n)]
        /\ Task("scan", s, n).s # r
    BY <1>1, <1>7 DEF Become, Task
  <2> QED
    BY <1>3, <1>5, <2>1, <2>2, OthersKeep
<1> QED
  BY <1>6, <1>7

(* A node is looked at: from here on its children are owed, if it is read. *)
LEMMA ScanNodeKeeps ==
  ASSUME Types, NEW w \in Worker, ScanNode(w), quit \in BOOLEAN, NEW r \in Source, SourceFits(r)
  PROVE  SourceFits(r)'
<1> DEFINE s == task[w].s
           n == task[w].n
<1>1. task[w].st = "scan" /\ task[w] \in Tasks /\ s \in Source /\ n \in Path
  BY TaskFits DEF ScanNode
<1>2. /\ visited' = [visited EXCEPT ![s] = @ \cup {n}]
      /\ UNCHANGED <<pc, left, held, queue, pending, pool, quit>>
  BY DEF ScanNode, dispatch
<1>3. \/ /\ task' = [task EXCEPT ![w].st = "release"]
         /\ opened' = opened /\ threw' = threw
      \/ /\ task' = [task EXCEPT ![w].st = "entries", ![w].rest = Nested[Last(n)]]
         /\ opened' = [opened EXCEPT ![s] = @ \cup {n}] /\ threw' = threw
      \/ /\ task' = [task EXCEPT ![w].st = "unwind"]
         /\ threw' = [threw EXCEPT ![s] = TRUE] /\ opened' = opened
  BY DEF ScanNode, Stage
<1>4. /\ task'[w].s = s /\ task'[w].n = n /\ task'[w].st \in {"release", "entries", "unwind"}
      /\ \A v \in Worker \ {w} : task'[v] = task[v]
  BY <1>1, <1>3 DEF Types, Tasks
<1>5. CASE r = s
  <2>1. w \in Runs(r) /\ w \in Worker
    BY <1>1, <1>5 DEF Runs
  <2>2. Runs(r)' = Runs(r) /\ \A v \in Runs(r) : task'[v].n = task[v].n
    BY <1>4, <1>5, <2>1, StaysAtWork
  <2>3. \A v \in Runs(r) : task'[v].st \in Before => task[v].st \in Before
    BY <1>1, <1>4 DEF Before, Runs
  <2>4. SamePlaces(r)
    BY <1>2, <2>2 DEF SamePlaces, Holds, PoolOf
  <2>5. /\ Distinct(r)' /\ NoneBelow(r)' /\ Exact(r)'
        /\ Outstanding(r)' = Outstanding(r)
    BY <1>2, <2>3, <2>4, PlacesKeep DEF SourceFits
  <2>6. n \in Outstanding(r)
    BY <2>1, Places DEF TaskOf
  <2>7. visited'[r] = visited[r] \cup {n}
    BY <1>2, <1>5 DEF Types
  <2>8. Seen(r)'
    <3>1. \A v \in Runs(r) \ {w} : task'[v] = task[v]
      BY <1>4 DEF Runs
    <3>2. threw[r] => threw'[r]
      BY <1>3, <1>5 DEF Types
    <3>3. task'[w].st = "unwind" => threw'[r]
      BY <1>1, <1>3, <1>5 DEF Types, Tasks
    <3> QED
      BY <1>4, <2>2, <2>7, <3>1, <3>2, <3>3 DEF SourceFits, Seen
  <2>9. Rested(r)'
    BY <1>2, <2>5 DEF SourceFits, Rested
  <2>10. Complete(r)'
    <3>1. CASE task'[w].st = "release"
      <4>1. opened' = opened /\ threw' = threw
        BY <1>1, <1>3, <3>1 DEF Types, Tasks
      <4>2. {v \in Runs(r)' : task'[v].st \in Read} = {v \in Runs(r) : task[v].st \in Read}
        BY <1>1, <1>4, <2>2, <3>1 DEF Read, Runs
      <4>3. Owed(r)' = Owed(r)
        BY <2>2, <4>2 DEF Owed
      <4>4. Named(r)' = Named(r)
        BY <1>2, <4>1 DEF Named
      <4> QED
        BY <1>2, <2>5, <2>6, <2>7, <4>1, <4>3, <4>4 DEF Complete, SourceFits
    <3>2. CASE task'[w].st = "entries"
      <4>1. opened'[r] = opened[r] \cup {n} /\ threw' = threw
        BY <1>1, <1>3, <1>5, <3>2 DEF Types, Tasks
      <4>2. {v \in Runs(r)' : task'[v].st \in Read} = {v \in Runs(r) : task[v].st \in Read} \cup {w}
        BY <1>1, <1>4, <2>1, <2>2, <3>2 DEF Read, Runs
      <4>3. Owed(r)' = Owed(r) \cup Children(n)
        BY <1>4, <2>2, <4>2 DEF Owed
      <4>4. Named(r)' = Named(r) \cup Children(n)
        BY <1>2, <4>1 DEF Named
      <4> QED
        BY <1>2, <2>5, <2>6, <2>7, <4>1, <4>3, <4>4 DEF Complete, SourceFits
    <3>3. CASE task'[w].st = "unwind"
      <4>1. threw'[r]
        BY <1>1, <1>3, <1>5, <3>3 DEF Types, Tasks
      <4> QED
        BY <4>1 DEF Complete
    <3> QED
      BY <1>4, <3>1, <3>2, <3>3
  <2> QED
    BY <2>5, <2>8, <2>9, <2>10 DEF SourceFits
<1>6. CASE r # s
  <2>1. SameHistory(r)
    BY <1>1, <1>2, <1>3, <1>6 DEF SameHistory, Types
  <2>2. w \notin Runs(r) /\ PoolOf(r)' = PoolOf(r)
    BY <1>2, <1>6 DEF Runs, PoolOf
  <2>3. task' = [task EXCEPT ![w] = task'[w]]
    BY <1>3 DEF Types
  <2> QED
    BY <1>2, <1>4, <1>6, <2>1, <2>2, <2>3, OthersKeep
<1> QED
  BY <1>5, <1>6

(* Children are new nodes, and each is counted once. *)
LEMMA PushChildrenKeeps ==
  ASSUME Types, NEW w \in Worker, PushChildren(w), quit \in BOOLEAN, NEW r \in Source, SourceFits(r)
  PROVE  SourceFits(r)'
<1> DEFINE s == task[w].s
           n == task[w].n
           cs == Children(n)
<1>1. task[w].st = "entries" /\ task[w] \in Tasks /\ s \in Source /\ n \in Path
  BY TaskFits DEF PushChildren
<1>2. /\ queue' = [queue EXCEPT ![s] = @ \cup cs]
      /\ pending' = [pending EXCEPT ![s] = @ + Cardinality(cs)]
      /\ task' = [task EXCEPT ![w].st = "pushed"]
      /\ UNCHANGED <<pc, left, held, pool, history>>
  BY DEF PushChildren, Enters, Stage, dispatch
<1>3. /\ task'[w].s = s /\ task'[w].n = n /\ task'[w].st = "pushed"
      /\ \A v \in Worker \ {w} : task'[v] = task[v]
  BY <1>1, <1>2 DEF Types, Tasks
<1>4. cs \subseteq Path /\ IsFiniteSet(cs)
  BY <1>1, ChildrenFit
<1> HIDE DEF cs
<1>5. CASE r = s
  <2>1. w \in Runs(r) /\ w \in Worker /\ n \in TaskOf(r) /\ n \in Open(r)
    BY <1>1, <1>5 DEF Runs, TaskOf, Open, Before
  <2>2. /\ Runs(r)' = Runs(r) /\ \A v \in Runs(r) : task'[v].n = task[v].n
        /\ TaskOf(r)' = TaskOf(r)
    BY <1>3, <1>5, <2>1, StaysAtWork
  <2>3. Holds(r)' = Holds(r) /\ PoolOf(r)' = PoolOf(r) /\ queue'[r] = queue[r] \cup cs
    BY <1>2, <1>5 DEF Holds, PoolOf, Types
  <2>4. Outstanding(r)' = Outstanding(r) \cup cs
    <3>1. Outstanding(r) = queue[r] \cup Holds(r) \cup PoolOf(r) \cup TaskOf(r)
      BY Places
    <3>2. Outstanding(r)' = (queue[r] \cup cs) \cup Holds(r) \cup PoolOf(r) \cup TaskOf(r)
      BY <2>2, <2>3, Places
    <3> QED
      BY <3>1, <3>2
  <2>5. n \in Outstanding(r)
    BY <2>1, Places
  <2>6. Outstanding(r) \cap cs = {}
    <3> SUFFICES ASSUME NEW c \in cs, c \in Outstanding(r)
                 PROVE  FALSE
      OBVIOUS
    <3>1. Extends(c, n)
      BY <1>1, <1>4, BelowChild DEF cs
    <3> QED
      BY <2>1, <3>1 DEF SourceFits, NoneBelow
  <2>7. Outstanding(r) \subseteq Path
    <3>1. TaskOf(r) \subseteq Path
      BY DEF Types, TaskOf, Runs
    <3>2. PoolOf(r) \subseteq Path
      <4>1. \A m \in PoolOf(r) : <<r, m>> \in pool
        BY InPool DEF Types
      <4> QED
        BY <4>1 DEF Types
    <3> QED
      BY <3>1, <3>2, Places DEF Types
  <2>8. Open(r)' \subseteq (Open(r) \ {n}) \cup cs
    <3>1. {v \in Runs(r)' : task'[v].st \in Before} = {v \in Runs(r) : task[v].st \in Before} \ {w}
      BY <1>3, <2>2 DEF Before, Runs
    <3>2. \A v \in Runs(r) \ {w} : task[v].n # n
      BY <2>1 DEF SourceFits, Distinct
    <3>3. n \notin queue[r] /\ n \notin Holds(r) /\ n \notin PoolOf(r)
      BY <2>1 DEF SourceFits, Distinct
    <3>4. {task'[v].n : v \in {v \in Runs(r)' : task'[v].st \in Before}}
            \subseteq {task[v].n : v \in {v \in Runs(r) : task[v].st \in Before}} \ {n}
      BY <2>2, <3>1, <3>2
    <3> QED
      BY <2>3, <3>3, <3>4 DEF Open
  <2>9. NoneBelow(r)'
    <3> SUFFICES ASSUME NEW m \in Outstanding(r) \cup cs, NEW k \in (Open(r) \ {n}) \cup cs, Extends(m, k)
                 PROVE  FALSE
      BY <2>4, <2>8 DEF NoneBelow
    <3>1. Open(r) \subseteq Path
      <4>1. Open(r) \subseteq Outstanding(r)
        BY Places DEF Open, TaskOf
      <4> QED
        BY <2>7, <4>1
    <3>2. CASE m \in Outstanding(r) /\ k \in Open(r)
      BY <3>2 DEF SourceFits, NoneBelow
    <3>3. CASE m \in Outstanding(r) /\ k \in cs
      <4>1. Extends(m, n)
        BY <1>1, <2>7, <3>3, BelowChild DEF cs
      <4> QED
        BY <2>1, <3>3, <4>1 DEF SourceFits, NoneBelow
    <3>4. CASE m \in cs /\ k \in Open(r) \ {n}
      <4>1. k = n \/ Extends(n, k)
        BY <1>1, <3>1, <3>4, BelowChild DEF cs
      <4> QED
        BY <2>5, <3>4, <4>1 DEF SourceFits, NoneBelow
    <3>5. CASE m \in cs /\ k \in cs
      BY <1>1, <3>5, BelowChild DEF cs
    <3> QED
      BY <3>2, <3>3, <3>4, <3>5
  <2>10. Exact(r)'
    <3>1. IsFiniteSet(Outstanding(r)) /\ pending[r] = Cardinality(Outstanding(r))
      BY DEF SourceFits, Exact
    <3>2. /\ IsFiniteSet(Outstanding(r) \cup cs)
          /\ Cardinality(Outstanding(r) \cup cs)
               = Cardinality(Outstanding(r)) + Cardinality(cs) - Cardinality({})
      BY <1>4, <2>6, <3>1, FS_Union
    <3>3. Cardinality({}) = 0 /\ Cardinality(cs) \in Nat /\ Cardinality(Outstanding(r)) \in Nat
      BY <1>4, <3>1, FS_EmptySet, FS_CardinalityType
    <3>4. pending'[r] = pending[r] + Cardinality(cs)
      BY <1>2, <1>5 DEF Types
    <3> QED
      BY <2>4, <3>1, <3>2, <3>3, <3>4 DEF Exact
  <2>11. Distinct(r)'
    <3>1. cs \cap Holds(r) = {} /\ cs \cap PoolOf(r) = {} /\ \A v \in Runs(r) : task[v].n \notin cs
      BY <2>6, Places DEF TaskOf
    <3> QED
      BY <2>2, <2>3, <3>1 DEF SourceFits, Distinct
  <2>12. Complete(r)'
    <3>1. {v \in Runs(r) : task[v].st \in Read} = {v \in Runs(r)' : task'[v].st \in Read} \cup {w}
      BY <1>1, <1>3, <2>1, <2>2 DEF Read, Runs
    <3>2. Owed(r) = Owed(r)' \cup cs
      BY <2>1, <2>2, <3>1 DEF Owed, cs
    <3>3. Named(r)' = Named(r)
      BY <1>2 DEF Named, history
    <3> QED
      BY <1>2, <2>4, <3>2, <3>3 DEF SourceFits, Complete, history
  <2>13. Seen(r)'
    <3>1. \A v \in Runs(r) \ {w} : task'[v] = task[v]
      BY <1>3 DEF Runs
    <3> QED
      BY <1>1, <1>2, <1>3, <2>1, <2>2, <3>1 DEF SourceFits, Seen, history
  <2>14. Rested(r)'
    <3>1. pc'[r] \notin Quiet
      BY <1>2, <2>5, BusyIsNotQuiet
    <3> QED
      BY <1>2, <3>1 DEF SourceFits, Rested, Quiet
  <2> QED
    BY <2>9, <2>10, <2>11, <2>12, <2>13, <2>14 DEF SourceFits
<1>6. CASE r # s
  <2>1. SameHistory(r) /\ queue'[r] = queue[r] /\ pending'[r] = pending[r]
    BY <1>1, <1>2, <1>6 DEF SameHistory, history, Types
  <2>2. w \notin Runs(r) /\ PoolOf(r)' = PoolOf(r)
    BY <1>2, <1>6 DEF Runs, PoolOf
  <2>3. task' = [task EXCEPT ![w] = task'[w]]
    BY <1>2 DEF Types
  <2> QED
    BY <1>2, <1>3, <1>6, <2>1, <2>2, <2>3, OthersKeep
<1> QED
  BY <1>5, <1>6

(* A task that is done with its node, at the end or by an exception *)
LEMMA LeaveKeeps ==
  ASSUME Types, NEW w \in Worker, Leave(w) \/ Unwind(w), quit \in BOOLEAN,
         \A q \in Source : SourceFits(q), NEW r \in Source
  PROVE  SourceFits(r)' /\ pending' \in [Source -> Nat]
<1> DEFINE s == task[w].s
           n == task[w].n
<1>1. task[w].st \in {"leave", "unwind"} /\ task[w] \in Tasks /\ s \in Source /\ n \in Path
  BY TaskFits DEF Leave, Unwind
<1>2. /\ pending' = [pending EXCEPT ![s] = @ - 1]
      /\ UNCHANGED <<pc, left, held, queue, pool, history>>
  BY DEF Leave, Unwind, dispatch
<1>3. task' = [task EXCEPT ![w].st = "left"] \/ task' = [task EXCEPT ![w] = Idle]
  BY DEF Leave, Unwind, Stage, Become
<1>4. task'[w].st \in {"idle", "left"} /\ \A v \in Worker \ {w} : task'[v] = task[v]
  BY <1>1, <1>3 DEF Types, Tasks, Idle
<1>5. ASSUME NEW q \in Source, q = s
      PROVE  SourceFits(q)' /\ pending' \in [Source -> Nat]
  <2>1. w \in Runs(q) /\ n \in TaskOf(q)
    BY <1>1, <1>5 DEF Runs, TaskOf
  <2>2. Runs(q)' = Runs(q) \ {w} /\ \A v \in Runs(q)' : task'[v] = task[v]
    BY <1>4 DEF Runs
  <2>3. SourceFits(q) /\ Distinct(q)
    BY DEF SourceFits
  <2>4. TaskOf(q)' = TaskOf(q) \ {n}
    <3>1. \A v \in Runs(q) \ {w} : task[v].n # n
      BY <2>1, <2>3 DEF Distinct
    <3> QED
      BY <2>1, <2>2, <3>1 DEF TaskOf
  <2>5. Holds(q)' = Holds(q) /\ PoolOf(q)' = PoolOf(q) /\ queue'[q] = queue[q]
    BY <1>2 DEF Holds, PoolOf
  <2>6. n \notin queue[q] /\ n \notin Holds(q) /\ n \notin PoolOf(q)
    BY <2>1, <2>3 DEF Distinct
  <2>7. n \in Outstanding(q) /\ Outstanding(q)' = Outstanding(q) \ {n}
    <3>1. Outstanding(q) = queue[q] \cup Holds(q) \cup PoolOf(q) \cup TaskOf(q)
      BY Places
    <3>2. Outstanding(q)' = queue[q] \cup Holds(q) \cup PoolOf(q) \cup (TaskOf(q) \ {n})
      BY <2>4, <2>5, Places
    <3> QED
      BY <2>1, <2>6, <3>1, <3>2
  <2>8. Open(q)' \subseteq Open(q)
    BY <2>2, <2>5 DEF Open
  <2>9. Distinct(q)'
    BY <2>2, <2>3, <2>5 DEF Distinct
  <2>10. Seen(q)'
    BY <1>2, <2>2, <2>3 DEF SourceFits, Seen, history
  <2>11. Complete(q)'
    <3>1. CASE task[w].st = "leave"
      <4>1. {v \in Runs(q)' : task'[v].st \in Read} = {v \in Runs(q) : task[v].st \in Read}
        BY <2>2, <3>1 DEF Read
      <4>2. Owed(q)' = Owed(q)
        BY <2>2, <4>1 DEF Owed
      <4>3. Named(q)' = Named(q)
        BY <1>2 DEF Named, history
      <4>4. n \in visited[q]
        BY <2>1, <2>3, <3>1 DEF SourceFits, Seen
      <4> QED
        BY <1>2, <2>3, <2>7, <4>2, <4>3, <4>4 DEF SourceFits, Complete, history
    <3>2. CASE task[w].st = "unwind"
      <4>1. threw[q] /\ threw' = threw
        BY <1>2, <2>1, <2>3, <3>2 DEF SourceFits, Seen, history
      <4> QED
        BY <4>1 DEF Complete
    <3> QED
      BY <1>1, <3>1, <3>2
  <2>12. pc'[q] \notin Quiet
    BY <1>2, <2>3, <2>7, BusyIsNotQuiet
  <2> QED
    BY <1>2, <1>5, <2>3, <2>7, <2>8, <2>9, <2>10, <2>11, <2>12, RemoveKeeps DEF Types
<1>6. CASE r # s
  <2>1. SameHistory(r) /\ pending'[r] = pending[r]
    BY <1>1, <1>2, <1>6 DEF SameHistory, history, Types
  <2>2. w \notin Runs(r) /\ PoolOf(r)' = PoolOf(r)
    BY <1>2, <1>6 DEF Runs, PoolOf
  <2>3. task' = [task EXCEPT ![w] = task'[w]]
    BY <1>3 DEF Types
  <2>4. SourceFits(r)'
    BY <1>2, <1>4, <2>1, <2>2, <2>3, OthersKeep
  <2> QED
    BY <1>1, <1>5, <2>4
<1>7. CASE r = s
  BY <1>5, <1>7
<1> QED
  BY <1>6, <1>7

-----------------------------------------------------------------------------
(* Every step keeps the types. *)

(* A job's steps keep the types. *)
LEMMA JobTypes ==
  ASSUME Inv, NEW s \in Source, JobStep(s)
  PROVE  Types'
<1>1. Types /\ Flags /\ SourceFits(s)
  BY DEF Inv
<1>2. pc' \in [Source -> Labels]
  BY <1>1 DEF JobStep, BeginSource, StartTree, EndSource, Check, Sleep, Discard, Keep, Acquire,
     Submit, Wait,
              Goto, Types, Labels
<1>3. left' \in [Source -> SUBSET Playlist]
  <2>1. left' = left \/ \E r \in left[s] : left' = [left EXCEPT ![s] = @ \ {r}]
    BY DEF JobStep, BeginSource, StartTree, EndSource, Check, Sleep, Discard, Keep, Acquire,
       Submit, Wait
  <2>2. ASSUME NEW r \in left[s], left' = [left EXCEPT ![s] = @ \ {r}]
        PROVE  left' \in [Source -> SUBSET Playlist]
    BY <1>1, <2>2 DEF Types
  <2> QED
    BY <1>1, <2>1, <2>2 DEF Types
<1>4. queue' \in [Source -> SUBSET Path]
  <2>1. CASE StartTree(s)
    <3>1. PICK r \in left[s] : queue' = [queue EXCEPT ![s] = @ \cup {<<r>>}]
      BY <2>1 DEF StartTree
    <3>2. r \in Playlist
      BY <1>1 DEF Types
    <3>3. <<r>> \in Path
      BY <3>2 DEF Path
    <3> QED
      BY <1>1, <3>1, <3>3 DEF Types
  <2>2. CASE ~StartTree(s)
    <3>1. queue' = queue \/ \E n \in queue[s] : queue' = [queue EXCEPT ![s] = @ \ {n}]
      BY <2>2 DEF JobStep, BeginSource, EndSource, Check, Sleep, Discard, Keep, Acquire,
         Submit, Wait
    <3>2. ASSUME NEW n \in queue[s], queue' = [queue EXCEPT ![s] = @ \ {n}]
          PROVE  queue' \in [Source -> SUBSET Path]
      BY <1>1, <3>2 DEF Types
    <3> QED
      BY <1>1, <3>1, <3>2 DEF Types
  <2> QED
    BY <2>1, <2>2
<1>5. /\ held' \in [Source -> Seq(Playlist)]
      /\ \A r \in Source : Holds(r)' \subseteq Path
  <2>1. CASE \E n \in queue[s] : held' = [held EXCEPT ![s] = n] /\ pc' = [pc EXCEPT ![s] = "took"]
    <3>1. PICK n \in queue[s] : held' = [held EXCEPT ![s] = n] /\ pc' = [pc EXCEPT ![s] = "took"]
      BY <2>1
    <3>2. n \in Path /\ n \in Seq(Playlist)
      BY <1>1 DEF Types, Path
    <3> QED
      BY <1>1, <3>1, <3>2 DEF Types, Holds
  <2>2. CASE held' = [held EXCEPT ![s] = NoNode] /\ pc' = [pc EXCEPT ![s] = "check"]
    BY <1>1, <2>2 DEF Types, Holds, NoNode
  <2>3. CASE /\ held' = held
             /\ \E l \in Labels : /\ pc' = [pc EXCEPT ![s] = l]
                                  /\ l \in {"took", "acquire", "submit"}
                                       => pc[s] \in {"took", "acquire", "submit"}
    <3>1. PICK l \in Labels :
            /\ pc' = [pc EXCEPT ![s] = l]
            /\ l \in {"took", "acquire", "submit"} => pc[s] \in {"took", "acquire", "submit"}
      BY <2>3
    <3> QED
      BY <1>1, <2>3, <3>1 DEF Types, Holds
  <2>4. CASE Check(s)
    <3>1. \/ \E n \in queue[s] : held' = [held EXCEPT ![s] = n] /\ pc' = [pc EXCEPT ![s] = "took"]
          \/ held' = held /\ pc' = [pc EXCEPT ![s] = "wait"]
          \/ held' = held /\ pc' = [pc EXCEPT ![s] = "drowsy"]
      BY <2>4 DEF Check, Goto
    <3> QED
      BY <2>1, <2>3, <3>1 DEF Labels
  <2>5. CASE Discard(s) \/ Submit(s)
    BY <2>2, <2>5 DEF Discard, Submit, Goto
  <2>6. CASE BeginSource(s) \/ StartTree(s) \/ EndSource(s) \/ Sleep(s) \/ Keep(s) \/ Acquire(s) \/ Wait(s)
    BY <2>3, <2>6 DEF BeginSource, StartTree, EndSource, Sleep, Keep, Acquire, Wait, Goto,
       Labels
  <2> QED
    BY <2>4, <2>5, <2>6 DEF JobStep
<1>6. pending' \in [Source -> Nat]
  <2>1. CASE Discard(s)
    BY <1>1, <2>1, DiscardKeeps DEF Flags
  <2>2. CASE ~Discard(s)
    <3>1. pending' = pending \/ pending' = [pending EXCEPT ![s] = @ + 1]
      BY <2>2 DEF JobStep, BeginSource, StartTree, EndSource, Check, Sleep, Keep, Acquire,
         Submit, Wait
    <3>2. pending \in [Source -> Nat]
      BY <1>1 DEF Types
    <3>3. CASE pending' = [pending EXCEPT ![s] = @ + 1]
      BY <3>2, <3>3
    <3> QED
      BY <3>1, <3>2, <3>3
  <2> QED
    BY <2>1, <2>2
<1>7. pool' \subseteq Source \X Path
  <2>1. CASE Submit(s)
    <3>1. held[s] \in Path
      BY <1>1, <2>1 DEF Submit, Types, Holds
    <3> QED
      BY <1>1, <2>1, <3>1 DEF Submit, Types
  <2>2. CASE ~Submit(s)
    BY <1>1, <2>2 DEF JobStep, BeginSource, StartTree, EndSource, Check, Sleep, Discard, Keep,
       Acquire, Wait,
                      Types
  <2> QED
    BY <2>1, <2>2
<1>8. UNCHANGED <<discovered, task, history>>
  BY DEF JobStep, BeginSource, StartTree, EndSource, Check, Sleep, Discard, Keep, Acquire,
     Submit, Wait,
         limiter, history
<1> QED
  BY <1>1, <1>2, <1>3, <1>4, <1>5, <1>6, <1>7, <1>8 DEF Types, history

(* A worker's steps keep the types. *)
LEMMA WorkerTypes ==
  ASSUME Inv, NEW w \in Worker, WorkerStep(w)
  PROVE  Types'
<1>1. Types /\ Flags /\ \A s \in Source : SourceFits(s)
  BY DEF Inv
<1>2. left' = left /\ held' = held /\ (pc' = pc \/ (pc' = Woken(pc, task[w].s) /\ task[w].s \in Source))
  <2>1. CASE NotifyPushed(w) \/ NotifyLeft(w)
    <3>1. task[w].s \in Source
      BY <1>1, <2>1, TaskFits DEF NotifyPushed, NotifyLeft
    <3> QED
      BY <2>1, <3>1 DEF NotifyPushed, NotifyLeft, Notify
  <2>2. CASE ~(NotifyPushed(w) \/ NotifyLeft(w))
    BY <2>2 DEF WorkerStep, TakeTask, ScanNode, Discover, Count, SetLimit, PushChildren,
       Release, Leave, Unwind,
                dispatch
  <2> QED
    BY <2>1, <2>2
<1>3. pc' \in [Source -> Labels] /\ \A r \in Source : Holds(r)' \subseteq Path
  BY <1>1, <1>2 DEF Woken, Types, Labels, Holds
<1>4. task' \in [Worker -> Tasks \cup {Idle}]
      /\ \A v \in Worker : task'[v].st # "idle" => task'[v].n \in Path
  <2>1. ASSUME NEW x \in Tasks \cup {Idle}, task' = [task EXCEPT ![w] = x], x.st # "idle" => x.n \in Path
        PROVE  /\ task' \in [Worker -> Tasks \cup {Idle}]
               /\ \A v \in Worker : task'[v].st # "idle" => task'[v].n \in Path
    BY <1>1, <2>1 DEF Types
  <2>2. CASE TakeTask(w)
    <3>1. PICK t \in pool : Become(w, Task("scan", t[1], t[2]))
      BY <2>2 DEF TakeTask
    <3>2. t[1] \in Source /\ t[2] \in Path /\ t[2] \in Seq(Playlist)
      BY <1>1 DEF Types, Path
    <3>3. Task("scan", t[1], t[2]) \in Tasks /\ Task("scan", t[1], t[2]).n = t[2]
      BY <3>2 DEF Task, Tasks, Stages, Nodes
    <3> QED
      BY <2>1, <3>1, <3>2, <3>3 DEF Become
  <2>3. CASE ScanNode(w)
    <3>1. task[w] \in Tasks /\ task[w].n \in Path
      BY <1>1, <2>3, TaskFits DEF ScanNode
    <3>2. Nested[Last(task[w].n)] \subseteq Playlist
      BY <3>1, DispatcherAssumption DEF DispatcherAssumption, Path, Last
    <3>3. \E x \in Tasks : task' = [task EXCEPT ![w] = x] /\ x.n = task[w].n
      <4>1. CASE Stage(w, "release") \/ Stage(w, "unwind")
        <5>1. \E st \in Stages : task' = [task EXCEPT ![w] = [task[w] EXCEPT !.st = st]]
          BY <1>1, <4>1 DEF Stage, Stages, Types
        <5> QED
          BY <3>1, <5>1 DEF Tasks
      <4>2. CASE task' = [task EXCEPT ![w].st = "entries", ![w].rest = Nested[Last(task[w].n)]]
        <5> DEFINE x == [task[w] EXCEPT !.st = "entries", !.rest = Nested[Last(task[w].n)]]
        <5>1. task' = [task EXCEPT ![w] = x]
          BY <1>1, <4>2 DEF Types
        <5>2. x \in Tasks /\ x.n = task[w].n
          BY <3>1, <3>2 DEF Tasks, Stages
        <5> QED
          BY <5>1, <5>2
      <4> QED
        BY <2>3, <4>1, <4>2 DEF ScanNode
    <3> QED
      BY <2>1, <3>1, <3>3
  <2>4. CASE Plods(w)
    <3>1. \E x \in Tasks \cup {Idle} :
            task' = [task EXCEPT ![w] = x] /\ (x.st = "idle" \/ x.n = task[w].n) /\ task[w].st # "idle"
      BY <1>1, <2>4, PlodShape
    <3>2. task[w].st # "idle" => task[w].n \in Path
      BY <1>1 DEF Types
    <3> QED
      BY <2>1, <3>1, <3>2
  <2>5. CASE PushChildren(w) \/ Leave(w)
    <3>1. task[w] \in Tasks /\ task[w].n \in Path
      BY <1>1, <2>5, TaskFits DEF PushChildren, Leave
    <3>2. \E st \in Stages : task' = [task EXCEPT ![w] = [task[w] EXCEPT !.st = st]]
      BY <1>1, <2>5 DEF PushChildren, Leave, Stage, Stages, Types
    <3>3. PICK st \in Stages : task' = [task EXCEPT ![w] = [task[w] EXCEPT !.st = st]]
      BY <3>2
    <3>4. [task[w] EXCEPT !.st = st] \in Tasks /\ [task[w] EXCEPT !.st = st].n = task[w].n
      BY <3>1 DEF Tasks
    <3> QED
      BY <2>1, <3>1, <3>3, <3>4
  <2>6. CASE Unwind(w)
    BY <2>1, <2>6 DEF Unwind, Become, Idle
  <2> QED
    BY <2>2, <2>3, <2>4, <2>5, <2>6 DEF WorkerStep, Plods
<1>5. queue' \in [Source -> SUBSET Path]
  <2>1. CASE PushChildren(w)
    <3>1. task[w].s \in Source /\ task[w].n \in Path
      BY <1>1, <2>1, TaskFits DEF PushChildren
    <3>2. Children(task[w].n) \subseteq Path
      BY <3>1, ChildrenFit
    <3> QED
      BY <1>1, <2>1, <3>1, <3>2 DEF PushChildren, Types
  <2>2. CASE ~PushChildren(w)
    BY <1>1, <2>2 DEF WorkerStep, TakeTask, ScanNode, Discover, Count, SetLimit, NotifyPushed,
       Release, Leave,
                      NotifyLeft, Unwind, Types
  <2> QED
    BY <2>1, <2>2
<1>6. pending' \in [Source -> Nat]
  <2>1. CASE Leave(w) \/ Unwind(w)
    <3>1. task[w].s \in Source
      BY <1>1, <2>1, TaskFits DEF Leave, Unwind
    <3> QED
      BY <1>1, <2>1, <3>1, LeaveKeeps DEF Flags
  <2>2. CASE PushChildren(w)
    <3>1. task[w].s \in Source /\ task[w].n \in Path
      BY <1>1, <2>2, TaskFits DEF PushChildren
    <3>2. Cardinality(Children(task[w].n)) \in Nat
      BY <3>1, ChildrenFit, FS_CardinalityType
    <3> QED
      BY <1>1, <2>2, <3>1, <3>2 DEF PushChildren, Enters, Types
  <2>3. CASE ~(Leave(w) \/ Unwind(w) \/ PushChildren(w))
    BY <1>1, <2>3 DEF WorkerStep, TakeTask, ScanNode, Discover, Count, SetLimit, NotifyPushed,
       Release,
                      NotifyLeft, Types
  <2> QED
    BY <2>1, <2>2, <2>3
<1>7. discovered' \in [Source -> Nat]
  <2>1. CASE Discover(w)
    <3>1. discovered' = [discovered EXCEPT ![task[w].s] = @ + 1] /\ task[w].s \in Source
      BY <1>1, <2>1, TaskFits DEF Discover
    <3> QED
      BY <1>1, <3>1 DEF Types
  <2>2. CASE ~Discover(w)
    BY <1>1, <2>2 DEF WorkerStep, TakeTask, ScanNode, Count, SetLimit, PushChildren,
       NotifyPushed, Release,
                      Leave, NotifyLeft, Unwind, limiter, Types
  <2> QED
    BY <2>1, <2>2
<1>8. pool' \subseteq Source \X Path
  BY <1>1 DEF WorkerStep, TakeTask, ScanNode, Discover, Count, SetLimit, PushChildren,
     NotifyPushed, Release,
              Leave, NotifyLeft, Unwind, Types
<1>9. /\ visited' \in [Source -> SUBSET Path] /\ opened' \in [Source -> SUBSET Path]
      /\ threw' \in [Source -> BOOLEAN]
  <2>1. CASE ScanNode(w)
    <3>1. task[w].n \in Path
      BY <1>1, <2>1, TaskFits DEF ScanNode
    <3>2. visited' = [visited EXCEPT ![task[w].s] = @ \cup {task[w].n}]
      BY <2>1 DEF ScanNode
    <3>3. opened' = opened \/ opened' = [opened EXCEPT ![task[w].s] = @ \cup {task[w].n}]
      BY <2>1 DEF ScanNode
    <3>4. threw' = threw \/ threw' = [threw EXCEPT ![task[w].s] = TRUE]
      BY <2>1 DEF ScanNode
    <3>5. visited' \in [Source -> SUBSET Path]
      BY <1>1, <3>1, <3>2 DEF Types
    <3>6. opened' \in [Source -> SUBSET Path]
      <4>1. opened \in [Source -> SUBSET Path]
        BY <1>1 DEF Types
      <4>2. CASE opened' = [opened EXCEPT ![task[w].s] = @ \cup {task[w].n}]
        BY <3>1, <4>1, <4>2
      <4> QED
        BY <3>3, <4>1, <4>2
    <3>7. threw' \in [Source -> BOOLEAN]
      BY <1>1, <3>4 DEF Types
    <3> QED
      BY <3>5, <3>6, <3>7
  <2>2. CASE ~ScanNode(w)
    <3>1. UNCHANGED <<visited, opened, threw>>
      BY <2>2 DEF WorkerStep, TakeTask, Discover, Count, SetLimit, PushChildren, NotifyPushed,
         Release, Leave,
                  NotifyLeft, Unwind, history
    <3> QED
      BY <1>1, <3>1 DEF Types
  <2> QED
    BY <2>1, <2>2
<1> QED
  BY <1>1, <1>2, <1>3, <1>4, <1>5, <1>6, <1>7, <1>8, <1>9 DEF Types

-----------------------------------------------------------------------------
(* The invariant, and what it says. *)

(* Nothing is outstanding at the start. *)
LEMMA InvInit ==
  ASSUME Init
  PROVE  Inv
<1>1. Types
  BY DispatcherAssumption DEF DispatcherAssumption, Init, Types, Labels, Holds, NoNode, Idle
<1>2. Flags
  BY DEF Init, Flags
<1>3. ASSUME NEW s \in Source
      PROVE  SourceFits(s)
  <2>1. queue[s] = {} /\ Holds(s) = {} /\ PoolOf(s) = {} /\ Runs(s) = {} /\ TaskOf(s) = {}
    BY DEF Init, Holds, PoolOf, Runs, Idle, TaskOf
  <2>2. Outstanding(s) = {}
    BY <2>1, Places
  <2>3. Distinct(s) /\ NoneBelow(s) /\ Seen(s)
    BY <2>1, <2>2 DEF Distinct, NoneBelow, Seen
  <2>4. Exact(s)
    BY <2>2, FS_EmptySet DEF Exact, Init
  <2>5. Complete(s)
    <3>1. Owed(s) = {}
      BY <2>1 DEF Owed
    <3>2. Named(s) = {}
      BY DEF Init, Named
    <3> QED
      BY <2>2, <3>1, <3>2 DEF Complete, Init
  <2>6. Rested(s)
    BY <2>2 DEF Rested, Init
  <2> QED
    BY <2>3, <2>4, <2>5, <2>6 DEF SourceFits
<1> QED
  BY <1>1, <1>2, <1>3 DEF Inv

(* Every step keeps the invariant. *)
LEMMA InvNext ==
  ASSUME Inv, [Next]_vars
  PROVE  Inv'
<1>1. Types /\ Flags /\ (\A s \in Source : SourceFits(s)) /\ quit \in BOOLEAN
  BY DEF Inv, Flags
<1>2. ASSUME NEW s \in Source, JobStep(s)
      PROVE  Inv'
  <2>1. Types'
    BY <1>2, JobTypes
  <2>2. Flags'
    <3>1. UNCHANGED <<cancelled, quit>>
      BY <1>2 DEF JobStep, BeginSource, StartTree, EndSource, Check, Sleep, Discard, Keep,
         Acquire, Submit,
                  Wait, history
    <3> QED
      BY <1>1, <3>1 DEF Flags
  <2>3. SourceFits(s)'
    <3>1. CASE Check(s) /\ ~UNCHANGED queue
      <4>1. PICK n \in queue[s] : /\ queue' = [queue EXCEPT ![s] = @ \ {n}]
                                  /\ held' = [held EXCEPT ![s] = n] /\ Goto(s, "took")
        BY <3>1 DEF Check
      <4>2. pc[s] = "check" /\ UNCHANGED <<left, pending, pool, task, history>>
        BY <3>1 DEF Check, limiter, history
      <4> QED
        BY <1>1, <4>1, <4>2, CheckKeeps
    <3>2. CASE StartTree(s)
      BY <1>1, <3>2, StartTreeKeeps
    <3>3. CASE Submit(s)
      BY <1>1, <3>3, SubmitKeeps
    <3>4. CASE Discard(s)
      BY <1>1, <3>4, DiscardKeeps DEF Flags
    <3>5. CASE \/ BeginSource(s) \/ EndSource(s) \/ Sleep(s) \/ Keep(s) \/ Acquire(s) \/ Wait(s)
               \/ Check(s) /\ UNCHANGED queue
      BY <1>1, <3>5, JobWalks DEF Flags
    <3> QED
      BY <1>2, <3>1, <3>2, <3>3, <3>4, <3>5 DEF JobStep
  <2>4. ASSUME NEW r \in Source, r # s
        PROVE  SourceFits(r)'
    BY <1>1, <1>2, <2>4, JobElsewhere
  <2> QED
    BY <2>1, <2>2, <2>3, <2>4 DEF Inv
<1>3. ASSUME NEW w \in Worker, WorkerStep(w)
      PROVE  Inv'
  <2>1. Types'
    BY <1>3, WorkerTypes
  <2>2. Flags'
    <3>1. UNCHANGED <<cancelled, quit>>
      BY <1>3 DEF WorkerStep, TakeTask, ScanNode, Discover, Count, SetLimit, PushChildren,
         NotifyPushed,
                  Release, Leave, NotifyLeft, Unwind, history
    <3> QED
      BY <1>1, <3>1 DEF Flags
  <2>3. ASSUME NEW r \in Source
        PROVE  SourceFits(r)'
    <3>1. CASE TakeTask(w)
      BY <1>1, <3>1, TakeTaskKeeps
    <3>2. CASE ScanNode(w)
      BY <1>1, <3>2, ScanNodeKeeps
    <3>3. CASE PushChildren(w)
      BY <1>1, <3>3, PushChildrenKeeps
    <3>4. CASE Leave(w) \/ Unwind(w)
      BY <1>1, <3>4, LeaveKeeps
    <3>5. CASE Plods(w)
      BY <1>1, <3>5, PlodKeeps
    <3> QED
      BY <1>3, <3>1, <3>2, <3>3, <3>4, <3>5 DEF WorkerStep, Plods
  <2> QED
    BY <2>1, <2>2, <2>3 DEF Inv
<1>4. CASE RequestCancel \/ UNCHANGED vars
  <2>1. /\ UNCHANGED <<pc, left, held, queue, pending, discovered, pool, task, visited, opened, threw>>
        /\ quit' = TRUE \/ quit' = quit
    BY <1>4 DEF RequestCancel, vars, dispatch, limiter, history
  <2>2. Types'
    BY <1>1, <2>1 DEF Types, Holds
  <2>3. Flags'
    <3>1. CASE RequestCancel
      BY <3>1 DEF RequestCancel, Flags
    <3>2. CASE UNCHANGED vars
      BY <1>1, <3>2 DEF Flags, vars, history
    <3> QED
      BY <1>4, <3>1, <3>2
  <2>4. ASSUME NEW s \in Source
        PROVE  SourceFits(s)'
    <3>1. SamePlaces(s) /\ SameHistory(s)
      BY <2>1 DEF SamePlaces, SameHistory, Holds, PoolOf, Runs
    <3> QED
      BY <1>1, <2>1, <3>1, RestKeeps DEF Quiet
  <2> QED
    BY <2>2, <2>3, <2>4 DEF Inv
<1> QED
  BY <1>2, <1>3, <1>4 DEF Next

(* The invariant holds in every state of every execution. *)
THEOREM InvHolds == Spec => []Inv
<1>1. Init => Inv
  BY InvInit
<1>2. Inv /\ [Next]_vars => Inv'
  BY InvNext
<1> QED
  BY <1>1, <1>2, PTL DEF Spec

(* TaskGroup's count is that of the nodes queued, held, submitted or being *)
(* scanned, whatever the playlists, the number of workers and the order of *)
(* their steps: discards, exceptions and children included.                *)
THEOREM CountIsExact == Spec => []PendingIsExact
<1>1. Inv => PendingIsExact
  BY DEF Inv, SourceFits, Exact, PendingIsExact
<1> QED
  BY <1>1, InvHolds, PTL

(* RunPlaylistDispatcher never ends with a node left behind, and a source  *)
(* that is done has none.                                                  *)
THEOREM DoneLeavesNothing == Spec => []EndsWhenDone
<1>1. Inv => EndsWhenDone
  BY DEF Inv, SourceFits, Rested, EndsWhenDone
<1> QED
  BY <1>1, InvHolds, PTL

(* A source that is done, was not cancelled and whose tasks did not throw  *)
(* has looked at every playlist it came across; with what PlaylistText     *)
(* says of the entries, which is arithmetic on fixed data, the scan is     *)
(* complete.                                                               *)
THEOREM ScanMissesNothing == Spec => [](EntriesAreRead => ScanIsComplete)
<1>1. ASSUME Inv, NEW s \in Source, pc[s] = "done", ~quit, ~threw[s]
      PROVE  visited[s] = {<<r>> : r \in Roots[s]} \cup UNION {Children(n) : n \in opened[s]}
  <2>1. SourceFits(s)
    BY <1>1 DEF Inv
  <2>2. Outstanding(s) = {} /\ left[s] = {}
    BY <1>1, <2>1 DEF SourceFits, Rested
  <2>3. Owed(s) = {}
    <3>1. Runs(s) = {}
      <4>1. \A w \in Runs(s) : task[w].n \in Outstanding(s)
        BY Places DEF TaskOf
      <4> QED
        BY <2>2, <4>1
    <3> QED
      BY <3>1 DEF Owed
  <2>4. Named(s) = {<<r>> : r \in Roots[s]} \cup UNION {Children(n) : n \in opened[s]}
    BY <2>2 DEF Named
  <2> QED
    BY <1>1, <2>1, <2>2, <2>3, <2>4 DEF SourceFits, Complete
<1>2. Inv => VisitsAll
  BY <1>1 DEF VisitsAll
<1>3. Inv => EndsWhenDone
  BY DEF Inv, SourceFits, Rested, EndsWhenDone
<1>4. Inv => (EntriesAreRead => ScanIsComplete)
  BY <1>2, <1>3 DEF ScanIsComplete
<1> QED
  BY <1>4, InvHolds, PTL

-----------------------------------------------------------------------------
(* The slots of the limiter.                                               *)

HeldTaken(s) == IF pc[s] = "submit" THEN {held[s]} ELSE {}
Off == {"idle", "left", "leave"}
TaskTaken(s) == {task[w].n : w \in {v \in Worker : task[v].st \notin Off /\ task[v].s = s}}

SlotTypes == limit \in [Source -> Nat] /\ active \in [Source -> Nat]

(* A limit that is about to be set calls for no more than was found since. *)
LimitsFit(s) ==
  \A w \in Worker : task[w].st = "limit" /\ task[w].s = s => task[w].v <= discovered[s]

SlotInv(s) ==
  /\ limit[s] <= ConcurrencyFor(discovered[s])
  /\ active[s] <= ConcurrencyFor(discovered[s])
  /\ Cardinality(Taken(s)) <= active[s]
  /\ active[s] = Cardinality(Taken(s)) \/ threw[s]
  /\ LimitsFit(s)

SlotsInv == SlotTypes /\ \A s \in Source : SlotInv(s)

(* The concurrency is a number, one at least, and does not fall. *)
LEMMA ConcurrencyRises ==
  ASSUME NEW m \in Nat, NEW n \in Nat, m <= n
  PROVE  /\ ConcurrencyFor(m) \in Nat /\ ConcurrencyFor(n) \in Nat /\ ConcurrencyFor(m) >= 1
         /\ ConcurrencyFor(m) <= ConcurrencyFor(n)
<1> DEFINE C(k) == IF k < ReferenceCount THEN k ELSE ReferenceCount
<1>1. ReferenceCount \in Nat /\ Concurrency \in [0 .. ReferenceCount -> Nat \ {0}]
      /\ \A i, j \in 0 .. ReferenceCount : i <= j => Concurrency[i] <= Concurrency[j]
  BY DispatcherAssumption DEF DispatcherAssumption
<1>2. C(m) \in 0 .. ReferenceCount /\ C(n) \in 0 .. ReferenceCount /\ C(m) <= C(n)
  BY <1>1
<1>3. ConcurrencyFor(m) = Concurrency[C(m)] /\ ConcurrencyFor(n) = Concurrency[C(n)]
  BY DEF ConcurrencyFor
<1> HIDE DEF C
<1> QED
  BY <1>1, <1>2, <1>3

(* The three places of a node with a slot, by name *)
LEMMA TakenPlaces ==
  ASSUME NEW s
  PROVE  /\ Taken(s) = HeldTaken(s) \cup PoolOf(s) \cup TaskTaken(s)
         /\ Taken(s)' = HeldTaken(s)' \cup PoolOf(s)' \cup TaskTaken(s)'
<1>1. {w \in {v \in Runs(s) : task[v].st # "leave"} : TRUE}
        = {v \in Worker : task[v].st \notin Off /\ task[v].s = s}
  BY DEF Runs, Off
<1>2. {w \in {v \in Runs(s)' : task'[v].st # "leave"} : TRUE}
        = {v \in Worker : task'[v].st \notin Off /\ task'[v].s = s}
  BY DEF Runs, Off
<1>3. {task[w].n : w \in {v \in Runs(s) : task[v].st # "leave"}} = TaskTaken(s)
  BY <1>1 DEF TaskTaken
<1>4. {task'[w].n : w \in {v \in Runs(s)' : task'[v].st # "leave"}} = TaskTaken(s)'
  BY <1>2 DEF TaskTaken
<1> QED
  BY <1>3, <1>4 DEF Taken, HeldTaken, PoolOf

(* They are nodes still to be dealt with, so that there are finitely many. *)
LEMMA TakenIsFinite ==
  ASSUME NEW s \in Source, SourceFits(s)
  PROVE  IsFiniteSet(Taken(s)) /\ Cardinality(Taken(s)) \in Nat
<1>1. HeldTaken(s) \subseteq Holds(s) /\ TaskTaken(s) \subseteq TaskOf(s)
  BY DEF HeldTaken, Holds, TaskTaken, TaskOf, Runs, Off
<1>2. Taken(s) \subseteq Outstanding(s)
  BY <1>1, TakenPlaces, Places
<1> QED
  BY <1>2, FS_Subset, FS_CardinalityType DEF SourceFits, Exact

(* A step that neither takes nor gives back a slot of a source *)
LEMMA SlotsRest ==
  ASSUME NEW s \in Source, SlotInv(s), Taken(s)' = Taken(s), LimitsFit(s)',
         active'[s] = active[s], threw[s] => threw'[s],
         limit'[s] <= ConcurrencyFor(discovered'[s]),
         discovered[s] \in Nat, discovered'[s] \in Nat, discovered[s] <= discovered'[s],
         active[s] \in Nat
  PROVE  SlotInv(s)'
<1>1. /\ ConcurrencyFor(discovered[s]) <= ConcurrencyFor(discovered'[s])
      /\ ConcurrencyFor(discovered[s]) \in Nat /\ ConcurrencyFor(discovered'[s]) \in Nat
  BY ConcurrencyRises
<1>2. active'[s] <= ConcurrencyFor(discovered'[s])
  BY <1>1 DEF SlotInv
<1>3. ConcurrencyFor(discovered[s])' = ConcurrencyFor(discovered'[s])
  BY DEF ConcurrencyFor
<1> QED
  BY <1>2, <1>3 DEF SlotInv

(* A node that a slot was acquired for *)
LEMMA SlotTaken ==
  ASSUME Inv, SlotsInv, NEW s \in Source, Acquire(s)
  PROVE  SlotInv(s)'
<1>1. /\ pc[s] = "acquire" /\ pc'[s] = "submit" /\ active'[s] = active[s] + 1 /\ active[s] < limit[s]
      /\ UNCHANGED <<held, limit, discovered, pool, task, threw>>
  BY DEF Acquire, HasSlot, Goto, Inv, Types, SlotsInv, SlotTypes, history
<1>2. SourceFits(s) /\ SlotInv(s) /\ active[s] \in Nat /\ limit[s] \in Nat /\ discovered[s] \in Nat
  BY DEF Inv, SlotsInv, SlotTypes, Types
<1>3. HeldTaken(s) = {} /\ HeldTaken(s)' = {held[s]} /\ PoolOf(s)' = PoolOf(s) /\ TaskTaken(s)' = TaskTaken(s)
  BY <1>1 DEF HeldTaken, PoolOf, TaskTaken
<1>4. held[s] \notin PoolOf(s) /\ held[s] \notin TaskTaken(s)
  <2>1. held[s] \in Holds(s)
    BY <1>1 DEF Holds
  <2> QED
    BY <1>2, <2>1 DEF SourceFits, Distinct, TaskTaken, Runs, Off
<1>5. Taken(s)' = Taken(s) \cup {held[s]} /\ held[s] \notin Taken(s)
  BY <1>3, <1>4, TakenPlaces
<1>6. IsFiniteSet(Taken(s)) /\ Cardinality(Taken(s)) \in Nat
  BY <1>2, TakenIsFinite
<1>7. Cardinality(Taken(s)') = Cardinality(Taken(s)) + 1
  BY <1>5, <1>6, FS_AddElement
<1>8. ConcurrencyFor(discovered[s]) \in Nat
  BY <1>2, ConcurrencyRises
<1>9. ConcurrencyFor(discovered[s])' = ConcurrencyFor(discovered[s]) /\ Cardinality(Taken(s))' = Cardinality(Taken(s)')
  BY <1>1
<1>10. LimitsFit(s)'
  BY <1>1, <1>2 DEF SlotInv, LimitsFit
<1>11. active'[s] <= ConcurrencyFor(discovered[s]) /\ limit'[s] <= ConcurrencyFor(discovered[s])
  BY <1>1, <1>2, <1>8 DEF SlotInv
<1>12. Cardinality(Taken(s)') <= active'[s]
  BY <1>1, <1>2, <1>6, <1>7 DEF SlotInv
<1>13. active'[s] = Cardinality(Taken(s)') \/ threw'[s]
  BY <1>1, <1>2, <1>6, <1>7 DEF SlotInv
<1> QED
  BY <1>1, <1>9, <1>10, <1>11, <1>12, <1>13 DEF SlotInv

(* The other steps of a job, for every source *)
LEMMA JobSlots ==
  ASSUME Inv, SlotsInv, NEW s \in Source, JobStep(s), NEW r \in Source, ~(r = s /\ Acquire(s))
  PROVE  SlotInv(r)'
<1>1. SlotInv(r) /\ active[r] \in Nat /\ limit[r] \in Nat /\ discovered[r] \in Nat
  BY DEF Inv, SlotsInv, SlotTypes, Types
<1>2. UNCHANGED <<limit, discovered, task, threw>>
  BY DEF JobStep, BeginSource, StartTree, EndSource, Check, Sleep, Discard, Keep, Acquire,
     Submit, Wait,
         limiter, history
<1>3. active'[r] = active[r]
  <2>1. CASE Acquire(s)
    BY <2>1 DEF Acquire, SlotsInv, SlotTypes
  <2>2. CASE ~Acquire(s)
    BY <2>2 DEF JobStep, BeginSource, StartTree, EndSource, Check, Sleep, Discard, Keep,
       Submit, Wait, limiter
  <2> QED
    BY <2>1, <2>2
<1>4. TaskTaken(r)' = TaskTaken(r)
  BY <1>2 DEF TaskTaken
<1>5. Taken(r)' = Taken(r)
  <2>1. CASE Submit(s) /\ r = s
    <3> DEFINE n == held[s]
    <3>1. pc[s] = "submit" /\ pc'[s] = "check" /\ pool' = pool \cup {<<s, n>>}
      BY <2>1 DEF Submit, Goto, Inv, Types
    <3>2. HeldTaken(r) = {n} /\ HeldTaken(r)' = {}
      BY <2>1, <3>1 DEF HeldTaken
    <3>3. PoolOf(r)' = PoolOf(r) \cup {n}
      <4> DEFINE A == {u \in pool : u[1] = s}
                 B == {u \in pool' : u[1] = s}
      <4>1. B = A \cup {<<s, n>>}
        BY <3>1
      <4>2. PoolOf(s) = {t[2] : t \in A} /\ PoolOf(s)' = {t[2] : t \in B} /\ <<s, n>>[2] = n
        BY DEF PoolOf
      <4> HIDE DEF A, B
      <4> QED
        BY <2>1, <4>1, <4>2
    <3> QED
      BY <1>4, <3>2, <3>3, TakenPlaces
  <2>2. CASE ~(Submit(s) /\ r = s)
    <3>1. HeldTaken(r)' = HeldTaken(r)
      <4>1. CASE r = s
        <5>1. pc[s] # "submit" /\ pc'[s] # "submit"
          BY <2>2, <4>1 DEF JobStep, BeginSource, StartTree, EndSource, Check, Sleep, Discard,
             Keep, Wait,
                            Goto, Inv, Types
        <5> QED
          BY <4>1, <5>1 DEF HeldTaken
      <4>2. CASE r # s
        <5>1. pc'[r] = pc[r] /\ held'[r] = held[r]
          BY <4>2 DEF JobStep, BeginSource, StartTree, EndSource, Check, Sleep, Discard, Keep,
             Acquire, Submit,
                      Wait, Goto, Inv, Types
        <5> QED
          BY <5>1 DEF HeldTaken
      <4> QED
        BY <4>1, <4>2
    <3>2. PoolOf(r)' = PoolOf(r)
      <4>1. pool' = pool \/ (r # s /\ pool' = pool \cup {<<s, held[s]>>})
        BY <2>2 DEF JobStep, BeginSource, StartTree, EndSource, Check, Sleep, Discard, Keep,
           Acquire, Submit, Wait
      <4>2. {u \in pool' : u[1] = r} = {u \in pool : u[1] = r}
        BY <4>1
      <4> QED
        BY <4>2 DEF PoolOf
    <3> QED
      BY <1>4, <3>1, <3>2, TakenPlaces
  <2> QED
    BY <2>1, <2>2
<1>6. LimitsFit(r)'
  BY <1>1, <1>2 DEF SlotInv, LimitsFit
<1>7. limit'[r] <= ConcurrencyFor(discovered'[r])
  BY <1>1, <1>2 DEF SlotInv
<1>8. discovered[r] <= discovered'[r] /\ discovered'[r] \in Nat
  BY <1>1, <1>2
<1> QED
  BY <1>1, <1>2, <1>3, <1>5, <1>6, <1>7, <1>8, SlotsRest

(* What a task that goes on with its node does not touch *)
Walks(w) ==
  \/ ScanNode(w) \/ Discover(w) \/ Count(w) \/ SetLimit(w) \/ PushChildren(w) \/ NotifyPushed(w)

(* Its node, its source and its slot are those it had. *)
LEMMA WalkShape ==
  ASSUME Types, NEW w \in Worker, Walks(w)
  PROVE  /\ task[w] \in Tasks /\ task[w].st \notin Off /\ task'[w].st \notin Off
         /\ task'[w].s = task[w].s /\ task'[w].n = task[w].n
         /\ \A v \in Worker \ {w} : task'[v] = task[v]
         /\ UNCHANGED <<held, pool, active>>
<1>1. task[w].st \in {"scan", "entries", "count", "limit", "pushed"} /\ task[w] \in Tasks
  BY TaskFits DEF Walks, ScanNode, Discover, Count, SetLimit, PushChildren, NotifyPushed
<1>2. UNCHANGED <<held, pool, active>>
  BY DEF Walks, ScanNode, Discover, Count, SetLimit, PushChildren, NotifyPushed, dispatch,
     limiter
<1>3. CASE \E st \in {"release", "unwind", "pushed"} : Stage(w, st)
  BY <1>1, <1>2, <1>3 DEF Stage, Types, Tasks, Off
<1>4. CASE task' = [task EXCEPT ![w].st = "entries", ![w].rest = Nested[Last(task[w].n)]]
  BY <1>1, <1>2, <1>4 DEF Types, Tasks, Off
<1>5. CASE \E c \in task[w].rest : task' = [task EXCEPT ![w].st = "count", ![w].rest = @ \ {c}]
  BY <1>1, <1>2, <1>5 DEF Types, Tasks, Off
<1>6. CASE \E i \in {discovered[task[w].s]} : task' = [task EXCEPT ![w].st = "limit", ![w].v = i]
  BY <1>1, <1>2, <1>6 DEF Types, Tasks, Off
<1>7. CASE task' = [task EXCEPT ![w].st = "entries", ![w].v = 0]
  BY <1>1, <1>2, <1>7 DEF Types, Tasks, Off
<1>8. CASE ScanNode(w)
  BY <1>3, <1>4, <1>8 DEF ScanNode
<1>9. CASE ~ScanNode(w)
  BY <1>3, <1>5, <1>6, <1>7, <1>9 DEF Walks, Discover, Count, SetLimit, PushChildren,
     NotifyPushed
<1> QED
  BY <1>8, <1>9

(* A notification does not reach a dispatcher about to submit. *)
LEMMA HeldTakenStays ==
  ASSUME Types, NEW w \in Worker, WorkerStep(w), NEW r \in Source
  PROVE  HeldTaken(r)' = HeldTaken(r)
<1>1. held' = held /\ (pc' = pc \/ (pc' = Woken(pc, task[w].s) /\ task[w].s \in Source))
  <2>1. CASE NotifyPushed(w) \/ NotifyLeft(w)
    <3>1. task[w].s \in Source
      BY <2>1, TaskFits DEF NotifyPushed, NotifyLeft
    <3> QED
      BY <2>1, <3>1 DEF NotifyPushed, NotifyLeft, Notify
  <2>2. CASE ~(NotifyPushed(w) \/ NotifyLeft(w))
    BY <2>2 DEF WorkerStep, TakeTask, ScanNode, Discover, Count, SetLimit, PushChildren,
       Release, Leave, Unwind,
                dispatch
  <2> QED
    BY <2>1, <2>2
<1>2. pc'[r] = "submit" <=> pc[r] = "submit"
  BY <1>1 DEF Woken, Types
<1> QED
  BY <1>1, <1>2 DEF HeldTaken

(* Only a task that is about to set a limit carries a number. *)
LEMMA LimitsStayFit ==
  ASSUME Types, NEW w \in Worker, WorkerStep(w), NEW r \in Source, LimitsFit(r)
  PROVE  LimitsFit(r)' /\ discovered[r] <= discovered'[r] /\ discovered'[r] \in Nat
<1>1. discovered[r] \in Nat
  BY DEF Types
<1>2. CASE Discover(w)
  <2>1. task[w] \in Tasks /\ task[w].s \in Source /\ task[w].st = "entries"
    BY <1>2, TaskFits DEF Discover
  <2>2. discovered' = [discovered EXCEPT ![task[w].s] = @ + 1]
    BY <1>2 DEF Discover
  <2>3. discovered[r] <= discovered'[r] /\ discovered'[r] \in Nat
    BY <1>1, <2>1, <2>2 DEF Types
  <2>4. task'[w].st = "count" /\ \A v \in Worker \ {w} : task'[v] = task[v]
    BY <1>2, <2>1 DEF Discover, Types, Tasks
  <2>5. ASSUME NEW v \in Worker, task'[v].st = "limit", task'[v].s = r
        PROVE  task'[v].v <= discovered'[r]
    <3>1. v # w /\ task'[v] = task[v]
      BY <2>4, <2>5
    <3>2. task[v].v \in Nat /\ task[v].v <= discovered[r]
      BY <2>5, <3>1, TaskFits DEF Tasks, LimitsFit
    <3> QED
      BY <1>1, <2>3, <3>1, <3>2
  <2> QED
    BY <2>3, <2>5 DEF LimitsFit
<1>3. CASE ~Discover(w)
  <2>1. discovered' = discovered
    BY <1>3 DEF WorkerStep, TakeTask, ScanNode, Count, SetLimit, PushChildren, NotifyPushed,
       Release, Leave,
                NotifyLeft, Unwind, limiter
  <2>2. \A v \in Worker \ {w} : task'[v] = task[v]
    BY <1>3 DEF WorkerStep, TakeTask, ScanNode, Count, SetLimit, PushChildren, NotifyPushed,
       Release, Leave,
                NotifyLeft, Unwind, Become, Stage, Types
  <2>3. task'[w].st = "limit" => task'[w].s \in Source /\ task'[w].v = discovered[task'[w].s]
    <3>1. CASE Count(w)
      <4>1. task[w] \in Tasks /\ task[w].s \in Source
        BY <3>1, TaskFits DEF Count
      <4> QED
        BY <3>1, <4>1 DEF Count, Types, Tasks
    <3>2. CASE ~Count(w)
      <4>1. task'[w].st # "limit"
        <5>1. CASE TakeTask(w) \/ NotifyLeft(w) \/ Unwind(w)
          BY <5>1 DEF TakeTask, NotifyLeft, Unwind, Become, Task, Idle, Types
        <5>2. CASE SetLimit(w) \/ ScanNode(w) \/ PushChildren(w) \/ NotifyPushed(w) \/ Release(w) \/ Leave(w)
          <6>1. task[w] \in Tasks
            BY <5>2, TaskFits DEF SetLimit, ScanNode, PushChildren, NotifyPushed, Release, Leave
          <6> QED
            BY <5>2, <6>1 DEF SetLimit, ScanNode, PushChildren, NotifyPushed, Release, Leave,
               Stage, Types, Tasks
        <5> QED
          BY <1>3, <3>2, <5>1, <5>2 DEF WorkerStep
      <4> QED
        BY <4>1
    <3> QED
      BY <3>1, <3>2
  <2>4. LimitsFit(r)'
    BY <1>1, <2>1, <2>2, <2>3 DEF LimitsFit
  <2> QED
    BY <1>1, <2>1, <2>4
<1> QED
  BY <1>2, <1>3

(* A task is done with the slot of its node. *)
LEMMA TaskLetsGo ==
  ASSUME NEW r \in Source, SourceFits(r), NEW w \in Worker, task[w].st \notin Off, task[w].s = r,
         task'[w].st \in Off, \A v \in Worker \ {w} : task'[v] = task[v],
         pool' = pool, HeldTaken(r)' = HeldTaken(r)
  PROVE  /\ Taken(r)' = Taken(r) \ {task[w].n} /\ task[w].n \in Taken(r)
         /\ Cardinality(Taken(r)') = Cardinality(Taken(r)) - 1
         /\ Cardinality(Taken(r)') \in Nat /\ Cardinality(Taken(r)) \in Nat
<1> DEFINE n == task[w].n
           A == {v \in Worker : task[v].st \notin Off /\ task[v].s = r}
           B == {v \in Worker : task'[v].st \notin Off /\ task'[v].s = r}
<1>1. w \in A /\ B = A \ {w} /\ \A v \in B : task'[v] = task[v]
  OBVIOUS
<1>2. A \subseteq Runs(r)
  BY DEF Runs, Off
<1>3. Distinct(r)
  BY DEF SourceFits
<1>4. \A v \in B : task[v].n # n
  BY <1>1, <1>2, <1>3 DEF Distinct
<1>5. TaskTaken(r) = {task[v].n : v \in A} /\ TaskTaken(r)' = {task'[v].n : v \in B}
  BY DEF TaskTaken
<1> HIDE DEF A, B
<1>6. TaskTaken(r)' = TaskTaken(r) \ {n} /\ n \in TaskTaken(r)
  BY <1>1, <1>4, <1>5
<1>7. PoolOf(r)' = PoolOf(r) /\ n \notin PoolOf(r)
  BY <1>1, <1>2, <1>3 DEF PoolOf, Distinct
<1>8. n \notin HeldTaken(r)
  <2>1. HeldTaken(r) \subseteq Holds(r)
    BY DEF HeldTaken, Holds
  <2> QED
    BY <1>1, <1>2, <1>3, <2>1 DEF Distinct
<1>9. Taken(r)' = Taken(r) \ {n} /\ n \in Taken(r)
  BY <1>6, <1>7, <1>8, TakenPlaces
<1>10. IsFiniteSet(Taken(r)) /\ Cardinality(Taken(r)) \in Nat
  BY TakenIsFinite
<1>11. /\ Cardinality(Taken(r) \ {n}) = Cardinality(Taken(r)) - 1
       /\ IsFiniteSet(Taken(r) \ {n})
  BY <1>9, <1>10, FS_RemoveElement
<1>12. Cardinality(Taken(r) \ {n}) \in Nat
  BY <1>11, FS_CardinalityType
<1> QED
  BY <1>9, <1>10, <1>11, <1>12

(* The slot is given back, but by an exception. *)
LEMMA SlotGiven ==
  ASSUME Inv, SlotsInv, NEW w \in Worker, Release(w) \/ Unwind(w), NEW r \in Source, task[w].s = r
  PROVE  SlotInv(r)'
<1>1. Types /\ SourceFits(r) /\ SlotInv(r) /\ active[r] \in Nat /\ limit[r] \in Nat /\ discovered[r] \in Nat
  BY DEF Inv, SlotsInv, SlotTypes, Types
<1>2. WorkerStep(w)
  BY DEF WorkerStep
<1>3. /\ HeldTaken(r)' = HeldTaken(r)
      /\ LimitsFit(r)' /\ pool' = pool /\ UNCHANGED <<limit, discovered, threw>>
  BY <1>1, <1>2, HeldTakenStays, LimitsStayFit DEF Release, Unwind, limiter, history, SlotInv
<1>4. task[w] \in Tasks /\ task[w].st \in {"release", "unwind"}
  BY <1>1, TaskFits DEF Release, Unwind
<1>5. task'[w].st \in Off /\ \A v \in Worker \ {w} : task'[v] = task[v]
  BY <1>1, <1>4 DEF Release, Unwind, Stage, Become, Idle, Off, Types, Tasks
<1>6. task[w].st \notin Off
  BY <1>4 DEF Off
<1>7. /\ Cardinality(Taken(r)') = Cardinality(Taken(r)) - 1
      /\ Cardinality(Taken(r)') \in Nat /\ Cardinality(Taken(r)) \in Nat
  BY <1>1, <1>3, <1>5, <1>6, TaskLetsGo
<1>8. ConcurrencyFor(discovered[r])' = ConcurrencyFor(discovered[r]) /\ ConcurrencyFor(discovered[r]) \in Nat
  BY <1>1, <1>3, ConcurrencyRises
<1>9. CASE Release(w)
  <2>1. active'[r] = active[r] - 1
    BY <1>9 DEF Release, SlotsInv, SlotTypes
  <2>2. /\ active'[r] <= ConcurrencyFor(discovered[r])
        /\ Cardinality(Taken(r)') <= active'[r]
        /\ active'[r] = Cardinality(Taken(r)') \/ threw'[r]
    BY <1>1, <1>3, <1>7, <1>8, <2>1 DEF SlotInv
  <2> QED
    BY <1>1, <1>3, <1>8, <2>2 DEF SlotInv
<1>10. CASE Unwind(w)
  <2>1. active' = active
    BY <1>10 DEF Unwind, limiter
  <2>2. w \in Runs(r) /\ task[w].st = "unwind"
    BY <1>10 DEF Unwind, Runs
  <2>3. threw[r]
    BY <1>1, <2>2 DEF SourceFits, Seen
  <2>4. Cardinality(Taken(r)') <= active'[r]
    BY <1>1, <1>7, <2>1 DEF SlotInv
  <2> QED
    BY <1>1, <1>3, <1>8, <2>1, <2>3, <2>4 DEF SlotInv
<1> QED
  BY <1>9, <1>10

(* The other steps of a worker, for every source *)
LEMMA WorkerSlots ==
  ASSUME Inv, SlotsInv, NEW w \in Worker, WorkerStep(w), NEW r \in Source,
         ~((Release(w) \/ Unwind(w)) /\ task[w].s = r)
  PROVE  SlotInv(r)'
<1>1. Types /\ SourceFits(r) /\ SlotInv(r) /\ active[r] \in Nat /\ limit[r] \in Nat /\ discovered[r] \in Nat
  BY DEF Inv, SlotsInv, SlotTypes, Types
<1>2. /\ HeldTaken(r)' = HeldTaken(r)
      /\ LimitsFit(r)' /\ discovered[r] <= discovered'[r] /\ discovered'[r] \in Nat
  BY <1>1, HeldTakenStays, LimitsStayFit DEF SlotInv
<1>3. active'[r] = active[r]
  BY DEF WorkerStep, TakeTask, ScanNode, Discover, Count, SetLimit, PushChildren, NotifyPushed,
     Release, Leave,
         NotifyLeft, Unwind, limiter, SlotsInv, SlotTypes
<1>4. threw[r] => threw'[r]
  BY <1>1 DEF WorkerStep, TakeTask, ScanNode, Discover, Count, SetLimit, PushChildren,
     NotifyPushed, Release,
              Leave, NotifyLeft, Unwind, history, Types
<1>5. limit'[r] <= ConcurrencyFor(discovered'[r])
  <2>1. /\ ConcurrencyFor(discovered[r]) <= ConcurrencyFor(discovered'[r])
        /\ ConcurrencyFor(discovered[r]) \in Nat /\ ConcurrencyFor(discovered'[r]) \in Nat
    BY <1>1, <1>2, ConcurrencyRises
  <2>2. CASE SetLimit(w) /\ task[w].s = r
    <3>1. task[w] \in Tasks /\ task[w].st = "limit"
      BY <1>1, <2>2, TaskFits DEF SetLimit
    <3>2. task[w].v \in Nat /\ task[w].v <= discovered[r]
      BY <1>1, <2>2, <3>1 DEF SlotInv, LimitsFit, Tasks
    <3>3. limit'[r] = ConcurrencyFor(task[w].v) /\ discovered' = discovered
      BY <2>2 DEF SetLimit, SlotsInv, SlotTypes
    <3> QED
      BY <1>1, <3>2, <3>3, ConcurrencyRises
  <2>3. CASE ~(SetLimit(w) /\ task[w].s = r)
    <3>1. limit'[r] = limit[r]
      BY <2>3 DEF WorkerStep, TakeTask, ScanNode, Discover, Count, SetLimit, PushChildren,
         NotifyPushed, Release,
                  Leave, NotifyLeft, Unwind, limiter, SlotsInv, SlotTypes
    <3> QED
      BY <1>1, <2>1, <3>1 DEF SlotInv
  <2> QED
    BY <2>2, <2>3
<1>6. Taken(r)' = Taken(r)
  <2>1. CASE Walks(w)
    <3>1. /\ task[w].st \notin Off /\ task'[w].st \notin Off
          /\ task'[w].s = task[w].s /\ task'[w].n = task[w].n
          /\ \A v \in Worker \ {w} : task'[v] = task[v]
          /\ pool' = pool
      BY <1>1, <2>1, WalkShape
    <3>2. {v \in Worker : task'[v].st \notin Off /\ task'[v].s = r}
            = {v \in Worker : task[v].st \notin Off /\ task[v].s = r}
      BY <3>1
    <3>3. \A v \in Worker : task'[v].n = task[v].n
      BY <3>1
    <3>4. TaskTaken(r)' = TaskTaken(r)
      BY <3>2, <3>3 DEF TaskTaken
    <3> QED
      BY <1>2, <3>1, <3>4, TakenPlaces DEF PoolOf
  <2>2. CASE \/ Leave(w) \/ NotifyLeft(w)
             \/ (Release(w) \/ Unwind(w)) /\ task[w].s # r
    <3>1. task[w] \in Tasks
      BY <1>1, <2>2, TaskFits DEF Leave, NotifyLeft, Release, Unwind
    <3>2. task'[w].st \in Off /\ (\A v \in Worker \ {w} : task'[v] = task[v]) /\ pool' = pool
      BY <1>1, <2>2, <3>1 DEF Leave, NotifyLeft, Release, Unwind, Stage, Become, Idle, Off,
         Types, Tasks
    <3>3. ~(task[w].st \notin Off /\ task[w].s = r)
      BY <2>2 DEF Leave, NotifyLeft, Off
    <3>4. {v \in Worker : task'[v].st \notin Off /\ task'[v].s = r}
            = {v \in Worker \ {w} : task[v].st \notin Off /\ task[v].s = r}
      BY <3>2
    <3>5. {v \in Worker : task[v].st \notin Off /\ task[v].s = r}
            = {v \in Worker \ {w} : task[v].st \notin Off /\ task[v].s = r}
      BY <3>3
    <3>6. TaskTaken(r)' = TaskTaken(r)
      BY <3>2, <3>4, <3>5 DEF TaskTaken
    <3> QED
      BY <1>2, <3>2, <3>6, TakenPlaces DEF PoolOf
  <2>3. CASE TakeTask(w)
    <3>1. PICK t \in pool : pool' = pool \ {t} /\ Become(w, Task("scan", t[1], t[2]))
      BY <2>3 DEF TakeTask
    <3> DEFINE s == t[1]
               n == t[2]
    <3>2. s \in Source /\ n \in Path /\ t = <<s, n>>
      BY <1>1, <3>1 DEF Types
    <3>3. /\ task'[w].st = "scan" /\ task'[w].s = s /\ task'[w].n = n
          /\ \A v \in Worker \ {w} : task'[v] = task[v]
      BY <1>1, <3>1 DEF Become, Task, Types
    <3>4. task[w].st \in Off
      BY <2>3 DEF TakeTask, Free, Off
    <3>5. \A m : m \in PoolOf(r) <=> <<r, m>> \in pool
      BY <1>1, InPool DEF Types
    <3>6. \A m : m \in PoolOf(r)' <=> <<r, m>> \in pool'
      <4>1. pool' \subseteq Source \X Path
        BY <1>1, <3>1 DEF Types
      <4> QED
        BY <4>1, InPoolNext
    <3> DEFINE A == {v \in Worker : task[v].st \notin Off /\ task[v].s = r}
               B == {v \in Worker : task'[v].st \notin Off /\ task'[v].s = r}
    <3>7. w \notin A /\ \A v \in A : task'[v] = task[v]
      BY <3>3, <3>4
    <3>8. TaskTaken(r) = {task[v].n : v \in A} /\ TaskTaken(r)' = {task'[v].n : v \in B}
      BY DEF TaskTaken
    <3>9. CASE r = s
      <4>1. B = A \cup {w}
        BY <3>3, <3>4, <3>9 DEF Off
      <4> HIDE DEF A, B
      <4>2. TaskTaken(r)' = TaskTaken(r) \cup {n}
        BY <3>3, <3>7, <3>8, <4>1
      <4>3. n \in PoolOf(r) /\ PoolOf(r)' = PoolOf(r) \ {n}
        <5>1. \A m : <<r, m>> \in pool' <=> <<r, m>> \in pool /\ m # n
          BY <3>1, <3>2, <3>9
        <5> QED
          BY <3>1, <3>2, <3>5, <3>6, <3>9, <5>1
      <4> QED
        BY <1>2, <4>2, <4>3, TakenPlaces
    <3>10. CASE r # s
      <4>1. B = A
        BY <3>3, <3>4, <3>10
      <4> HIDE DEF A, B
      <4>2. TaskTaken(r)' = TaskTaken(r)
        BY <3>7, <3>8, <4>1
      <4>3. PoolOf(r)' = PoolOf(r)
        <5>1. \A m : <<r, m>> \in pool' <=> <<r, m>> \in pool
          BY <3>1, <3>2, <3>10
        <5> QED
          BY <3>5, <3>6, <5>1
      <4> QED
        BY <1>2, <4>2, <4>3, TakenPlaces
    <3> QED
      BY <3>9, <3>10
  <2> QED
    BY <2>1, <2>2, <2>3 DEF WorkerStep, Walks
<1> QED
  BY <1>1, <1>2, <1>3, <1>4, <1>5, <1>6, SlotsRest

(* Slots and limits are numbers: only a slot that is taken is given back. *)
LEMMA SlotTypesKeep ==
  ASSUME Inv, SlotsInv, [Next]_vars
  PROVE  SlotTypes'
<1>1. SlotTypes /\ Types
  BY DEF Inv, SlotsInv
<1>2. ASSUME NEW s \in Source, JobStep(s)
      PROVE  SlotTypes'
  <2>1. limit' = limit /\ (active' = active \/ active' = [active EXCEPT ![s] = @ + 1])
    BY <1>2 DEF JobStep, BeginSource, StartTree, EndSource, Check, Sleep, Discard, Keep,
       Acquire, Submit, Wait,
                limiter
  <2> QED
    BY <1>1, <2>1 DEF SlotTypes
<1>3. ASSUME NEW w \in Worker, WorkerStep(w)
      PROVE  SlotTypes'
  <2>1. CASE SetLimit(w)
    <3>1. task[w] \in Tasks
      BY <1>1, <2>1, TaskFits DEF SetLimit
    <3>2. task[w].v \in Nat
      BY <3>1 DEF Tasks
    <3>3. ConcurrencyFor(task[w].v) \in Nat
      BY <3>2, ConcurrencyRises
    <3>4. active' = active /\ limit' = [limit EXCEPT ![task[w].s] = ConcurrencyFor(task[w].v)]
      BY <2>1 DEF SetLimit
    <3> QED
      BY <1>1, <3>3, <3>4 DEF SlotTypes
  <2>2. CASE Release(w)
    <3> DEFINE r == task[w].s
    <3>1. r \in Source /\ task[w] \in Tasks /\ task[w].st = "release"
      BY <1>1, <2>2, TaskFits DEF Release
    <3>2. SourceFits(r) /\ SlotInv(r)
      BY <3>1 DEF Inv, SlotsInv
    <3>3. task[w].n \in TaskTaken(r)
      BY <3>1 DEF TaskTaken, Off
    <3>4. Taken(r) # {}
      BY <3>3, TakenPlaces
    <3>5. Cardinality(Taken(r)) \in Nat /\ Cardinality(Taken(r)) # 0
      BY <3>1, <3>2, <3>4, TakenIsFinite, FS_EmptySet
    <3>6. active[r] - 1 \in Nat
      BY <1>1, <3>1, <3>2, <3>5 DEF SlotInv, SlotTypes
    <3>7. limit' = limit /\ active' = [active EXCEPT ![r] = @ - 1]
      BY <2>2 DEF Release
    <3> QED
      BY <1>1, <3>6, <3>7 DEF SlotTypes
  <2>3. CASE ~(SetLimit(w) \/ Release(w))
    <3>1. limit' = limit /\ active' = active
      BY <1>3, <2>3 DEF WorkerStep, TakeTask, ScanNode, Discover, Count, PushChildren,
         NotifyPushed, Leave,
                        NotifyLeft, Unwind, limiter
    <3> QED
      BY <1>1, <3>1 DEF SlotTypes
  <2> QED
    BY <2>1, <2>2, <2>3
<1>4. CASE RequestCancel \/ UNCHANGED vars
  BY <1>1, <1>4 DEF RequestCancel, vars, limiter, SlotTypes
<1> QED
  BY <1>2, <1>3, <1>4 DEF Next

(* Every step keeps the slots. *)
LEMMA SlotsNext ==
  ASSUME Inv, SlotsInv, [Next]_vars
  PROVE  SlotsInv'
<1>1. SlotTypes'
  BY SlotTypesKeep
<1>2. ASSUME NEW s \in Source, JobStep(s), NEW r \in Source
      PROVE  SlotInv(r)'
  BY <1>2, SlotTaken, JobSlots
<1>3. ASSUME NEW w \in Worker, WorkerStep(w), NEW r \in Source
      PROVE  SlotInv(r)'
  BY <1>3, SlotGiven, WorkerSlots
<1>4. ASSUME RequestCancel \/ UNCHANGED vars, NEW r \in Source
      PROVE  SlotInv(r)'
  <2>1. UNCHANGED <<pc, held, limit, active, discovered, pool, task, threw>>
    BY <1>4 DEF RequestCancel, vars, dispatch, limiter, history
  <2>2. SlotInv(r)
    BY DEF SlotsInv
  <2>3. Taken(r)' = Taken(r) /\ ConcurrencyFor(discovered[r])' = ConcurrencyFor(discovered[r])
    BY <2>1 DEF Taken, Runs, ConcurrencyFor
  <2>4. LimitsFit(r)'
    BY <2>1, <2>2 DEF SlotInv, LimitsFit
  <2> QED
    BY <2>1, <2>2, <2>3, <2>4 DEF SlotInv
<1> QED
  BY <1>1, <1>2, <1>3, <1>4 DEF Next, SlotsInv

(* At the start no slot is taken, and the limit is one. *)
LEMMA SlotsInit ==
  ASSUME Init
  PROVE  SlotsInv
<1>1. SlotTypes
  BY DEF Init, SlotTypes
<1>2. ASSUME NEW s \in Source
      PROVE  SlotInv(s)
  <2>1. HeldTaken(s) = {} /\ PoolOf(s) = {} /\ TaskTaken(s) = {}
    BY DEF Init, HeldTaken, PoolOf, TaskTaken, Off, Idle
  <2>2. Taken(s) = {}
    BY <2>1, TakenPlaces
  <2>3. Cardinality(Taken(s)) = 0
    BY <2>2, FS_EmptySet
  <2>4. limit[s] = 1 /\ active[s] = 0 /\ discovered[s] = 0
    BY DEF Init
  <2>5. ConcurrencyFor(0) \in Nat /\ ConcurrencyFor(0) >= 1
    BY ConcurrencyRises
  <2>6. LimitsFit(s)
    BY DEF Init, Idle, LimitsFit
  <2> QED
    BY <2>3, <2>4, <2>5, <2>6 DEF SlotInv
<1> QED
  BY <1>1, <1>2 DEF SlotsInv

(* The slots are right in every state of every execution. *)
THEOREM SlotsInvHolds == Spec => [](Inv /\ SlotsInv)
<1>1. Init => Inv /\ SlotsInv
  BY InvInit, SlotsInit
<1>2. Inv /\ SlotsInv /\ [Next]_vars => Inv' /\ SlotsInv'
  BY InvNext, SlotsNext
<1> QED
  BY <1>1, <1>2, PTL DEF Spec

(* TaskGroup's count is that of the nodes outstanding, and the limiter's   *)
(* slots are those of the nodes between Acquire and Release, never more    *)
(* than the playlists found call for: whatever number a task still carries *)
(* when it sets the limit, and however tasks end.                          *)
THEOREM CountsStayExact == Spec => []CountsAreExact
<1>1. ASSUME Inv, SlotsInv
      PROVE  TypeOK
  <2>1. Path \subseteq Nodes
    BY DEF Path, Nodes
  <2>2. /\ queue \in [Source -> SUBSET Nodes] /\ pool \subseteq Source \X Nodes
        /\ visited \in [Source -> SUBSET Nodes] /\ opened \in [Source -> SUBSET Nodes]
    BY <1>1, <2>1 DEF Inv, Types
  <2>3. held \in [Source -> Nodes]
    BY <1>1 DEF Inv, Types, Nodes
  <2> QED
    BY <1>1, <2>2, <2>3 DEF Inv, Types, Flags, SlotsInv, SlotTypes, TypeOK
<1>2. Inv => PendingIsExact
  BY DEF Inv, SourceFits, Exact, PendingIsExact
<1>3. SlotsInv => SlotsKept
  BY DEF SlotsInv, SlotInv, SlotsKept
<1>4. Inv /\ SlotsInv => CountsAreExact
  BY <1>1, <1>2, <1>3 DEF CountsAreExact
<1> QED
  BY <1>4, SlotsInvHolds, PTL

=============================================================================
