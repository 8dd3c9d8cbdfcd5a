------------------------- MODULE PlaylistDispatcher -------------------------
(***************************************************************************)
(* How one scan walks playlists (src/media_sources_common.cpp): the jobs   *)
(* of the sources run on SourceScanPool; each goes through the playlists   *)
(* it finds, one tree after the other, with a dispatcher that hands every  *)
(* node to PlaylistScanPool and waits until none is outstanding.           *)
(*                                                                         *)
(* A node is the path of playlists that leads to it from the root of its   *)
(* tree, for playlists may name each other in cycles.  The queues are sets *)
(* (nothing here depends on their order).  The limiter, the group's Wait   *)
(* and both pools change their state under the mutex their waiters hold    *)
(* and notify after it, so a wait on them is a guard; queueCv's predicate  *)
(* reads the group's count, which is not under queueMutex, so that wait    *)
(* is two steps.                                                           *)
(***************************************************************************)
EXTENDS Naturals, Sequences, FiniteSets, PlaylistText

CONSTANTS Source,          \* configured sources
          Playlist,        \* playlists
          Roots,           \* [Source -> SUBSET Playlist]: those a job comes across
          Nested,          \* [Playlist -> SUBSET Playlist]: those a playlist names
          Direct,          \* sources that are themselves a playlist
          Throwing,        \* playlists whose scan may end with an exception
          MaxDepth,        \* kMaxPlaylistRecursionDepth
          SourceWorkers,   \* size of SourceScanPool
          Worker,          \* threads of PlaylistScanPool
          MaxQueueDepth,   \* kPlaylistScanPoolMaxQueueDepth
          ReferenceCount,  \* kReferenceCount
          Concurrency      \* [0 .. ReferenceCount -> Nat]: ComputePlaylistScanConcurrency

ASSUME DispatcherAssumption ==
  /\ Roots \in [Source -> SUBSET Playlist] /\ Nested \in [Playlist -> SUBSET Playlist]
  /\ Direct \subseteq Source /\ Throwing \subseteq Playlist
  /\ ReferenceCount \in Nat /\ Concurrency \in [0 .. ReferenceCount -> Nat \ {0}]
  /\ \A m, n \in 0 .. ReferenceCount : m <= n => Concurrency[m] <= Concurrency[n]
  /\ MaxDepth \in Nat /\ SourceWorkers \in Nat \ {0} /\ MaxQueueDepth \in Nat \ {0}
  /\ IsFiniteSet(Source) /\ IsFiniteSet(Worker) /\ IsFiniteSet(Playlist)

VARIABLES
  pc,          \* per source: where its job is
  left,        \* per source: the roots it has not come to yet
  queue,       \* per source: pendingQueue
  held,        \* per source: the node its dispatcher has taken
  pending,     \* per source: the count of its TaskGroup
  limit, active, discovered,  \* per source: the limiter, and discoveredCount
  pool,        \* PlaylistScanPool's queue: <<source, node>>
  task,        \* per worker: the task it runs
  cancelled,   \* ScanCancellation
  visited,     \* history: per source, nodes a task has looked at
  opened,      \* history: per source, nodes whose entries were read
  threw,       \* history: per source, a task ended with an exception
  quit         \* history: the scan was cancelled once

dispatch == <<pc, left, held>>
limiter  == <<limit, active, discovered>>
history  == <<visited, opened, threw, quit>>
vars == <<dispatch, queue, pending, limiter, pool, task, cancelled, history>>

NoNode == <<>>
Idle   == [st |-> "idle"]

(* ComputePlaylistScanConcurrency is clamped from kReferenceCount on. *)
ConcurrencyFor(n) == Concurrency[IF n < ReferenceCount THEN n ELSE ReferenceCount]

Last(n)     == n[Len(n)]
Children(n) == {Append(n, c) : c \in Nested[Last(n)]}

Running == {s \in Source : pc[s] \notin {"queued", "done"}}

-----------------------------------------------------------------------------
(* A source's job and its dispatcher.                                      *)

Goto(s, l) == pc' = [pc EXCEPT ![s] = l]

(* notify_all on queueCv: the dispatcher wakes if it sleeps, and looks again *)
Woken(p, s) == IF p[s] = "asleep" THEN [p EXCEPT ![s] = "check"] ELSE p

Notify(s) == pc' = Woken(pc, s)

BeginSource(s) ==
  /\ pc[s] = "queued" /\ Cardinality(Running) < SourceWorkers
  /\ Goto(s, "next")
  /\ UNCHANGED <<left, held, queue, pending, limiter, pool, task, cancelled, history>>

(* ScanPlaylistTree.  A folder's job looks at the cancel flag first. *)
StartTree(s) ==
  /\ pc[s] = "next" /\ (cancelled => s \in Direct)
  /\ \E r \in left[s] :
       /\ left' = [left EXCEPT ![s] = @ \ {r}]
       /\ queue' = [queue EXCEPT ![s] = @ \cup {<<r>>}]
  /\ pending' = [pending EXCEPT ![s] = @ + 1]
  /\ Goto(s, "check")
  /\ UNCHANGED <<held, limiter, pool, task, cancelled, history>>

EndSource(s) ==
  /\ pc[s] = "next"
  /\ left[s] = {} \/ (cancelled /\ s \notin Direct)
  /\ Goto(s, "done")
  /\ UNCHANGED <<left, held, queue, pending, limiter, pool, task, cancelled, history>>

(* fault: the dispatcher ends as soon as its queue is empty *)
EndsEarly(s) == queue[s] = {}

(* nothing is queued, and no task is left that could queue more *)
Ends(s) == queue[s] = {} /\ pending[s] = 0

(* RunPlaylistDispatcher, with queueMutex held: it takes a node, ends, or  *)
(* finds nothing to do and is about to wait.                               *)
Check(s) ==
  /\ pc[s] = "check"
  /\ \/ \E n \in queue[s] :
          /\ queue' = [queue EXCEPT ![s] = @ \ {n}]
          /\ held' = [held EXCEPT ![s] = n]
          /\ Goto(s, "took")
     \/ Ends(s) /\ Goto(s, "wait") /\ UNCHANGED <<queue, held>>
     \/ queue[s] = {} /\ ~Ends(s) /\ Goto(s, "drowsy") /\ UNCHANGED <<queue, held>>
  /\ UNCHANGED <<left, pending, limiter, pool, task, cancelled, history>>

(* The wait lets go of queueMutex; a notification before it wakes nobody.  *)
Sleep(s) ==
  /\ pc[s] = "drowsy"
  /\ Goto(s, "asleep")
  /\ UNCHANGED <<left, held, queue, pending, limiter, pool, task, cancelled, history>>

(* fault: the node is dropped and still counted *)
DiscardKeepsCount(s) ==
  /\ pc[s] = "took" /\ cancelled
  /\ held' = [held EXCEPT ![s] = NoNode]
  /\ Goto(s, "check")
  /\ UNCHANGED <<left, queue, pending, limiter, pool, task, cancelled, history>>

(* A node taken after a cancel is dropped, and accounted for. *)
Discard(s) ==
  /\ pc[s] = "took" /\ cancelled
  /\ pending' = [pending EXCEPT ![s] = @ - 1]
  /\ held' = [held EXCEPT ![s] = NoNode]
  /\ Goto(s, "check")
  /\ UNCHANGED <<left, queue, limiter, pool, task, cancelled, history>>

Keep(s) ==
  /\ pc[s] = "took" /\ ~cancelled
  /\ Goto(s, "acquire")
  /\ UNCHANGED <<left, held, queue, pending, limiter, pool, task, cancelled, history>>

HasSlot(s) == active[s] < limit[s]

Acquire(s) ==
  /\ pc[s] = "acquire" /\ HasSlot(s)
  /\ active' = [active EXCEPT ![s] = @ + 1]
  /\ Goto(s, "submit")
  /\ UNCHANGED <<left, held, queue, pending, limit, discovered, pool, task, cancelled, history>>

Submit(s) ==
  /\ pc[s] = "submit" /\ Cardinality(pool) < MaxQueueDepth
  /\ pool' = pool \cup {<<s, held[s]>>}
  /\ held' = [held EXCEPT ![s] = NoNode]
  /\ Goto(s, "check")
  /\ UNCHANGED <<left, queue, pending, limiter, task, cancelled, history>>

(* TaskGroup::Wait, when the dispatcher has ended. *)
Wait(s) ==
  /\ pc[s] = "wait" /\ pending[s] = 0
  /\ Goto(s, "next")
  /\ UNCHANGED <<left, held, queue, pending, limiter, pool, task, cancelled, history>>

JobStep(s) ==
  \/ BeginSource(s) \/ StartTree(s) \/ EndSource(s) \/ Check(s) \/ Sleep(s)
  \/ Discard(s) \/ Keep(s) \/ Acquire(s) \/ Submit(s) \/ Wait(s)

-----------------------------------------------------------------------------
(* The workers of PlaylistScanPool and the task they run.                  *)

Task(st, s, n) == [st |-> st, s |-> s, n |-> n, rest |-> {}, v |-> 0]

Become(w, t) == task' = [task EXCEPT ![w] = t]
Stage(w, st) == task' = [task EXCEPT ![w].st = st]

(* fault: the jobs of the sources run on this pool, too *)
FreeShared(w) ==
  /\ task[w].st = "idle"
  /\ Cardinality({v \in Worker : task[v].st # "idle"} \cup Running) < Cardinality(Worker)

Free(w) == task[w].st = "idle"

TakeTask(w) ==
  /\ Free(w)
  /\ \E t \in pool :
       /\ pool' = pool \ {t}
       /\ Become(w, Task("scan", t[1], t[2]))
  /\ UNCHANGED <<dispatch, queue, pending, limiter, cancelled, history>>

(* ScanOnePlaylistNode, up to the entries: cancelled, too deep, not to be  *)
(* fetched, not a playlist, or empty; or read.                             *)
ScanNode(w) ==
  /\ task[w].st = "scan"
  /\ LET s == task[w].s
         n == task[w].n
     IN  /\ visited' = [visited EXCEPT ![s] = @ \cup {n}]
         /\ \/ Stage(w, "release") /\ UNCHANGED <<opened, threw>>
            \/ /\ ~cancelled /\ Len(n) <= MaxDepth + 1
               /\ task' = [task EXCEPT ![w].st = "entries", ![w].rest = Nested[Last(n)]]
               /\ opened' = [opened EXCEPT ![s] = @ \cup {n}]
               /\ UNCHANGED threw
            \/ /\ ~cancelled /\ Len(n) <= MaxDepth + 1 /\ Last(n) \in Throwing
               /\ Stage(w, "unwind")
               /\ threw' = [threw EXCEPT ![s] = TRUE]
               /\ UNCHANGED opened
  /\ UNCHANGED <<dispatch, queue, pending, limiter, pool, cancelled, quit>>

(* The next nested playlist: it is counted, the count is read, and the     *)
(* limit set to what it calls for; tasks of one source do so side by side. *)
Discover(w) ==
  /\ task[w].st = "entries"
  /\ discovered' = [discovered EXCEPT ![task[w].s] = @ + 1]
  /\ \E c \in task[w].rest : task' = [task EXCEPT ![w].st = "count", ![w].rest = @ \ {c}]
  /\ UNCHANGED <<dispatch, queue, pending, limit, active, pool, cancelled, history>>

Count(w) ==
  /\ task[w].st = "count"
  /\ task' = [task EXCEPT ![w].st = "limit", ![w].v = discovered[task[w].s]]
  /\ UNCHANGED <<dispatch, queue, pending, limiter, pool, cancelled, history>>

SetLimit(w) ==
  /\ task[w].st = "limit"
  /\ limit' = [limit EXCEPT ![task[w].s] = ConcurrencyFor(task[w].v)]
  /\ task' = [task EXCEPT ![w].st = "entries", ![w].v = 0]
  /\ UNCHANGED <<dispatch, queue, pending, active, discovered, pool, cancelled, history>>

(* one Enter per child *)
Enters(w) == [pending EXCEPT ![task[w].s] = @ + Cardinality(Children(task[w].n))]

(* All children at once, under queueMutex, which a dispatcher holds that is *)
(* about to wait; then the dispatcher is notified.                         *)
PushChildren(w) ==
  /\ task[w].st = "entries" /\ task[w].rest = {}
  /\ LET s == task[w].s
         cs == Children(task[w].n)
     IN  /\ cs # {} => pc[s] # "drowsy"
         /\ queue' = [queue EXCEPT ![s] = @ \cup cs]
         /\ pending' = Enters(w)
  /\ Stage(w, "pushed")
  /\ UNCHANGED <<dispatch, limiter, pool, cancelled, history>>

NotifyPushed(w) ==
  /\ task[w].st = "pushed"
  /\ Notify(task[w].s)
  /\ Stage(w, "release")
  /\ UNCHANGED <<left, held, queue, pending, limiter, pool, cancelled, history>>

Release(w) ==
  /\ task[w].st = "release"
  /\ active' = [active EXCEPT ![task[w].s] = @ - 1]
  /\ Stage(w, "leave")
  /\ UNCHANGED <<dispatch, queue, pending, limit, discovered, pool, cancelled, history>>

(* The leave guard. *)
Leave(w) ==
  /\ task[w].st = "leave"
  /\ pending' = [pending EXCEPT ![task[w].s] = @ - 1]
  /\ Stage(w, "left")
  /\ UNCHANGED <<dispatch, queue, limiter, pool, cancelled, history>>

NotifyLeft(w) ==
  /\ task[w].st = "left"
  /\ Notify(task[w].s)
  /\ Become(w, Idle)
  /\ UNCHANGED <<left, held, queue, pending, limiter, pool, cancelled, history>>

(* An exception runs the guard, and nothing after it; the pool catches it. *)
Unwind(w) ==
  /\ task[w].st = "unwind"
  /\ pending' = [pending EXCEPT ![task[w].s] = @ - 1]
  /\ Become(w, Idle)
  /\ UNCHANGED <<dispatch, queue, limiter, pool, cancelled, history>>

WorkerStep(w) ==
  \/ TakeTask(w) \/ ScanNode(w) \/ Discover(w) \/ Count(w) \/ SetLimit(w)
  \/ PushChildren(w) \/ NotifyPushed(w) \/ Release(w) \/ Leave(w) \/ NotifyLeft(w) \/ Unwind(w)

-----------------------------------------------------------------------------
(* Server::Stop requests the cancel; Server::Rescan takes it back. *)
RequestCancel ==
  /\ cancelled' \in BOOLEAN \ {cancelled}
  /\ quit' = TRUE
  /\ UNCHANGED <<dispatch, queue, pending, limiter, pool, task, visited, opened, threw>>

Init ==
  /\ pc = [s \in Source |-> "queued"]
  /\ left = Roots
  /\ queue = [s \in Source |-> {}]
  /\ held = [s \in Source |-> NoNode]
  /\ pending = [s \in Source |-> 0]
  /\ limit = [s \in Source |-> 1]
  /\ active = [s \in Source |-> 0]
  /\ discovered = [s \in Source |-> 0]
  /\ pool = {}
  /\ task = [w \in Worker |-> Idle]
  /\ cancelled = FALSE
  /\ visited = [s \in Source |-> {}] /\ opened = [s \in Source |-> {}]
  /\ threw = [s \in Source |-> FALSE] /\ quit = FALSE

Next ==
  \/ \E s \in Source : JobStep(s)
  \/ \E w \in Worker : WorkerStep(w)
  \/ RequestCancel

Spec == Init /\ [][Next]_vars

FairSpec ==
  Spec /\ (\A s \in Source : WF_vars(JobStep(s))) /\ (\A w \in Worker : WF_vars(WorkerStep(w)))

-----------------------------------------------------------------------------
Stages == {"scan", "entries", "count", "limit", "pushed", "release", "leave", "left", "unwind"}
Labels ==
  {"queued", "next", "check", "drowsy", "asleep", "took", "acquire", "submit", "wait", "done"}

Nodes == Seq(Playlist)

Tasks == [st : Stages, s : Source, n : Nodes, rest : SUBSET Playlist, v : Nat]

(* The type invariant. *)
TypeOK ==
  /\ pc \in [Source -> Labels]
  /\ left \in [Source -> SUBSET Playlist]
  /\ queue \in [Source -> SUBSET Nodes] /\ held \in [Source -> Nodes]
  /\ pending \in [Source -> Nat]
  /\ limit \in [Source -> Nat] /\ active \in [Source -> Nat] /\ discovered \in [Source -> Nat]
  /\ pool \subseteq Source \X Nodes
  /\ task \in [Worker -> Tasks \cup {Idle}]
  /\ cancelled \in BOOLEAN /\ quit \in BOOLEAN /\ threw \in [Source -> BOOLEAN]
  /\ visited \in [Source -> SUBSET Nodes] /\ opened \in [Source -> SUBSET Nodes]

Holds(s) == IF pc[s] \in {"took", "acquire", "submit"} THEN {held[s]} ELSE {}

Runs(s) == {w \in Worker : task[w].st \notin {"idle", "left"} /\ task[w].s = s}

(* The nodes of a source that somebody has still to deal with. *)
Outstanding(s) ==
  queue[s] \cup Holds(s) \cup {t[2] : t \in {u \in pool : u[1] = s}} \cup {task[w].n : w \in Runs(s)}

(* The group's count is the number of nodes queued, held, submitted or     *)
(* being scanned, whatever was discarded, thrown or discovered meanwhile:  *)
(* each node is entered once and left once.                                *)
PendingIsExact == \A s \in Source : pending[s] = Cardinality(Outstanding(s))

(* A dispatcher that has ended, and a source that is done, leaves no node  *)
(* behind: the sweep that follows the scan runs when nothing is scanned    *)
(* any more.                                                               *)
EndsWhenDone ==
  \A s \in Source : pc[s] \in {"wait", "next", "done"} => Outstanding(s) = {}

(* A source that is done, was not cancelled and had no task that threw has *)
(* looked at every playlist it came across and every one these name.       *)
VisitsAll ==
  \A s \in Source :
    pc[s] = "done" /\ ~quit /\ ~threw[s] =>
      visited[s] = {<<r>> : r \in Roots[s]} \cup UNION {Children(n) : n \in opened[s]}

Taken(s) ==
  (IF pc[s] = "submit" THEN {held[s]} ELSE {})
    \cup {t[2] : t \in {u \in pool : u[1] = s}}
    \cup {task[w].n : w \in {v \in Runs(s) : task[v].st # "leave"}}

(* A limiter's slots are those of its nodes between Acquire and Release,   *)
(* never more than the number of nested playlists found calls for, however *)
(* late a task sets the limit; only an exception loses a slot.             *)
SlotsKept ==
  \A s \in Source :
    /\ Cardinality(Taken(s)) <= active[s] /\ active[s] <= ConcurrencyFor(discovered[s])
    /\ active[s] = Cardinality(Taken(s)) \/ threw[s]

(* The count of the group and the slots of the limiter are those of the    *)
(* nodes in somebody's hands.                                              *)
CountsAreExact == TypeOK /\ PendingIsExact /\ SlotsKept

(* A source that is done leaves nothing behind and has missed nothing, and *)
(* the nodes it went by are those its playlists and listings name.         *)
ScanIsComplete == EndsWhenDone /\ VisitsAll /\ EntriesAreRead

(* Every node of every source is dealt with, although the dispatchers of   *)
(* many sources share one pool of workers and wait for slots, for its      *)
(* queue and for their own nodes: unless a task of the source threw.       *)
NodesDealtWith ==
  \A s \in Source : pending[s] > 0 ~> (pending[s] = 0 \/ threw[s])

(* Violated, by a notification between the look at the group and the wait: *)
(* it ends when the queue is empty and no task is pending.                 *)
DispatcherEnds ==
  \A s \in Source : pc[s] = "check" ~> (pc[s] = "next" \/ threw[s])

=============================================================================
