--------------------------- MODULE ServerLifecycle ---------------------------
(***************************************************************************)
(* The threads of Server (src/server_common.cpp, src/posix_server.cpp):    *)
(* the worker that starts and stops it, the worker that rescans, the       *)
(* scan-completion thread, the watch loop, the folder watch, and the scan  *)
(* threads they start, join and take from each other.                      *)
(*                                                                         *)
(* pc says where a thread is in the function it runs, call where it is in  *)
(* the one of StartBackgroundScan, JoinBackgroundScan or                   *)
(* StopDirectoryWatch it is in the middle of.  A scan is only its thread   *)
(* here; what it does is MediaCatalog.  A start is only asked for when the *)
(* server is stopped, and a stop when it runs, one at a time (IsBusy), so  *)
(* m_starting is never contended; a rescan may be asked for at any time.   *)
(***************************************************************************)
EXTENDS Naturals, FiniteSets

CONSTANT AutoScan   \* backgroundScanEnabled

ASSUME LifecycleAssumption == AutoScan \in BOOLEAN

Actor == {"main", "rescan", "hook", "watch", "dir"}

VARIABLES
  pc,          \* where a thread is; "none": no std::thread, "ended": it waits to be joined,
               \* "lost": it was ended by an exception, or with the whole process
  call,        \* where it is in the function it calls
  running, stopping,          \* m_running, m_stopping
  handle,      \* m_scanThread: none, a scan that runs, or one that has ended
  waits,       \* a thread has taken the handle of a scan that runs, to join it
  stopWatch,   \* m_stopWatch
  told,        \* the folder watch has been woken to end
  services,    \* of HttpServer, SSDP and the network watch, those started
  initial,     \* m_initialScanInProgress
  changed,     \* the sources differ from the watch loop's signature
  stale,       \* history: the sources have changed since the last scan began
  unscanned,   \* history: the catalog was reset since the last scan began
  quit         \* history: a stop was asked for since that reset

flags   == <<running, stopping>>
scans   == <<handle, waits>>
watches == <<stopWatch, changed>>
history == <<stale, unscanned, quit>>
vars == <<pc, call, flags, scans, watches, told, services, initial, history>>

Goto(a, l) == pc' = [pc EXCEPT ![a] = l]
Call(a, l) == call' = [call EXCEPT ![a] = l]
At(a, l)   == pc[a] = l /\ call[a] = "no"

(* A thread that is not there, or has ended, is joined at once. *)
Joinable(a) == pc[a] # "none"
Finished(a) == pc[a] \in {"none", "ended"}

-----------------------------------------------------------------------------
(* StartBackgroundScan and JoinBackgroundScan, called by any thread.       *)

ShouldStartScan == running /\ ~stopping

(* MediaSources::Scan begins, on a thread of its own or the rescan worker. *)
Begins == stale' = FALSE /\ unscanned' = FALSE

CheckScan(a) ==
  /\ call[a] \in {"check", "recheck"}
  /\ Call(a, IF ~ShouldStartScan THEN "no" ELSE IF call[a] = "check" THEN "take" ELSE "launch")
  /\ UNCHANGED <<pc, flags, scans, watches, told, services, initial, history>>

(* fault: a scan that runs is left to run, and nothing is started *)
TakeOrLeave(a) ==
  /\ call[a] \in {"take", "jtake"}
  /\ IF call[a] = "take" /\ handle = "runs"
     THEN Call(a, "no") /\ UNCHANGED scans
     ELSE /\ waits' = [waits EXCEPT ![a] = (handle = "runs")]
          /\ handle' = "none"
          /\ Call(a, IF call[a] = "take" THEN "join" ELSE "jjoin")
  /\ UNCHANGED <<pc, flags, watches, told, services, initial, history>>

(* With m_scanMutex held: the handle is moved out. *)
TakeHandle(a) ==
  /\ call[a] \in {"take", "jtake"}
  /\ waits' = [waits EXCEPT ![a] = (handle = "runs")]
  /\ handle' = "none"
  /\ Call(a, IF call[a] = "take" THEN "join" ELSE "jjoin")
  /\ UNCHANGED <<pc, flags, watches, told, services, initial, history>>

JoinPrevious(a) ==
  /\ call[a] \in {"join", "jjoin"} /\ ~waits[a]
  /\ Call(a, IF call[a] = "join" THEN "recheck" ELSE "no")
  /\ UNCHANGED <<pc, flags, scans, watches, told, services, initial, history>>

(* With m_scanMutex held again: somebody else may have started a scan. *)
Launch(a) ==
  /\ call[a] = "launch"
  /\ \/ handle # "none" /\ UNCHANGED <<handle, stale, unscanned>>
     \/ handle = "none" /\ handle' = "runs" /\ Begins
  /\ Call(a, "no")
  /\ UNCHANGED <<pc, flags, waits, watches, told, services, initial, quit>>

(* A scan ends, in m_scanThread or where its handle was taken to. *)
EndScan ==
  /\ handle = "runs" /\ handle' = "ended"
  /\ UNCHANGED <<pc, call, flags, waits, watches, told, services, initial, history>>

EndTaken(a) ==
  /\ waits[a] /\ waits' = [waits EXCEPT ![a] = FALSE]
  /\ UNCHANGED <<pc, call, flags, handle, watches, told, services, initial, history>>

-----------------------------------------------------------------------------
(* StopDirectoryWatch and StartDirectoryWatch: the state of the folder     *)
(* watch has no lock, and Start, Stop and Rescan all call them.            *)

QuitDir(a) ==
  /\ call[a] = "quitDir"
  /\ told' = TRUE
  /\ Call(a, "joinDir")
  /\ UNCHANGED <<pc, flags, scans, watches, services, initial, history>>

JoinDir(a) ==
  /\ call[a] = "joinDir" /\ Finished("dir")
  /\ pc' = [pc EXCEPT !["dir"] = "none"]
  /\ Call(a, "no")
  /\ UNCHANGED <<flags, scans, watches, told, services, initial, history>>

(* Two threads join the one thread: the second one's join throws, and what *)
(* it was doing is given up (RunGuarded).                                  *)
JoinTwice(a) ==
  /\ Joinable("dir")
  /\ \E b \in {"main", "rescan"} : b # a /\ call[a] = "joinDir" /\ call[b] = "joinDir"
  /\ Goto(a, "lost") /\ Call(a, "no")
  /\ UNCHANGED <<flags, scans, watches, told, services, initial, history>>

(* Not one folder is there to watch, or inotify refuses them all. *)
Unwatched(a) == Goto(a, "idle") /\ UNCHANGED <<call, scans, told>>

(* StartDirectoryWatch, after its StopDirectoryWatch; assigning over a     *)
(* joinable thread terminates the process.                                 *)
NewDir(a) ==
  /\ At(a, "newDir")
  /\ \/ /\ ~Joinable("dir")
        /\ pc' = [pc EXCEPT !["dir"] = "poll", ![a] = "idle"]
        /\ told' = FALSE
        /\ UNCHANGED <<call, scans>>
     \/ /\ Joinable("dir")
        /\ pc' = [b \in Actor |-> "lost"] /\ call' = [b \in Actor |-> "no"]
        /\ handle' = "none" /\ waits' = [b \in Actor |-> FALSE]
        /\ UNCHANGED told
     \/ Unwatched(a)
  /\ UNCHANGED <<flags, watches, services, initial, history>>

-----------------------------------------------------------------------------
(* Server::Start and Server::Stop, on the worker of the interface.         *)

(* A refused start leaves the server as it was. *)
Begin ==
  /\ At("main", "idle") /\ ~running
  /\ stopping' = FALSE
  /\ pc' \in {pc, [pc EXCEPT !["main"] = "reset"]}
  /\ UNCHANGED <<call, running, scans, watches, told, services, initial, history>>

(* m_rescanMutex is held for the whole of a Rescan. *)
Rescanning == pc["rescan"] \notin {"idle", "lock", "lost"}

ResetForStart ==
  /\ At("main", "reset") /\ ~Rescanning
  /\ unscanned' = TRUE /\ quit' = FALSE
  /\ initial' = TRUE
  /\ Goto("main", "http")
  /\ UNCHANGED <<call, flags, scans, watches, told, services, stale>>

FailStart ==
  /\ At("main", "http") \/ At("main", "ssdp")
  /\ services' = {}
  /\ initial' = FALSE
  /\ Goto("main", "idle")
  /\ UNCHANGED <<call, flags, scans, watches, told, history>>

StartHttp ==
  /\ At("main", "http")
  /\ services' = {"http"}
  /\ Goto("main", "ssdp")
  /\ UNCHANGED <<call, flags, scans, watches, told, initial, history>>

(* In localhost mode SSDP is not started, which makes no difference here. *)
StartSsdp ==
  /\ At("main", "ssdp")
  /\ services' = services \cup {"ssdp"}
  /\ Goto("main", "up")
  /\ UNCHANGED <<call, flags, scans, watches, told, initial, history>>

Up ==
  /\ At("main", "up")
  /\ running' = TRUE
  /\ Call("main", "check") /\ Goto("main", "complete")
  /\ UNCHANGED <<stopping, scans, watches, told, services, initial, history>>

(* A thread of Start's own waits for the scan. *)
StartCompletion ==
  /\ At("main", "complete") /\ Finished("hook")
  /\ pc' = [pc EXCEPT !["hook"] = "scanned", !["main"] = "net"]
  /\ Call("hook", "jtake")
  /\ UNCHANGED <<flags, scans, watches, told, services, initial, history>>

StartWatchers ==
  /\ At("main", "net")
  /\ services' = services \cup {"net"}
  /\ Goto("main", "newDir") /\ Call("main", "quitDir")
  /\ UNCHANGED <<flags, scans, watches, told, initial, history>>

Stop ==
  /\ At("main", "idle") /\ running
  /\ running' = FALSE /\ stopping' = TRUE
  /\ quit' = TRUE
  /\ Goto("main", "joinHook")
  /\ UNCHANGED <<call, scans, watches, told, services, initial, stale, unscanned>>

(* fault: the watch loop is stopped without waiting for the thread that    *)
(* starts it                                                               *)
HookIgnored == TRUE

HookJoined == Finished("hook")

JoinCompletion ==
  /\ At("main", "joinHook") /\ HookJoined
  /\ pc' = [pc EXCEPT !["hook"] = IF @ = "ended" THEN "none" ELSE @, !["main"] = "stopWatch"]
  /\ UNCHANGED <<call, flags, scans, watches, told, services, initial, history>>

(* fault: the loop is joined and never told *)
StopWatchSilently ==
  /\ At("main", "stopWatch")
  /\ Goto("main", "joinWatch")
  /\ UNCHANGED <<call, flags, scans, watches, told, services, initial, history>>

(* StopWatchMode sets the flag and joins the loop. *)
StopWatchMode ==
  /\ At("main", "stopWatch")
  /\ stopWatch' = TRUE
  /\ Goto("main", "joinWatch")
  /\ UNCHANGED <<call, flags, scans, changed, told, services, initial, history>>

StopWatchers ==
  /\ At("main", "joinWatch") /\ Finished("watch")
  /\ pc' = [pc EXCEPT !["watch"] = "none", !["main"] = "services"]
  /\ services' = services \ {"net"}
  /\ Call("main", "quitDir")
  /\ UNCHANGED <<flags, scans, watches, told, initial, history>>

StopServices ==
  /\ At("main", "services")
  /\ services' = {}
  /\ Call("main", "jtake") /\ Goto("main", "joined")
  /\ UNCHANGED <<flags, scans, watches, told, initial, history>>

Stopped ==
  /\ At("main", "joined")
  /\ Goto("main", "idle")
  /\ UNCHANGED <<call, flags, scans, watches, told, services, initial, history>>

MainStep ==
  \/ ResetForStart \/ StartHttp \/ StartSsdp \/ Up \/ StartCompletion \/ StartWatchers
  \/ JoinCompletion \/ StopWatchMode \/ StopWatchers \/ StopServices \/ Stopped

-----------------------------------------------------------------------------
(* Server::Rescan, on a worker of its own.                                 *)

AskRescan ==
  /\ At("rescan", "idle")
  /\ Goto("rescan", "lock")
  /\ UNCHANGED <<call, flags, scans, watches, told, services, initial, history>>

ResetForRescan ==
  /\ At("rescan", "lock")
  /\ unscanned' = TRUE /\ quit' = FALSE
  /\ Goto("rescan", "choose")
  /\ UNCHANGED <<call, flags, scans, watches, told, services, initial, stale>>

(* A scan of its own thread, or one on this thread if the server is stopped. *)
RunScan ==
  /\ At("rescan", "choose")
  /\ \/ running /\ Call("rescan", "check") /\ Goto("rescan", "join")
        /\ UNCHANGED <<scans, stale, unscanned>>
     \/ /\ ~running
        /\ Begins /\ waits' = [waits EXCEPT !["rescan"] = TRUE]
        /\ Call("rescan", "jjoin") /\ Goto("rescan", "again")
        /\ UNCHANGED handle
  /\ UNCHANGED <<flags, watches, told, services, initial, quit>>

JoinScan ==
  /\ At("rescan", "join")
  /\ Call("rescan", "jtake") /\ Goto("rescan", "again")
  /\ UNCHANGED <<flags, scans, watches, told, services, initial, history>>

(* The folder watch is restarted, if the server runs. *)
RestartDir ==
  /\ At("rescan", "again")
  /\ \/ running /\ Goto("rescan", "newDir") /\ Call("rescan", "quitDir")
     \/ ~running /\ Goto("rescan", "idle") /\ UNCHANGED call
  /\ UNCHANGED <<flags, scans, watches, told, services, initial, history>>

RescanStep == ResetForRescan \/ RunScan \/ JoinScan \/ RestartDir

-----------------------------------------------------------------------------
(* The scan-completion thread.                                             *)

(* The initial scan has ended, or its handle was taken by somebody else;   *)
(* StartWatchMode begins with StopWatchMode.                               *)
InitialScanEnds ==
  /\ At("hook", "scanned")
  /\ initial' = FALSE
  /\ stopWatch' = TRUE
  /\ Goto("hook", "joinWatch")
  /\ UNCHANGED <<call, flags, scans, changed, told, services, history>>

(* fault: StartWatchMode leaves the flag StopWatchMode has set *)
StartsStopped == TRUE

FlagForLoop == FALSE

(* StartWatchMode, after its StopWatchMode. *)
StartWatchMode ==
  /\ At("hook", "joinWatch") /\ Finished("watch")
  /\ stopWatch' = FlagForLoop
  /\ pc' = [pc EXCEPT !["watch"] = "sign", !["hook"] = "ended"]
  /\ UNCHANGED <<call, flags, scans, changed, told, services, initial, history>>

HookStep == InitialScanEnds \/ StartWatchMode

-----------------------------------------------------------------------------
(* The watch loop and the folder watch.                                    *)

(* The signature the loop compares with is of what there is now. *)
Sign == changed' = FALSE
MediaSourcesHaveChanged == changed
ShouldAutoRescan(c) == AutoScan /\ c

FirstSignature ==
  /\ At("watch", "sign")
  /\ Sign
  /\ Goto("watch", "poll")
  /\ UNCHANGED <<call, flags, scans, stopWatch, told, services, initial, history>>

(* The poll interval is over; a poll that finds no change changes nothing. *)
Poll ==
  /\ At("watch", "poll") /\ ~stopWatch /\ MediaSourcesHaveChanged
  /\ Sign
  /\ Call("watch", IF ShouldAutoRescan(TRUE) THEN "check" ELSE "no")
  /\ UNCHANGED <<pc, flags, scans, stopWatch, told, services, initial, history>>

EndLoop ==
  /\ At("watch", "poll") /\ stopWatch
  /\ Goto("watch", "ended")
  /\ UNCHANGED <<call, flags, scans, watches, told, services, initial, history>>

(* TriggerAutoRescanIfEnabled, called by the folder watch. *)
Triggers == running /\ ShouldAutoRescan(TRUE) /\ ~stopWatch

(* A burst of events gets past the debouncer.  One that does not is lost,  *)
(* like a change in a folder that could not be watched, or in a new one    *)
(* before it is: no event need ever come, and the poll is what finds it.   *)
DirEvent ==
  /\ At("dir", "poll") /\ ~told /\ Triggers
  /\ Call("dir", "check")
  /\ UNCHANGED <<pc, flags, scans, watches, told, services, initial, history>>

EndDir ==
  /\ At("dir", "poll") /\ told
  /\ Goto("dir", "ended")
  /\ UNCHANGED <<call, flags, scans, watches, told, services, initial, history>>

WatchStep == FirstSignature \/ Poll \/ EndLoop

-----------------------------------------------------------------------------
(* The sources change. *)
Change ==
  /\ stale' = TRUE /\ changed' = TRUE
  /\ UNCHANGED <<pc, call, flags, scans, stopWatch, told, services, initial, unscanned, quit>>

CallStep(a) ==
  \/ CheckScan(a) \/ TakeHandle(a) \/ JoinPrevious(a) \/ Launch(a) \/ EndTaken(a)
  \/ QuitDir(a) \/ JoinDir(a) \/ NewDir(a)

ActorStep(a) ==
  \/ CallStep(a)
  \/ a = "main" /\ MainStep
  \/ a = "rescan" /\ RescanStep
  \/ a = "hook" /\ HookStep
  \/ a = "watch" /\ WatchStep
  \/ a = "dir" /\ EndDir

Init ==
  /\ pc = [a \in Actor |-> IF a \in {"main", "rescan"} THEN "idle" ELSE "none"]
  /\ call = [a \in Actor |-> "no"]
  /\ running = FALSE /\ stopping = FALSE
  /\ handle = "none" /\ waits = [a \in Actor |-> FALSE]
  /\ stopWatch = FALSE /\ changed = FALSE /\ told = FALSE
  /\ services = {} /\ initial = FALSE
  /\ stale = FALSE /\ unscanned = FALSE /\ quit = FALSE

Next ==
  \/ \E a \in Actor : ActorStep(a) \/ JoinTwice(a)
  \/ EndScan \/ Begin \/ Stop \/ FailStart \/ AskRescan \/ DirEvent \/ Change

Spec == Init /\ [][Next]_vars

(* Threads keep running, scans end, and m_rescanMutex does not pass over a *)
(* start that waits for it for ever, however many rescans are asked for.   *)
FairSpec ==
  /\ Spec
  /\ SF_vars(ResetForStart)
  /\ \A a \in Actor : WF_vars(ActorStep(a))
  /\ WF_vars(EndScan)
-----------------------------------------------------------------------------
Labels == [
  main   |-> {"idle", "reset", "http", "ssdp", "up", "complete", "net", "newDir", "joinHook",
              "stopWatch", "joinWatch", "services", "joined"},
  rescan |-> {"idle", "lock", "choose", "join", "again", "newDir"},
  hook   |-> {"none", "scanned", "joinWatch", "ended"},
  watch  |-> {"none", "sign", "poll", "ended"},
  dir    |-> {"none", "poll", "ended"}]

Calls == {"no", "check", "take", "join", "recheck", "launch", "jtake", "jjoin", "quitDir", "joinDir"}

(* The type invariant; a thread waits for a scan only inside a join. *)
TypeOK ==
  /\ \A a \in Actor : pc[a] \in Labels[a] \cup {"lost"}
  /\ call \in [Actor -> Calls]
  /\ handle \in {"none", "runs", "ended"} /\ waits \in [Actor -> BOOLEAN]
  /\ \A a \in Actor : waits[a] => call[a] \in {"join", "jjoin"}
  /\ services \subseteq {"http", "ssdp", "net"}
  /\ \A f \in {running, stopping, stopWatch, told, initial, changed, stale, unscanned, quit} :
        f \in BOOLEAN

Running == {a \in Actor : waits[a]} \cup {h \in {"handle"} : handle = "runs"}

(* When a stop has returned, or a start failed, the services, the          *)
(* completion thread and the watch loop are gone; no scan runs either,     *)
(* but for one a rescan is waiting for.                                    *)
StoppedIsQuiet ==
  At("main", "idle") /\ ~running =>
    /\ services = {} /\ ~initial
    /\ ~Joinable("hook") /\ ~Joinable("watch")
    /\ Running # {} => Rescanning

(* When Rescan has come to wait for its scan, one has begun since its      *)
(* reset, whoever started it, unless the server was stopped meanwhile; and *)
(* so it is when Start returns.                                            *)
ResetIsScanned ==
  /\ At("rescan", "join") => ~unscanned \/ quit
  /\ At("main", "idle") /\ running /\ ~Rescanning => ~unscanned

(* When the completion thread is done the watch loop runs, and nothing     *)
(* tells it to stop, until the server is stopped.                          *)
WatchedWhileRunning ==
  running /\ pc["hook"] = "ended" /\ pc["main"] = "idle" =>
    ~stopWatch /\ pc["watch"] \in {"sign", "poll"}

(* A change that the signature of the watch loop tells is followed by a    *)
(* scan that begins after it, unless the server is stopped: although a     *)
(* scan is running that began before it, and its thread is another's.      *)
ChangesAreScanned ==
  AutoScan /\ stale /\ changed /\ At("watch", "poll") ~> ~stale \/ ~running \/ pc["watch"] = "lost"

(* A stop leaves nothing behind, a start and a rescan have their scan, and *)
(* every thread is where it may be.                                        *)
LifecycleSound == TypeOK /\ StoppedIsQuiet /\ ResetIsScanned

(* Start, Stop and Rescan return, although they wait for scans, for each   *)
(* other and for threads that wait for scans: unless two of them join the  *)
(* folder watch at once, or one has started it anew while the other was    *)
(* about to join it.                                                       *)
CallsReturn ==
  \A a \in {"main", "rescan"} :
    pc[a] # "idle" ~>
      pc[a] \in {"idle", "lost"} \/ (call[a] = "joinDir" /\ ~told)

(* Violated: "A new background scan waits for the running one to finish." *)
OneScanAtATime == Cardinality(Running) <= 1

(* Violated: "watcher belongs to a running server only" *)
WatcherOfRunningServer == At("main", "idle") /\ ~running => ~Joinable("dir")

=============================================================================
