------------------------------ MODULE Server_proof ------------------------------
(***************************************************************************)
(* What is proved of ServerLifecycle and of UpnpEventing.                  *)
(*                                                                         *)
(* The threads of Server: LifeInv says which function each thread can be   *)
(* in, what the flags say of Start and Stop, which threads are there, and  *)
(* who can still have a scan.                                              *)
(*                                                                         *)
(* The events it tells, for every limit and every number of subscriptions, *)
(* updates and stops: EventsInv is about the table and its mirror,         *)
(* NumbersInv about the jobs on their way.  The queue after a dispatch is  *)
(* a recursive function of its jobs; facts about it are proved by          *)
(* induction, from the least number for which they would fail.             *)
(***************************************************************************)
EXTENDS UpnpEventing, ServerLifecycle, FiniteSetTheorems, WellFoundedInduction, TLAPS

-----------------------------------------------------------------------------
(* Where each thread can be in the function it calls. *)
ScanCalls == {"no", "check", "take", "join", "recheck", "launch"}
JoinCalls == {"no", "jtake", "jjoin"}
DirCalls  == {"no", "quitDir", "joinDir"}

(* Which function a thread can be in the middle of, where it is. *)
CallsFit ==
  /\ \/ call["main"] = "no"
     \/ pc["main"] = "complete" /\ call["main"] \in ScanCalls
     \/ pc["main"] \in {"newDir", "services"} /\ call["main"] \in DirCalls
     \/ pc["main"] = "joined" /\ call["main"] \in JoinCalls
  /\ \/ call["rescan"] = "no"
     \/ pc["rescan"] = "join" /\ call["rescan"] \in ScanCalls
     \/ pc["rescan"] = "again" /\ call["rescan"] \in JoinCalls
     \/ pc["rescan"] = "newDir" /\ call["rescan"] \in DirCalls
  /\ call["hook"] = "no" \/ (pc["hook"] = "scanned" /\ call["hook"] \in JoinCalls)
  /\ \A a \in {"watch", "dir"} : call[a] = "no" \/ (pc[a] = "poll" /\ call[a] \in ScanCalls)

(* The type invariant as the provers want it: the functions' domains, and  *)
(* the flags one by one.                                                   *)
Places == {"lost"} \cup UNION {Labels[a] : a \in Actor}
Placed ==
  /\ pc \in [Actor -> Places] /\ \A a \in Actor : pc[a] \in Labels[a] \cup {"lost"}
  /\ call \in [Actor -> Calls]
  /\ waits \in [Actor -> BOOLEAN] /\ \A a \in Actor : waits[a] => call[a] \in {"join", "jjoin"}
  /\ handle \in {"none", "runs", "ended"} /\ services \subseteq {"http", "ssdp", "net"}
Switches ==
  /\ running \in BOOLEAN /\ stopping \in BOOLEAN /\ stopWatch \in BOOLEAN
  /\ told \in BOOLEAN /\ initial \in BOOLEAN /\ changed \in BOOLEAN
  /\ stale \in BOOLEAN /\ unscanned \in BOOLEAN /\ quit \in BOOLEAN

(* The flags say where Start and Stop are; a stop asked for is taken back  *)
(* by the reset of the next start or rescan.                               *)
FlagsFit ==
  \/ pc["main"] \in {"idle", "lost"} /\ (running => ~stopping /\ ~quit)
  \/ pc["main"] = "reset" /\ ~running /\ ~stopping
  \/ pc["main"] \in {"http", "ssdp", "up"} /\ ~running /\ ~stopping /\ ~quit
  \/ pc["main"] \in {"complete", "net", "newDir"} /\ running /\ ~stopping /\ ~quit
  \/ pc["main"] \in {"joinHook", "stopWatch", "joinWatch", "services", "joined"} /\ ~running /\ stopping

AtRest  == pc["main"] = "idle" /\ ~running
Rising  == pc["main"] \in {"reset", "http", "ssdp", "up"}
Started == pc["main"] \in {"net", "newDir"} \/ (pc["main"] = "idle" /\ running)

(* The completion thread and the watch loop are there between Start and    *)
(* Stop only, and the one makes the other.                                 *)
ThreadsFit ==
  /\ "lost" \in {pc["hook"], pc["watch"], pc["dir"]} => pc["main"] = "lost"
  /\ AtRest \/ Rising \/ pc["main"] \in {"complete", "stopWatch", "joinWatch", "services", "joined"}
       => pc["hook"] = "none"
  /\ AtRest \/ Rising \/ pc["main"] \in {"complete", "services", "joined"} => pc["watch"] = "none"
  /\ Started \/ pc["main"] = "joinHook" => pc["hook"] # "none"
  /\ pc["hook"] \in {"none", "scanned"} /\ pc["main"] \notin {"stopWatch", "joinWatch", "lost"}
       => pc["watch"] = "none"
  /\ pc["hook"] = "ended" /\ (Started \/ pc["main"] = "joinHook")
       => ~stopWatch /\ pc["watch"] \in {"sign", "poll"}

ServicesFit ==
  /\ AtRest \/ pc["main"] \in {"reset", "http", "joined"} => services = {}
  /\ AtRest \/ pc["main"] \in {"reset", "stopWatch", "joinWatch", "services", "joined"} => ~initial
  /\ pc["hook"] \in {"joinWatch", "ended"} /\ pc["main"] # "lost" => ~initial

(* Once Stop has joined the folder watch no event begins a scan, and once  *)
(* it has taken the handle only a rescan puts another one there.           *)
ScansFit ==
  /\ \/ pc["main"] = "services" /\ call["main"] = "no"
     \/ pc["main"] = "joined" \/ Rising \/ AtRest
     => call["dir"] = "no"
  /\ (pc["main"] = "joined" /\ call["main"] # "jtake") \/ Rising \/ AtRest
     => (handle = "runs" => pc["rescan"] = "join" \/ (pc["rescan"] = "again" /\ call["rescan"] = "jtake"))

(* A scan begins after the reset, unless a stop comes first: who finds a   *)
(* handle where it left none finds that of a scan that began since.        *)
ScanFollows ==
  /\ pc["rescan"] = "join" => running \/ quit
  /\ pc["rescan"] = "join" /\ call["rescan"] \in {"join", "recheck", "launch"} /\ handle # "none"
       => ~unscanned
  /\ (pc["rescan"] = "join" /\ call["rescan"] = "no") \/ pc["rescan"] \in {"again", "newDir"}
       => ~unscanned \/ quit
  /\ pc["main"] = "complete" /\ call["main"] \in {"join", "recheck", "launch"} /\ handle # "none"
       => ~unscanned \/ Rescanning
  /\ (pc["main"] = "complete" /\ call["main"] = "no") \/ Started
       => ~unscanned \/ Rescanning

LifeInv ==
  /\ Placed /\ Switches /\ CallsFit
  /\ FlagsFit /\ ThreadsFit /\ ServicesFit /\ ScansFit /\ ScanFollows

(* The flags stay Boolean, whatever the worker that starts and stops does. *)
LEMMA MainSwitches == Switches /\ MainStep => Switches'
BY ZenonT(60) DEF Switches, MainStep, ResetForStart, StartHttp, StartSsdp, Up, StartCompletion,
   StartWatchers, JoinCompletion, HookJoined, StopWatchMode, StopWatchers, StopServices,
   Stopped, flags, scans, watches, history

(* A step of Start or of Stop. *)
LEMMA MainKeeps ==
  ASSUME LifeInv, MainStep
  PROVE  LifeInv'
<1>0. Switches'
  BY MainSwitches DEF LifeInv
<1> USE DEF LifeInv, Switches, flags, scans, watches, history, Actor, Goto, Call, At, Joinable, Finished,
            Placed, Labels, Places, Calls, CallsFit, ScanCalls, JoinCalls, DirCalls, FlagsFit, AtRest,
            Rising, Started, ThreadsFit, ServicesFit, ScansFit, ScanFollows, Rescanning
<1>1. CASE ResetForStart
  BY <1>0, <1>1 DEF ResetForStart
<1>2. CASE StartHttp
  BY <1>0, <1>2 DEF StartHttp
<1>3. CASE StartSsdp
  BY <1>0, <1>3 DEF StartSsdp
<1>4. CASE Up
  BY <1>0, <1>4 DEF Up
<1>5. CASE StartCompletion
  BY <1>0, <1>5 DEF StartCompletion
<1>6. CASE StartWatchers
  BY <1>0, <1>6 DEF StartWatchers
<1>7. CASE JoinCompletion
  BY <1>0, <1>7 DEF JoinCompletion, HookJoined
<1>8. CASE StopWatchMode
  BY <1>0, <1>8 DEF StopWatchMode
<1>9. CASE StopWatchers
  BY <1>0, <1>9 DEF StopWatchers
<1>10. CASE StopServices
  BY <1>0, <1>10 DEF StopServices
<1>11. CASE Stopped
  BY <1>0, <1>11 DEF Stopped
<1> QED
  BY <1>1, <1>2, <1>3, <1>4, <1>5, <1>6, <1>7, <1>8, <1>9, <1>10, <1>11 DEF MainStep

(* The flags stay Boolean in a rescan. *)
LEMMA RescanSwitches == Switches /\ RescanStep => Switches'
BY Zenon DEF Switches, RescanStep, ResetForRescan, RunScan, Begins, JoinScan, RestartDir,
   flags, scans, watches, history

(* A step of Rescan. *)
LEMMA RescanKeeps ==
  ASSUME LifeInv, RescanStep
  PROVE  LifeInv'
<1>0. Switches'
  BY RescanSwitches DEF LifeInv
<1> USE DEF LifeInv, Switches, flags, scans, watches, history, Actor, Goto, Call, At, Joinable, Finished,
            Placed, Labels, Places, Calls, CallsFit, ScanCalls, JoinCalls, DirCalls, FlagsFit, AtRest,
            Rising, Started, ThreadsFit, ServicesFit, ScansFit, ScanFollows, Rescanning
<1>1. CASE ResetForRescan
  BY <1>0, <1>1 DEF ResetForRescan
<1>2. CASE RunScan
  <2>1. CASE running
    BY <1>0, <1>2, <2>1 DEF RunScan
  <2>2. CASE ~running
    <3>1. /\ waits' = [waits EXCEPT !["rescan"] = TRUE] /\ call' = [call EXCEPT !["rescan"] = "jjoin"]
          /\ pc' = [pc EXCEPT !["rescan"] = "again"] /\ stale' = FALSE /\ unscanned' = FALSE
          /\ UNCHANGED <<handle, flags, watches, told, services, initial, quit>> /\ At("rescan", "choose")
      BY <1>2, <2>2 DEF RunScan, Begins
    <3>2. Placed'
      BY <3>1
    <3>3. (CallsFit /\ FlagsFit /\ ThreadsFit /\ ServicesFit /\ ScansFit /\ ScanFollows)'
      BY <3>1
    <3> QED
      BY <1>0, <3>2, <3>3
  <2> QED
    BY <2>1, <2>2
<1>3. CASE JoinScan
  BY <1>0, <1>3 DEF JoinScan
<1>4. CASE RestartDir
  BY <1>0, <1>4 DEF RestartDir
<1> QED
  BY <1>1, <1>2, <1>3, <1>4 DEF RescanStep

(* The flags stay Boolean in the completion thread. *)
LEMMA HookSwitches == Switches /\ HookStep => Switches'
BY Zenon DEF Switches, HookStep, InitialScanEnds, StartWatchMode, FlagForLoop, flags, scans,
   watches, history

(* A step of the scan-completion thread. *)
LEMMA HookKeeps ==
  ASSUME LifeInv, HookStep
  PROVE  LifeInv'
<1>0. Switches'
  BY HookSwitches DEF LifeInv
<1> USE DEF LifeInv, Switches, flags, scans, watches, history, Actor, Goto, Call, At, Joinable, Finished,
            Placed, Labels, Places, Calls, CallsFit, ScanCalls, JoinCalls, DirCalls, FlagsFit, AtRest,
            Rising, Started, ThreadsFit, ServicesFit, ScansFit, ScanFollows, Rescanning
<1>1. CASE InitialScanEnds
  BY <1>0, <1>1 DEF InitialScanEnds
<1>2. CASE StartWatchMode
  BY <1>0, <1>2 DEF StartWatchMode, FlagForLoop
<1> QED
  BY <1>1, <1>2 DEF HookStep

(* The flags stay Boolean in the watch loop. *)
LEMMA WatchSwitches == Switches /\ WatchStep => Switches'
BY Zenon DEF Switches, WatchStep, FirstSignature, Sign, Poll, MediaSourcesHaveChanged,
   ShouldAutoRescan, EndLoop, flags, scans, watches, history

(* A step of the watch loop. *)
LEMMA WatchKeeps ==
  ASSUME LifeInv, WatchStep
  PROVE  LifeInv'
<1>0. Switches'
  BY WatchSwitches DEF LifeInv
<1> USE DEF LifeInv, Switches, flags, scans, watches, history, Actor, Goto, Call, At, Joinable, Finished,
            Placed, Labels, Places, Calls, CallsFit, ScanCalls, JoinCalls, DirCalls, FlagsFit, AtRest,
            Rising, Started, ThreadsFit, ServicesFit, ScansFit, ScanFollows, Rescanning
<1>1. CASE FirstSignature
  BY <1>0, <1>1 DEF FirstSignature, Sign
<1>2. CASE Poll
  BY <1>0, <1>2 DEF Poll, Sign, MediaSourcesHaveChanged, ShouldAutoRescan
<1>3. CASE EndLoop
  BY <1>0, <1>3 DEF EndLoop
<1> QED
  BY <1>1, <1>2, <1>3 DEF WatchStep

(* The flags stay Boolean in what no actor waits for. *)
LEMMA OthersSwitches == Switches /\ (EndDir \/ EndScan \/ Begin \/ Stop \/ FailStart \/ AskRescan \/ DirEvent \/ Change) => Switches'
BY ZenonT(60) DEF Switches, EndDir, EndScan, Begin, Stop, FailStart, AskRescan, DirEvent,
   Triggers, Change, flags, scans, watches, history

(* A request of the user, the end of a scan, an event of the folder watch. *)
LEMMA OthersKeeps ==
  ASSUME LifeInv, (EndDir \/ EndScan \/ Begin \/ Stop \/ FailStart \/ AskRescan \/ DirEvent \/ Change)
  PROVE  LifeInv'
<1>0. Switches'
  BY OthersSwitches DEF LifeInv
<1> USE DEF LifeInv, Switches, flags, scans, watches, history, Actor, Goto, Call, At, Joinable, Finished,
            Placed, Labels, Places, Calls, CallsFit, ScanCalls, JoinCalls, DirCalls, FlagsFit, AtRest,
            Rising, Started, ThreadsFit, ServicesFit, ScansFit, ScanFollows, Rescanning
<1>1. CASE EndDir
  BY <1>0, <1>1 DEF EndDir
<1>2. CASE EndScan
  BY <1>0, <1>2 DEF EndScan
<1>3. CASE Begin
  BY <1>0, <1>3 DEF Begin
<1>4. CASE Stop
  BY <1>0, <1>4 DEF Stop
<1>5. CASE FailStart
  BY <1>0, <1>5 DEF FailStart
<1>6. CASE AskRescan
  BY <1>0, <1>6 DEF AskRescan
<1>7. CASE DirEvent
  BY <1>0, <1>7 DEF DirEvent, Triggers
<1>8. CASE Change
  BY <1>0, <1>8 DEF Change
<1> QED
  BY <1>1, <1>2, <1>3, <1>4, <1>5, <1>6, <1>7, <1>8

(* A step inside StartBackgroundScan, JoinBackgroundScan,                  *)
(* StopDirectoryWatch or StartDirectoryWatch, on whatever thread.          *)
LEMMA CallsKeep ==
  ASSUME LifeInv, NEW a \in Actor, CallStep(a) \/ JoinTwice(a)
  PROVE  LifeInv'
<1>0. Switches'
  BY ZenonT(60) DEF LifeInv, Switches, CallStep, CheckScan, ShouldStartScan, TakeHandle,
     JoinPrevious, Launch, Begins, EndTaken, QuitDir, JoinDir, NewDir, Unwatched, JoinTwice,
     flags, scans, watches, history
<1> USE DEF LifeInv, Switches, flags, scans, watches, history, Actor, Goto, Call, At, Joinable, Finished,
            Placed, Labels, Places, Calls, CallsFit, ScanCalls, JoinCalls, DirCalls, FlagsFit, AtRest,
            Rising, Started, ThreadsFit, ServicesFit, ScansFit, ScanFollows, Rescanning
<1>1. CASE CheckScan(a)
  BY <1>0, <1>1 DEF CheckScan, ShouldStartScan
<1>2. CASE TakeHandle(a)
  BY <1>0, <1>2 DEF TakeHandle
<1>3. CASE JoinPrevious(a)
  BY <1>0, <1>3 DEF JoinPrevious
<1>4. CASE Launch(a)
  BY <1>0, <1>4 DEF Launch, Begins
<1>5. CASE EndTaken(a)
  BY <1>0, <1>5 DEF EndTaken
<1>6. CASE QuitDir(a)
  BY <1>0, <1>6 DEF QuitDir
<1>7. CASE JoinDir(a)
  BY <1>0, <1>7 DEF JoinDir
<1>8. CASE NewDir(a)
  <2>1. a \in {"main", "rescan"} /\ At(a, "newDir") /\ UNCHANGED <<flags, watches, services, initial, history>>
    BY <1>8 DEF NewDir
  <2>2. CASE pc' = [pc EXCEPT !["dir"] = "poll", ![a] = "idle"] /\ UNCHANGED <<call, scans>>
    BY <1>0, <2>1, <2>2
  <2>3. CASE /\ pc' = [b \in Actor |-> "lost"] /\ call' = [b \in Actor |-> "no"]
             /\ handle' = "none" /\ waits' = [b \in Actor |-> FALSE]
    <3>1. Placed'
      <4>1. "lost" \in Places /\ "no" \in Calls /\ {services} \subseteq SUBSET {"http", "ssdp", "net"}
        BY SMT
      <4> HIDE DEF LifeInv, Places, Labels, Actor, Calls
      <4> QED
        BY <2>1, <2>3, <4>1
    <3>2. (CallsFit /\ FlagsFit)'
      BY <2>1, <2>3
    <3>3. (ThreadsFit /\ ServicesFit)'
      BY <2>1, <2>3
    <3>4. (ScansFit /\ ScanFollows)'
      BY <2>1, <2>3
    <3> QED
      BY <1>0, <3>1, <3>2, <3>3, <3>4
  <2>4. CASE Unwatched(a)
    BY <1>0, <2>1, <2>4 DEF Unwatched
  <2> QED
    BY <1>8, <2>2, <2>3, <2>4 DEF NewDir
<1>9. CASE JoinTwice(a)
  <2>1. /\ a \in {"main", "rescan"} /\ call[a] = "joinDir"
        /\ pc' = [pc EXCEPT ![a] = "lost"] /\ call' = [call EXCEPT ![a] = "no"]
        /\ UNCHANGED <<flags, scans, watches, told, services, initial, history>>
    BY <1>9 DEF JoinTwice
  <2>2. Placed'
    <3>0. "lost" \in Places /\ pc \in [Actor -> Places] /\ (\A b \in Actor : pc[b] \in Labels[b] \cup {"lost"})
      OBVIOUS
    <3>1. pc' \in [Actor -> Places] /\ (\A b \in Actor : pc'[b] \in Labels[b] \cup {"lost"})
      <4> HIDE DEF LifeInv, Placed, Places, Labels, Actor
      <4> QED
        BY <2>1, <3>0
    <3>2. call' \in [Actor -> Calls] /\ (\A b \in Actor : waits'[b] => call'[b] \in {"join", "jjoin"})
      BY <2>1
    <3> QED
      BY <2>1, <3>1, <3>2
  <2>3. (CallsFit /\ FlagsFit /\ ThreadsFit /\ ServicesFit /\ ScansFit /\ ScanFollows)'
    BY <2>1
  <2> QED
    BY <1>0, <2>2, <2>3
<1> QED
  BY <1>1, <1>2, <1>3, <1>4, <1>5, <1>6, <1>7, <1>8, <1>9 DEF CallStep


(* The invariant holds before the first start. *)
LEMMA LifeInit == Init => LifeInv
<1> SUFFICES ASSUME Init PROVE LifeInv
  OBVIOUS
<1>1. /\ pc["main"] = "idle" /\ pc["rescan"] = "idle" /\ pc["hook"] = "none" /\ pc["watch"] = "none"
      /\ pc["dir"] = "none" /\ \A a \in Actor : call[a] = "no"
  BY DEF Init, Actor
<1>2. Placed
  BY <1>1 DEF Init, Placed, Actor, Places, Labels, Calls
<1>3. Switches
  BY Zenon DEF Init, Switches
<1>4. CallsFit /\ FlagsFit /\ ThreadsFit /\ ServicesFit /\ ScansFit /\ ScanFollows
  BY <1>1 DEF Init, Actor, CallsFit, FlagsFit, ThreadsFit, ServicesFit, ScansFit, ScanFollows,
     AtRest, Rising, Started
<1> QED
  BY <1>2, <1>3, <1>4 DEF LifeInv

(* Every step keeps it. *)
LEMMA LifeNext == LifeInv /\ [Next]_vars => LifeInv'
<1> SUFFICES ASSUME LifeInv, [Next]_vars
  PROVE  LifeInv'
  OBVIOUS
<1>1. CASE UNCHANGED vars
  BY <1>1 DEF vars, flags, scans, watches, history, LifeInv, Switches, At,
            Placed, CallsFit, FlagsFit, AtRest,
            Rising, Started, ThreadsFit, ServicesFit, ScansFit, ScanFollows, Rescanning
<1>2. ASSUME NEW a \in Actor, ActorStep(a) \/ JoinTwice(a)
      PROVE  LifeInv'
  BY <1>2, CallsKeep, MainKeeps, RescanKeeps, HookKeeps, WatchKeeps, OthersKeeps DEF ActorStep
<1> QED
  BY <1>1, <1>2, OthersKeeps DEF Next

(* The invariant holds in every state. *)
THEOREM LifeInvHolds == Spec => []LifeInv
BY LifeInit, LifeNext, PTL DEF Spec

(* What the invariant gives. *)
LEMMA LifeInvSuffices == LifeInv => LifecycleSound /\ WatchedWhileRunning
<1> SUFFICES ASSUME LifeInv PROVE LifecycleSound /\ WatchedWhileRunning
  OBVIOUS
<1>1. TypeOK
  <2>1. \A f \in {running, stopping, stopWatch, told, initial, changed, stale, unscanned, quit} : f \in BOOLEAN
    BY Zenon DEF LifeInv, Switches
  <2> QED
    BY <2>1 DEF TypeOK, LifeInv, Placed
<1>2. StoppedIsQuiet
  <2> SUFFICES ASSUME At("main", "idle"), ~running
               PROVE  /\ services = {} /\ ~initial /\ ~Joinable("hook") /\ ~Joinable("watch")
                      /\ Running # {} => Rescanning
    BY DEF StoppedIsQuiet
  <2>1. services = {} /\ ~initial /\ ~Joinable("hook") /\ ~Joinable("watch")
    BY DEF LifeInv, ServicesFit, ThreadsFit, AtRest, At, Joinable
  <2>2. handle = "runs" => Rescanning
    BY DEF LifeInv, ScansFit, AtRest, At, Rescanning
  <2>3. ASSUME NEW a \in Actor, waits[a]
        PROVE  Rescanning
    BY <2>3 DEF LifeInv, Actor, Placed, ScansFit, ThreadsFit, CallsFit, AtRest, At, Rescanning,
       ScanCalls, JoinCalls, DirCalls
  <2>4. Running # {} => handle = "runs" \/ \E a \in Actor : waits[a]
    BY DEF Running
  <2> QED
    BY <2>1, <2>2, <2>3, <2>4
<1>3. ResetIsScanned
  BY DEF ResetIsScanned, LifeInv, ScanFollows, Started, At, Rescanning
<1>4. WatchedWhileRunning
  BY DEF WatchedWhileRunning, LifeInv, ThreadsFit, Started
<1> QED
  BY <1>1, <1>2, <1>3, <1>4 DEF LifecycleSound

(* When a stop has returned or a start has failed nothing of the server is *)
(* left but a scan that a rescan waits for; a start and a rescan have had  *)
(* their scan; and a thread waits for a scan only in a join, where one     *)
(* that is not running any more lets it go on (LifecycleSound).            *)
THEOREM LifecycleIsSound == Spec => []LifecycleSound
<1>1. LifeInv => LifecycleSound
  BY LifeInvSuffices
<1> QED
  BY <1>1, LifeInvHolds, PTL

(* The completion thread leaves a watch loop that nobody has told to end,  *)
(* until the server is stopped (WatchedWhileRunning).                      *)
THEOREM RunningIsWatched == Spec => []WatchedWhileRunning
<1>1. LifeInv => WatchedWhileRunning
  BY LifeInvSuffices
<1> QED
  BY <1>1, LifeInvHolds, PTL


-----------------------------------------------------------------------------
(* SIDs are new: the table holds only those made so far. *)
SidsAreOld == issued \in Nat /\ DOMAIN subs \subseteq 1 .. issued

EventsInv == SidsAreOld /\ CountIsExact /\ process \in {"up", "leaving", "gone"}

-----------------------------------------------------------------------------
(* The sets of SIDs that a table may have are finite. *)
LEMMA TableIsFinite ==
  ASSUME SidsAreOld, NEW S \in SUBSET DOMAIN subs
  PROVE  /\ IsFiniteSet(S) /\ Cardinality(S) \in Nat /\ Cardinality(S) <= Cardinality(DOMAIN subs)
         /\ Cardinality(DOMAIN subs) \in Nat
<1>1. IsFiniteSet(1 .. issued)
  BY FS_Interval DEF SidsAreOld
<1>2. IsFiniteSet(DOMAIN subs)
  BY <1>1, FS_Subset DEF SidsAreOld
<1> QED
  BY <1>2, FS_Subset, FS_CardinalityType

(* A step that takes subscriptions away, or changes none, keeps the        *)
(* invariant.                                                              *)
LEMMA ShrinkKeeps ==
  ASSUME EventsInv, issued' = issued, process' = process,
         NEW table, SetSubs(table) \/ (subs' = table /\ count' = count /\ DOMAIN table = DOMAIN subs),
         DOMAIN table \subseteq DOMAIN subs
  PROVE  EventsInv'
<1>1. subs' = table /\ (count' = Cardinality(DOMAIN subs') \/ (count' = count /\ DOMAIN subs' = DOMAIN subs))
  BY DEF SetSubs
<1>2. SidsAreOld'
  BY <1>1 DEF EventsInv, SidsAreOld
<1>3. Cardinality(DOMAIN subs') <= MaxSubscriptions
  <2>1. Cardinality(DOMAIN table) \in Nat /\ Cardinality(DOMAIN table) <= Cardinality(DOMAIN subs)
        /\ Cardinality(DOMAIN subs) \in Nat
    BY TableIsFinite DEF EventsInv
  <2> QED
    BY <1>1, <2>1, EventingAssumption DEF EventsInv, CountIsExact, EventingAssumption
<1>4. process' = "up" => count' = Cardinality(DOMAIN subs')
  BY <1>1 DEF EventsInv, CountIsExact
<1> QED
  BY <1>2, <1>3, <1>4 DEF EventsInv, CountIsExact

(* What a dispatch does to the table: the lapsed go, numbers change. *)
LEMMA DispatchShrinks ==
  ASSUME NEW id, Dispatch(id)
  PROVE  /\ \E table : SetSubs(table) /\ DOMAIN table \subseteq DOMAIN subs
         /\ window' = "running"
<1> DEFINE alive == {s \in DOMAIN subs : ~subs[s].lapsed}
           heard  == {s \in alive : subs[s].service = "content_directory"}
           table == [s \in alive |-> IF s \in heard THEN [subs[s] EXCEPT !.seq = NextSeq(@)] ELSE subs[s]]
<1>1. SetSubs(table) /\ window' = "running"
  BY DEF Dispatch
<1>2. DOMAIN table \subseteq DOMAIN subs
  OBVIOUS
<1> HIDE DEF table
<1> QED
  BY <1>1, <1>2

(* The table with one subscription more, in the place of another one or not. *)
LEMMA SubscribeAdds ==
  ASSUME EventsInv, NEW service, Subscribe(service)
  PROVE  \E gone \in SUBSET DOMAIN subs :
           /\ Cardinality(DOMAIN subs \ gone) < MaxSubscriptions
           /\ count' = Cardinality(DOMAIN subs')
           /\ DOMAIN subs' = (DOMAIN subs \ gone) \cup {issued + 1}
           /\ \A s \in DOMAIN subs \ gone : s # issued + 1 => subs'[s] = subs[s]
<1> DEFINE s     == issued + 1
           fresh == [service |-> service, seq |-> 0, lapsed |-> FALSE]
<1>1. CASE Cardinality(DOMAIN subs) < MaxSubscriptions
  <2>1. SetSubs(With(subs, s, fresh))
    BY <1>1 DEF Subscribe
  <2>2. DOMAIN subs \ {} = DOMAIN subs
    OBVIOUS
  <2> HIDE DEF fresh
  <2> QED
    BY <1>1, <2>1, <2>2 DEF SetSubs, With
<1>2. CASE ~(Cardinality(DOMAIN subs) < MaxSubscriptions)
  <2>1. PICK v \in Victims : SetSubs(With(Without(subs, v), s, fresh))
    BY <1>2 DEF Subscribe
  <2>2. v \in DOMAIN subs
    BY <2>1 DEF Victims
  <2>3. Cardinality(DOMAIN subs \ {v}) < MaxSubscriptions
    <3>1. IsFiniteSet(DOMAIN subs) /\ Cardinality(DOMAIN subs) \in Nat
      BY TableIsFinite DEF EventsInv
    <3>2. Cardinality(DOMAIN subs \ {v}) = Cardinality(DOMAIN subs) - 1
      BY <2>2, <3>1, FS_RemoveElement
    <3> QED
      BY <3>1, <3>2, EventingAssumption DEF EventsInv, CountIsExact, EventingAssumption
  <2> HIDE DEF fresh
  <2>4. /\ DOMAIN subs' = (DOMAIN subs \ {v}) \cup {s} /\ count' = Cardinality(DOMAIN subs')
        /\ \A x \in DOMAIN subs \ {v} : x # s => subs'[x] = subs[x]
    BY <2>1 DEF SetSubs, With, Without, Restrict
  <2>5. {v} \in SUBSET DOMAIN subs
    BY <2>2
  <2> QED
    <3> WITNESS {v} \in SUBSET DOMAIN subs
    <3> QED
      BY <2>3, <2>4
<1> QED
  BY <1>1, <1>2

(* A subscription keeps the invariant. *)
LEMMA SubscribeKeeps ==
  ASSUME EventsInv, NEW service, Subscribe(service)
  PROVE  EventsInv' /\ \A s \in DOMAIN subs \cap DOMAIN subs' : subs'[s] = subs[s]
<1>1. PICK gone \in SUBSET DOMAIN subs :
           /\ Cardinality(DOMAIN subs \ gone) < MaxSubscriptions
           /\ count' = Cardinality(DOMAIN subs')
           /\ DOMAIN subs' = (DOMAIN subs \ gone) \cup {issued + 1}
           /\ \A s \in DOMAIN subs \ gone : s # issued + 1 => subs'[s] = subs[s]
  BY SubscribeAdds
<1>2. issued' = issued + 1 /\ process' = process /\ issued \in Nat /\ issued + 1 \notin DOMAIN subs
  BY DEF Subscribe, stage, EventsInv, SidsAreOld
<1>3. SidsAreOld'
  BY <1>1, <1>2 DEF EventsInv, SidsAreOld
<1>4. Cardinality(DOMAIN subs') <= MaxSubscriptions
  <2>1. IsFiniteSet(DOMAIN subs \ gone) /\ Cardinality(DOMAIN subs \ gone) \in Nat
    BY TableIsFinite DEF EventsInv
  <2>2. Cardinality(DOMAIN subs') \in {Cardinality(DOMAIN subs \ gone), Cardinality(DOMAIN subs \ gone) + 1}
    BY <1>1, <2>1, FS_AddElement
  <2> QED
    BY <1>1, <2>1, <2>2, EventingAssumption DEF EventingAssumption
<1> QED
  BY <1>1, <1>2, <1>3, <1>4 DEF EventsInv, CountIsExact

(* A dispatch keeps it, and begins an interval. *)
LEMMA DispatchKeeps ==
  ASSUME EventsInv, NEW id, Dispatch(id), issued' = issued, process' = process
  PROVE  EventsInv' /\ window' = "running"
<1>1. PICK table : SetSubs(table) /\ DOMAIN table \subseteq DOMAIN subs
  BY DispatchShrinks
<1> QED
  BY <1>1, DispatchShrinks, ShrinkKeeps

(* The steps that change no number of an event. *)
Quiet == \A s \in DOMAIN subs \cap DOMAIN subs' : subs'[s].seq = subs[s].seq

(* A step that only takes subscriptions away. *)
LEMMA RestrictKeeps ==
  ASSUME EventsInv, issued' = issued, process' = process, NEW S, SetSubs(Restrict(subs, S)), S \subseteq DOMAIN subs
  PROVE  EventsInv' /\ Quiet
<1>1. DOMAIN Restrict(subs, S) = S /\ \A s \in S : Restrict(subs, S)[s] = subs[s]
  BY DEF Restrict
<1>2. EventsInv'
  BY <1>1, ShrinkKeeps
<1> QED
  BY <1>1, <1>2 DEF Quiet, SetSubs

(* A step that leaves the table alone. *)
LEMMA TableRests ==
  ASSUME EventsInv, UNCHANGED <<subs, count, issued, process>>
  PROVE  EventsInv' /\ Quiet
BY DEF EventsInv, SidsAreOld, CountIsExact, Quiet

-----------------------------------------------------------------------------
(* Every step keeps the invariant, and paces its events. *)
Pace == Quiet \/ (window # "running" /\ window' = "running")

(* Publishing an update keeps the invariant and the pace. *)
LEMMA PublisherKeeps == EventsInv /\ Publisher => EventsInv' /\ Pace
<1> SUFFICES ASSUME EventsInv, Publisher PROVE EventsInv' /\ Pace
  OBVIOUS
<1> USE DEF stage, sender, catalog
<1>1. CASE BeginBatch \/ PublishItem \/ EndBatch \/ NotifyStores \/ NotifyLoads
  <2>1. UNCHANGED <<subs, count, issued, process>>
    BY <1>1 DEF BeginBatch, PublishItem, EndBatch, NotifyStores, NotifyLoads
  <2> QED
    BY <2>1, TableRests DEF Pace
<1>2. CASE NotifyDispatches
  <2>1. issued' = issued /\ process' = process
    BY <1>2 DEF NotifyDispatches
  <2>2. CASE window \in {"elapsed", "cleared"} /\ Dispatch(publish.id)
    BY <2>1, <2>2, DispatchKeeps DEF Pace
  <2>3. CASE UNCHANGED <<count, subs, queue, window, lost>>
    BY <2>1, <2>3, TableRests DEF Pace
  <2> QED
    BY <1>2, <2>2, <2>3 DEF NotifyDispatches
<1> QED
  BY <1>1, <1>2 DEF Publisher

(* A request to subscribe, renew or unsubscribe keeps them. *)
LEMMA RequestKeeps == EventsInv /\ Request => EventsInv' /\ Pace
<1> SUFFICES ASSUME EventsInv, Request PROVE EventsInv' /\ Pace
  OBVIOUS
<1> USE DEF stage, sender, catalog
<1>1. ASSUME NEW service, Subscribe(service)
      PROVE  EventsInv' /\ Pace
  BY <1>1, SubscribeKeeps DEF Pace, Quiet
<1>2. ASSUME NEW s, Renew(s)
      PROVE  EventsInv' /\ Pace
  <2>1. /\ subs' = [subs EXCEPT ![s].lapsed = FALSE] /\ s \in DOMAIN subs
        /\ UNCHANGED <<count, issued, process>>
    BY <1>2 DEF Renew
  <2>2. EventsInv'
    BY <2>1, ShrinkKeeps
  <2>3. Quiet
    BY <2>1 DEF Quiet
  <2> QED
    BY <2>2, <2>3 DEF Pace
<1>3. ASSUME NEW s, Unsubscribe(s)
      PROVE  EventsInv' /\ Pace
  <2>1. SetSubs(Restrict(subs, DOMAIN subs \ {s})) /\ issued' = issued /\ process' = process
    BY <1>3 DEF Unsubscribe, Without
  <2> QED
    BY <2>1, RestrictKeeps DEF Pace
<1> QED
  BY <1>1, <1>2, <1>3 DEF Request

(* Timers, senders, stops and starts keep them. *)
LEMMA OthersKeep ==
  ASSUME EventsInv,
         \/ HttpStop \/ HttpMoves \/ Worker \/ Sender \/ StopWorker \/ PoolEnds \/ IntervalEnds
         \/ \E s \in Sid : LeaseEnds(s)
  PROVE  EventsInv' /\ Pace
<1> USE DEF stage, sender, catalog
<1>0. DOMAIN <<>> = {} /\ Cardinality({}) = 0
  BY FS_EmptySet
<1>1. CASE HttpStop
  <2>1. SetSubs(<<>>) /\ issued' = issued /\ process' = process /\ subs' = <<>>
    BY <1>1 DEF HttpStop, SetSubs
  <2>2. Quiet
    BY <1>0, <2>1 DEF Quiet
  <2> QED
    BY <1>0, <2>1, <2>2, ShrinkKeeps DEF Pace
<1>2. CASE HttpMoves \/ WorkerSubmits \/ SenderTakes \/ PoolEnds \/ IntervalEnds
  <2>1. UNCHANGED <<subs, count, issued>> /\ (process' = process \/ process' = "gone")
    BY <1>2 DEF HttpMoves, WorkerSubmits, SenderTakes, PoolEnds, IntervalEnds
  <2> QED
    BY <2>1 DEF EventsInv, SidsAreOld, CountIsExact, Pace, Quiet
<1>3. CASE WorkerFiresTrailing
  <2>1. Dispatch(trailing.id) /\ issued' = issued /\ process' = process /\ window # "running"
    BY <1>3 DEF WorkerFiresTrailing, Due
  <2> QED
    BY <2>1, DispatchKeeps DEF Pace
<1>4. ASSUME NEW job, SendNotifyJob(job)
      PROVE  EventsInv' /\ Pace
  <2>1. issued' = issued /\ process' = process
        /\ (UNCHANGED <<subs, count>> \/ SetSubs(Restrict(subs, DOMAIN subs \ {job.sid})))
    BY <1>4 DEF SendNotifyJob, Without
  <2>2. CASE UNCHANGED <<subs, count>>
    BY <2>1, <2>2, TableRests DEF Pace
  <2>3. CASE SetSubs(Restrict(subs, DOMAIN subs \ {job.sid}))
    BY <2>1, <2>3, RestrictKeeps DEF Pace
  <2> QED
    BY <2>1, <2>2, <2>3
<1>5. CASE StopWorker
  <2>1. subs' = <<>> /\ process' = "leaving" /\ issued' = issued
    BY <1>5 DEF StopWorker
  <2>2. EventsInv'
    BY <1>0, <2>1, EventingAssumption DEF EventsInv, SidsAreOld, CountIsExact,
       EventingAssumption
  <2>3. Quiet
    BY <1>0, <2>1 DEF Quiet
  <2> QED
    BY <2>2, <2>3 DEF Pace
<1>6. ASSUME NEW s, LeaseEnds(s)
      PROVE  EventsInv' /\ Pace
  <2>1. /\ subs' = [subs EXCEPT ![s].lapsed = TRUE] /\ s \in DOMAIN subs
        /\ UNCHANGED <<count, issued, process>>
    BY <1>6 DEF LeaseEnds
  <2>2. EventsInv'
    BY <2>1, ShrinkKeeps
  <2>3. Quiet
    BY <2>1 DEF Quiet
  <2> QED
    BY <2>2, <2>3 DEF Pace
<1> QED
  BY <1>1, <1>2, <1>3, <1>4, <1>5, <1>6 DEF Worker, Sender

(* The invariant holds before the first subscription. *)
LEMMA EventsInvInit == EventsInit => EventsInv
<1>1. DOMAIN <<>> = {} /\ Cardinality({}) = 0
  BY FS_EmptySet
<1> QED
  BY <1>1, EventingAssumption DEF EventsInit, EventsInv, SidsAreOld, CountIsExact,
     EventingAssumption

(* Every step keeps them. *)
LEMMA EventsInvNext == EventsInv /\ [EventsNext]_eventVars => EventsInv' /\ Pace
<1>1. EventsInv /\ UNCHANGED eventVars => EventsInv' /\ Pace
  BY TableRests DEF eventVars, stage, Pace
<1> QED
  BY <1>1, PublisherKeeps, RequestKeeps, OthersKeep DEF EventsNext

(* The invariant holds in every state. *)
THEOREM EventsInvHolds == EventsSpec => []EventsInv
BY EventsInvInit, EventsInvNext, PTL DEF EventsSpec

(* The table keeps to its limit, and the count that the fast path reads     *)
(* without the lock is its size (CountIsExact, a part of TablesAgree).      *)
THEOREM TableKeepsItsLimit == EventsSpec => []CountIsExact
<1>1. EventsInv => CountIsExact
  BY DEF EventsInv
<1> QED
  BY <1>1, EventsInvHolds, PTL

(* At most one dispatch per interval: a step that numbers an event begins a *)
(* new interval, and does so only when none is running (Paced).             *)
THEOREM EventsArePaced == EventsSpec => Paced
<1>1. EventsInv /\ [EventsNext]_eventVars =>
        [(\E s \in DOMAIN subs \intersect DOMAIN subs' : subs'[s].seq # subs[s].seq)
           => window # "running" /\ window' = "running"]_eventVars
  BY EventsInvNext DEF Pace, Quiet
<1> QED
  BY <1>1, EventsInvHolds, PTL DEF EventsSpec, Paced

-----------------------------------------------------------------------------
(* Every set of naturals that is not empty has a least element: there is   *)
(* no endless descent among the finite intervals.                          *)
LEMMA LeastNatural ==
  ASSUME NEW T \in SUBSET Nat, T # {}
  PROVE  \E x \in T : \A y \in T : x <= y
<1> DEFINE F == {0 .. n : n \in T}
<1>1. F \subseteq FiniteSubsetsOf(Nat) /\ F # {}
  <2>1. \A n \in Nat : IsFiniteSet(0 .. n) /\ 0 .. n \subseteq Nat
    BY FS_Interval
  <2> QED
    BY <2>1 DEF FiniteSubsetsOf
<1>2. PICK A \in F : \A B \in F : ~(<<B, A>> \in StrictSubsetOrdering(Nat))
  <2>1. IsWellFoundedOn(StrictSubsetOrdering(Nat), FiniteSubsetsOf(Nat))
    BY FS_StrictSubsetOrderingWellFounded
  <2> HIDE DEF F
  <2> QED
    BY <1>1, <2>1, WFMin
<1>3. PICK x \in T : A = 0 .. x
  OBVIOUS
<1>4. ASSUME NEW y \in T, y < x
      PROVE  FALSE
  <2>1. /\ 0 .. y \in F /\ 0 .. y \subseteq Nat /\ 0 .. x \subseteq Nat
        /\ 0 .. y \subseteq 0 .. x /\ 0 .. y # 0 .. x
    BY <1>4
  <2> HIDE DEF F
  <2> QED
    BY <1>2, <1>3, <2>1 DEF StrictSubsetOrdering
<1> QED
  BY <1>4

Distinct(q) == \A i, j \in DOMAIN q : q[i].sid = q[j].sid => i = j
Coalesced(q) == Len(q) <= MaxQueuedJobs /\ Distinct(q)

(* QueueNotifyJobLocked keeps the queue coalesced and within its limit, and*)
(* puts nothing there but the job.                                         *)
LEMMA EnqueueKeeps ==
  ASSUME NEW S, NEW q \in Seq(S), NEW job \in S, Coalesced(q)
  PROVE  /\ Enqueue(q, job) \in Seq(S) /\ Coalesced(Enqueue(q, job))
         /\ Range(Enqueue(q, job)) \subseteq Range(q) \cup {job}
<1>1. CASE job.sid \in SidsOf(q)
  <2> DEFINE r == [i \in DOMAIN q |-> IF q[i].sid = job.sid THEN job ELSE q[i]]
  <2>1. Enqueue(q, job) = r
    BY <1>1 DEF Enqueue
  <2>2. r \in [1 .. Len(q) -> S]
    OBVIOUS
  <2>3. r \in Seq(S) /\ Len(r) = Len(q)
    BY <2>2
  <2>4. Distinct(r)
    <3> SUFFICES ASSUME NEW i \in DOMAIN q, NEW j \in DOMAIN q, r[i].sid = r[j].sid
                 PROVE  i = j
      BY DEF Distinct
    <3>1. \A k \in DOMAIN q : r[k].sid = q[k].sid
      OBVIOUS
    <3> QED
      BY <3>1 DEF Coalesced, Distinct
  <2>5. Range(r) \subseteq Range(q) \cup {job}
    BY DEF Range
  <2> QED
    BY <2>1, <2>3, <2>4, <2>5 DEF Coalesced
<1>2. CASE job.sid \notin SidsOf(q)
  <2> DEFINE t == IF Len(q) >= MaxQueuedJobs THEN Tail(q) ELSE q
  <2>1. Enqueue(q, job) = Append(t, job)
    BY <1>2 DEF Enqueue
  <2>2. /\ t \in Seq(S) /\ Len(t) < MaxQueuedJobs
        /\ \E d \in {0, 1} : \A i \in 1 .. Len(t) : i + d \in DOMAIN q /\ t[i] = q[i + d]
    <3>1. CASE Len(q) >= MaxQueuedJobs
      <4>1. t = Tail(q) /\ q # <<>>
        BY <3>1, EventingAssumption DEF EventingAssumption
      <4>2. t \in Seq(S) /\ Len(t) = Len(q) - 1 /\ \A i \in 1 .. Len(t) : t[i] = q[i + 1]
        BY <4>1
      <4> HIDE DEF t
      <4> QED
        BY <4>2, EventingAssumption DEF Coalesced, EventingAssumption
    <3>2. CASE ~(Len(q) >= MaxQueuedJobs)
      <4>1. t = q
        BY <3>2
      <4> HIDE DEF t
      <4> QED
        BY <3>2, <4>1, EventingAssumption DEF EventingAssumption
    <3> QED
      BY <3>1, <3>2
  <2> HIDE DEF t
  <2>3. PICK d \in {0, 1} : \A i \in 1 .. Len(t) : i + d \in DOMAIN q /\ t[i] = q[i + d]
    BY <2>2
  <2>4. \A i \in 1 .. Len(t) : t[i].sid # job.sid
    BY <1>2, <2>3 DEF SidsOf, Range
  <2> DEFINE r == Append(t, job)
  <2>5. /\ r \in Seq(S) /\ Len(r) = Len(t) + 1 /\ r[Len(t) + 1] = job
        /\ DOMAIN r = 1 .. Len(t) + 1 /\ \A i \in 1 .. Len(t) : r[i] = t[i]
    BY <2>2
  <2> HIDE DEF r
  <2>6. Distinct(r)
    <3> SUFFICES ASSUME NEW i \in 1 .. Len(t) + 1, NEW j \in 1 .. Len(t) + 1, r[i].sid = r[j].sid
                 PROVE  i = j
      BY <2>5 DEF Distinct
    <3>1. CASE i \in 1 .. Len(t) /\ j \in 1 .. Len(t)
      <4>1. q[i + d].sid = q[j + d].sid /\ i + d \in DOMAIN q /\ j + d \in DOMAIN q
        BY <2>3, <2>5, <3>1
      <4>2. i + d = j + d
        BY <4>1 DEF Coalesced, Distinct
      <4> QED
        BY <4>2
    <3>2. i \notin 1 .. Len(t) => i = Len(t) + 1
      BY <2>2
    <3>3. j \notin 1 .. Len(t) => j = Len(t) + 1
      BY <2>2
    <3> QED
      BY <2>4, <2>5, <3>1, <3>2, <3>3
  <2>7. Range(r) \subseteq Range(q) \cup {job}
    <3> SUFFICES ASSUME NEW i \in 1 .. Len(t) + 1
                 PROVE  r[i] \in Range(q) \cup {job}
      BY <2>5 DEF Range
    <3>1. i \notin 1 .. Len(t) => i = Len(t) + 1
      BY <2>2
    <3> QED
      BY <2>3, <2>5, <3>1 DEF Range
  <2>8. Len(r) <= MaxQueuedJobs
    BY <2>2, <2>5, EventingAssumption DEF EventingAssumption
  <2> QED
    BY <2>1, <2>5, <2>6, <2>7, <2>8 DEF Coalesced, r
<1> QED
  BY <1>1, <1>2

After(f, jobs, n) == f = [i \in 0 .. n |-> IF i = 0 THEN queue ELSE Enqueue(f[i - 1], jobs[i])]

(* The queue after one job, after two, and so on: what Queued(jobs) is the *)
(* last of. There is such a function for no job, and with one for n - 1    *)
(* jobs there is one for n.                                                *)
LEMMA QueuedIsDefined ==
  ASSUME NEW S, NEW jobs \in Seq(S)
  PROVE  \E f : After(f, jobs, Len(jobs)) /\ Queued(jobs) = f[Len(jobs)]
<1> DEFINE Bad == {n \in 0 .. Len(jobs) : ~ \E f : After(f, jobs, n)}
<1>1. Bad = {}
  <2> SUFFICES ASSUME Bad # {} PROVE FALSE
    OBVIOUS
  <2>1. PICK n \in Bad : \A k \in Bad : n <= k
    <3>1. Bad \in SUBSET Nat
      OBVIOUS
    <3> HIDE DEF Bad
    <3> QED
      BY <3>1, LeastNatural
  <2>2. CASE n = 0
    <3>1. After([i \in 0 .. 0 |-> queue], jobs, 0)
      BY DEF After
    <3> QED
      BY <2>2, <3>1
  <2>3. CASE n # 0
    <3>1. n \in Nat /\ n - 1 \in 0 .. Len(jobs) /\ n - 1 \notin Bad
      BY <2>1, <2>3
    <3>2. PICK f : After(f, jobs, n - 1)
      BY <3>1
    <3> DEFINE g == [i \in 0 .. n |-> IF i = n THEN Enqueue(f[n - 1], jobs[n]) ELSE f[i]]
    <3>3. After(g, jobs, n)
      <4>1. \A i \in 0 .. n - 1 : f[i] = IF i = 0 THEN queue ELSE Enqueue(f[i - 1], jobs[i])
        BY <3>2, Zenon DEF After
      <4>2. \A i \in 0 .. n : i # n => i \in 0 .. n - 1
        BY <3>1
      <4>3. \A i \in 0 .. n : i # 0 => i - 1 \in 0 .. n /\ i - 1 # n
        BY <3>1
      <4>4. ASSUME NEW i \in 0 .. n
            PROVE  g[i] = IF i = 0 THEN queue ELSE Enqueue(g[i - 1], jobs[i])
        <5>1. CASE i = 0
          BY <2>3, <4>1, <4>2, <5>1
        <5>2. CASE i # 0
          <6>1. g[i - 1] = f[i - 1]
            BY <4>3, <5>2
          <6>2. g[i] = Enqueue(f[i - 1], jobs[i])
            BY <4>1, <4>2, <5>2
          <6> QED
            BY <5>2, <6>1, <6>2
        <5> QED
          BY <5>1, <5>2
      <4>5. g = [i \in 0 .. n |-> g[i]]
        OBVIOUS
      <4> HIDE DEF g
      <4>6. [i \in 0 .. n |-> g[i]] = [i \in 0 .. n |-> IF i = 0 THEN queue ELSE Enqueue(g[i - 1], jobs[i])]
        BY <4>4, Zenon
      <4> QED
        BY <4>5, <4>6, Zenon DEF After
    <3> QED
      BY <3>3
  <2> QED
    BY <2>2, <2>3
<1> DEFINE G == CHOOSE f : f = [i \in 0 .. Len(jobs) |-> IF i = 0 THEN queue ELSE Enqueue(f[i - 1], jobs[i])]
<1>2. Queued(jobs) = G[Len(jobs)]
  BY Zenon DEF Queued
<1>3. After(G, jobs, Len(jobs))
  <2>0. Len(jobs) \in 0 .. Len(jobs)
    OBVIOUS
  <2>1. PICK f : After(f, jobs, Len(jobs))
    BY <1>1, <2>0
  <2> QED
    BY <2>1, Zenon DEF After
<1> HIDE DEF G
<1> QED
  BY <1>2, <1>3

(* A dispatch queues its jobs one after another, and the queue stays       *)
(* coalesced and within its limit.                                         *)
LEMMA QueuedKeeps ==
  ASSUME NEW S, NEW jobs \in Seq(S), queue \in Seq(S), Coalesced(queue)
  PROVE  /\ Queued(jobs) \in Seq(S) /\ Coalesced(Queued(jobs))
         /\ Range(Queued(jobs)) \subseteq Range(queue) \cup Range(jobs)
<1>1. PICK f : After(f, jobs, Len(jobs)) /\ Queued(jobs) = f[Len(jobs)]
  BY QueuedIsDefined
<1>2. \A i \in 0 .. Len(jobs) : f[i] = IF i = 0 THEN queue ELSE Enqueue(f[i - 1], jobs[i])
  BY <1>1, Zenon DEF After
<1> DEFINE Good(n) == /\ f[n] \in Seq(S) /\ Coalesced(f[n])
                      /\ Range(f[n]) \subseteq Range(queue) \cup Range(jobs)
           Bad == {n \in 0 .. Len(jobs) : ~Good(n)}
<1>3. Bad = {}
  <2> SUFFICES ASSUME Bad # {} PROVE FALSE
    OBVIOUS
  <2>1. PICK n \in Bad : \A k \in Bad : n <= k
    <3>1. Bad \in SUBSET Nat
      OBVIOUS
    <3> HIDE DEF Bad
    <3> QED
      BY <3>1, LeastNatural
  <2>2. CASE n = 0
    BY <1>2, <2>2
  <2>3. CASE n # 0
    <3>1. n \in 1 .. Len(jobs) /\ n - 1 \in 0 .. Len(jobs) /\ n - 1 \notin Bad
      BY <2>1, <2>3
    <3>2. Good(n - 1)
      BY <3>1
    <3>3. f[n] = Enqueue(f[n - 1], jobs[n]) /\ jobs[n] \in S /\ jobs[n] \in Range(jobs)
      BY <1>2, <2>3, <3>1 DEF Range
    <3>4. f[n - 1] \in Seq(S) /\ Coalesced(f[n - 1]) /\ Range(f[n - 1]) \subseteq Range(queue) \cup Range(jobs)
      BY <3>2
    <3>5. /\ f[n] \in Seq(S) /\ Coalesced(f[n])
          /\ Range(f[n]) \subseteq Range(f[n - 1]) \cup {jobs[n]}
      <4> HIDE DEF Good, Bad
      <4> QED
        BY <3>3, <3>4, EnqueueKeeps
    <3> QED
      BY <3>3, <3>4, <3>5
  <2> QED
    BY <2>2, <2>3
<1>4. Good(Len(jobs))
  BY <1>3
<1> QED
  BY <1>1, <1>4
-----------------------------------------------------------------------------
(* The jobs that are somewhere between a dispatch and a subscriber. *)
Jobs == received \cup sending \cup Range(pool) \cup Range(queue)

EventTypes ==
  /\ systemUpdateId \in 0 .. MaxUpdates /\ (batch => systemUpdateId < MaxUpdates)
  /\ batch \in BOOLEAN /\ lastId \in 0 .. MaxUpdates
  /\ publish \in [todo : SUBSET {"store", "load", "dispatch"}, id : 0 .. MaxUpdates]
  /\ issued \in 0 .. MaxSids /\ DOMAIN subs \subseteq 1 .. issued /\ count \in 0 .. MaxSids
  /\ \A s \in DOMAIN subs : subs[s] \in [service : Service, seq : 0 .. MaxUpdates, lapsed : BOOLEAN]
  /\ trailing \in [pending : BOOLEAN, id : 0 .. MaxUpdates]
  /\ window \in {"elapsed", "running", "cleared"} /\ workerStarted \in BOOLEAN /\ lost \subseteq Sid
  /\ http \in {"running", "stopping", "stopped"} /\ process \in {"up", "leaving", "gone"}
  /\ generation \in 0 .. MaxStops + 1 /\ (process = "up" => generation <= MaxStops)

QueuesTyped == queue \in Seq(Job) /\ pool \in Seq(Job) /\ sending \subseteq Job /\ received \subseteq Job

QueueFits == Coalesced(queue) /\ \A j \in Range(queue) : j.gen = generation

Waits == IF trailing.pending THEN 1 ELSE 0
Tells == IF publish.todo \cap {"load", "dispatch"} = {} THEN 0 ELSE 1

IdsGrow ==
  /\ lastId <= publish.id /\ publish.id <= systemUpdateId
  /\ trailing.pending => trailing.id <= publish.id
  /\ Waits + Tells <= publish.id
  /\ \A s \in DOMAIN subs : subs[s].seq + Waits + Tells <= publish.id

Fits(j) ==
  /\ j.sid <= issued /\ j.id <= publish.id /\ (j.first => j.seq = 0)
  /\ j.sid \in DOMAIN subs =>
       /\ ~j.first => j.seq < subs[j.sid].seq
       /\ trailing.pending /\ (~j.first \/ subs[j.sid].seq > 0) => j.id <= trailing.id

JobsFit == \A j \in Jobs : Fits(j)

NumbersInv == EventsInv /\ EventTypes /\ QueuesTyped /\ QueueFits /\ IdsGrow /\ JobsFit /\ SeqTellsNewer

(* Ordered(a, b): what SeqTellsNewer says of two jobs. *)
Ordered(a, b) ==
  a.sid = b.sid => /\ a.seq < b.seq /\ ~b.first => a.id <= b.id
                   /\ a.seq = b.seq /\ a # b => a.seq = 0 /\ a.first # b.first

(* Jobs are jobs. *)
LEMMA JobsAreTyped == QueuesTyped => Jobs \subseteq Job
BY DEF QueuesTyped, Jobs, Range

(* A step that adds no job and numbers no event keeps the order of the     *)
(* numbers.                                                                *)
LEMMA JobsRest ==
  ASSUME NumbersInv, EventTypes', Jobs' \subseteq Jobs, issued <= issued', publish.id <= publish'.id,
         trailing' = trailing \/ ~trailing'.pending,
         \A s \in DOMAIN subs' : s \in DOMAIN subs /\ subs'[s].seq = subs[s].seq
  PROVE  JobsFit' /\ SeqTellsNewer'
<1>1. SeqTellsNewer'
  BY DEF NumbersInv, SeqTellsNewer, Jobs
<1>2. ASSUME NEW j \in Jobs'
      PROVE  Fits(j)'
  <2>1. j \in Job /\ Fits(j)
    BY <1>2, JobsAreTyped DEF NumbersInv, JobsFit
  <2>2. publish.id \in Nat /\ publish'.id \in Nat /\ issued \in Nat /\ issued' \in Nat
    BY DEF NumbersInv, EventTypes
  <2>3. j.sid \in Nat /\ j.id \in Nat
    BY <2>1, EventingAssumption DEF Job, Sid, EventingAssumption
  <2>4. j.sid <= issued' /\ j.id <= publish'.id
    BY <2>1, <2>2, <2>3 DEF Fits
  <2> QED
    BY <2>1, <2>4 DEF Fits
<1> QED
  BY <1>1, <1>2 DEF JobsFit

(* What a dispatch does: the subscribers it reaches are numbered on, and   *)
(* the queue gains their jobs, with the number of before.                  *)
LEMMA DispatchTells ==
  ASSUME NumbersInv, NEW id \in 0 .. MaxUpdates, Dispatch(id)
  PROVE  \E heard \in SUBSET DOMAIN subs' :
           /\ DOMAIN subs' \subseteq DOMAIN subs
           /\ \A s \in DOMAIN subs' :
                subs'[s] = IF s \in heard THEN [subs[s] EXCEPT !.seq = subs[s].seq + 1] ELSE subs[s]
           /\ trailing' = [trailing EXCEPT !.pending = FALSE] /\ window' = "running"
           /\ count' = Cardinality(DOMAIN subs')
           /\ queue' \in Seq(Job) /\ Coalesced(queue') /\ lost' \subseteq Sid
           /\ \A j \in Range(queue') :
                \/ j \in Range(queue)
                \/ \E s \in heard : j = [sid |-> s, seq |-> subs[s].seq, first |-> FALSE, id |-> id, gen |-> generation]
<1> DEFINE alive == {s \in DOMAIN subs : ~subs[s].lapsed}
           heard  == {s \in alive : subs[s].service = "content_directory"}
           JobOf(s) == [sid |-> s, seq |-> subs[s].seq, first |-> FALSE, id |-> id, gen |-> generation]
           table == [s \in alive |-> IF s \in heard THEN [subs[s] EXCEPT !.seq = NextSeq(@)] ELSE subs[s]]
<1>1. /\ SetSubs(table) /\ window' = "running" /\ trailing' = [trailing EXCEPT !.pending = FALSE]
      /\ \E order \in SetToSeqs(heard) : Queue([i \in DOMAIN order |-> JobOf(order[i])])
  BY DEF Dispatch
<1>2. PICK order \in SetToSeqs(heard) : Queue([i \in DOMAIN order |-> JobOf(order[i])])
  BY <1>1
<1>3. subs' = table /\ count' = Cardinality(DOMAIN subs') /\ DOMAIN subs' = alive /\ heard \subseteq alive
  BY <1>1 DEF SetSubs
<1>4. \A s \in heard : JobOf(s) \in Job
  <2>1. \A s \in DOMAIN subs : s \in Sid /\ subs[s].seq \in 0 .. MaxUpdates
    BY EventingAssumption DEF NumbersInv, EventTypes, Sid, EventingAssumption
  <2>2. generation \in 0 .. MaxStops + 1
    BY DEF NumbersInv, EventTypes
  <2> QED
    BY <2>1, <2>2 DEF Job
<1> DEFINE jobs == [i \in DOMAIN order |-> JobOf(order[i])]
<1>5. jobs \in Seq(Job) /\ Range(jobs) \subseteq {JobOf(s) : s \in heard}
  <2>1. Cardinality(heard) \in Nat
    BY TableIsFinite DEF NumbersInv, EventsInv
  <2>2. order \in [1 .. Cardinality(heard) -> heard]
    BY Zenon DEF SetToSeqs
  <2> HIDE DEF heard, JobOf
  <2>3. \A i \in DOMAIN order : order[i] \in heard
    BY <2>2
  <2>4. jobs \in [1 .. Cardinality(heard) -> Job]
    BY <1>4, <2>2, <2>3
  <2>5. jobs \in Seq(Job)
    BY <2>1, <2>4
  <2>6. Range(jobs) \subseteq {JobOf(s) : s \in heard}
    BY <2>3 DEF Range
  <2> QED
    BY <2>5, <2>6
<1>6. queue' = Queued(jobs) /\ lost' = lost \cup ((SidsOf(queue) \cup SidsOf(jobs)) \ SidsOf(queue'))
  BY <1>2 DEF Queue
<1> HIDE DEF jobs
<1>7. queue' \in Seq(Job) /\ Coalesced(queue') /\ Range(queue') \subseteq Range(queue) \cup Range(jobs)
  BY <1>5, <1>6, QueuedKeeps DEF NumbersInv, QueuesTyped, QueueFits
<1>8. lost' \subseteq Sid
  <2>1. Range(queue) \subseteq Job /\ Range(jobs) \subseteq Job
    BY <1>5 DEF NumbersInv, QueuesTyped, Range
  <2>2. SidsOf(queue) \subseteq Sid /\ SidsOf(jobs) \subseteq Sid
    BY <2>1 DEF SidsOf, Job
  <2> QED
    BY <1>6, <2>2 DEF NumbersInv, EventTypes
<1>9. heard \in SUBSET DOMAIN subs' /\ DOMAIN subs' \subseteq DOMAIN subs
  BY <1>3
<1>10. \A s \in DOMAIN subs' :
         subs'[s] = IF s \in heard THEN [subs[s] EXCEPT !.seq = subs[s].seq + 1] ELSE subs[s]
  BY <1>3 DEF NextSeq
<1>11. \A j \in Range(queue') : j \in Range(queue) \/ \E s \in heard : j = JobOf(s)
  BY <1>5, <1>7
<1> HIDE DEF heard, alive, table
<1> QED
  BY <1>1, <1>3, <1>7, <1>8, <1>9, <1>10, <1>11

(* The first job of a queue and the rest of it; a queue with one more. *)
LEMMA SequenceFacts ==
  ASSUME NEW S, NEW q \in Seq(S)
  PROVE  /\ q # <<>> => /\ Tail(q) \in Seq(S) /\ Head(q) \in Range(q) /\ Head(q) \in S
                        /\ Range(Tail(q)) \subseteq Range(q)
                        /\ Coalesced(q) => Coalesced(Tail(q))
         /\ \A x \in S : Append(q, x) \in Seq(S) /\ Range(Append(q, x)) \subseteq Range(q) \cup {x}
<1>1. ASSUME q # <<>>
      PROVE  /\ Tail(q) \in Seq(S) /\ Head(q) \in Range(q) /\ Head(q) \in S
             /\ Range(Tail(q)) \subseteq Range(q)
             /\ Coalesced(q) => Coalesced(Tail(q))
  <2>1. /\ Tail(q) \in Seq(S) /\ Len(Tail(q)) = Len(q) - 1 /\ Head(q) = q[1] /\ 1 \in DOMAIN q
        /\ DOMAIN Tail(q) = 1 .. Len(q) - 1 /\ DOMAIN q = 1 .. Len(q)
        /\ \A i \in 1 .. Len(q) - 1 : Tail(q)[i] = q[i + 1] /\ i + 1 \in DOMAIN q
    BY <1>1
  <2>2. Range(Tail(q)) \subseteq Range(q) /\ Head(q) \in Range(q) /\ Head(q) \in S
    BY <2>1 DEF Range
  <2>3. ASSUME Coalesced(q) PROVE Coalesced(Tail(q))
    <3>1. Len(Tail(q)) <= MaxQueuedJobs
      BY <2>1, <2>3, EventingAssumption DEF Coalesced, EventingAssumption
    <3>2. ASSUME NEW i \in 1 .. Len(q) - 1, NEW j \in 1 .. Len(q) - 1, Tail(q)[i].sid = Tail(q)[j].sid
          PROVE  i = j
      <4>1. i + 1 = j + 1
        BY <2>1, <2>3, <3>2 DEF Coalesced, Distinct
      <4> QED
        BY <4>1
    <3> QED
      BY <2>1, <3>1, <3>2 DEF Coalesced, Distinct
  <2> QED
    BY <2>1, <2>2, <2>3
<1>2. ASSUME NEW x \in S
      PROVE  Append(q, x) \in Seq(S) /\ Range(Append(q, x)) \subseteq Range(q) \cup {x}
  <2>1. /\ Append(q, x) \in Seq(S) /\ DOMAIN Append(q, x) = 1 .. Len(q) + 1
        /\ \A i \in 1 .. Len(q) + 1 : Append(q, x)[i] = IF i = Len(q) + 1 THEN x ELSE q[i]
    OBVIOUS
  <2>2. \A i \in 1 .. Len(q) + 1 : i # Len(q) + 1 => i \in DOMAIN q
    OBVIOUS
  <2> QED
    BY <2>1, <2>2 DEF Range
<1> QED
  BY <1>1, <1>2

(* The size of a table of SIDs made so far. *)
LEMMA SizeIsTyped ==
  ASSUME NEW n \in 0 .. MaxSids, NEW S \in SUBSET (1 .. n)
  PROVE  Cardinality(S) \in 0 .. MaxSids
<1>1. IsFiniteSet(1 .. n) /\ Cardinality(1 .. n) = n
  BY FS_Interval
<1>2. IsFiniteSet(S) /\ Cardinality(S) <= n
  BY <1>1, FS_Subset
<1> QED
  BY <1>2, FS_CardinalityType, EventingAssumption DEF EventingAssumption

(* Publishing an update, up to the section under the lock. *)
LEMMA PublisherNumbers ==
  ASSUME NumbersInv, EventsInv', process = "up",
         BeginBatch \/ PublishItem \/ EndBatch \/ NotifyStores \/ NotifyLoads
  PROVE  NumbersInv'
<1> USE DEF stage, sender, catalog
<1>1. /\ UNCHANGED <<count, subs, issued, queue, trailing, window, workerStarted, pool, sending,
                     received, http, process, generation, lost>>
  BY DEF BeginBatch, PublishItem, EndBatch, NotifyStores, NotifyLoads
<1>2. /\ publish'.id \in 0 .. MaxUpdates /\ publish'.todo \in SUBSET {"store", "load", "dispatch"}
      /\ publish' \in [todo : SUBSET {"store", "load", "dispatch"}, id : 0 .. MaxUpdates]
      /\ lastId' \in 0 .. MaxUpdates /\ systemUpdateId' \in 0 .. MaxUpdates /\ batch' \in BOOLEAN
      /\ systemUpdateId <= systemUpdateId' /\ lastId' <= publish'.id /\ (batch' => systemUpdateId' < MaxUpdates)
      /\ \/ publish'.id = publish.id /\ (Tells' = Tells \/ Tells' = 0)
         \/ publish'.id = systemUpdateId + 1 /\ Tells = 0 /\ systemUpdateId' = systemUpdateId + 1
  <2> USE EventingAssumption DEF EventingAssumption, NumbersInv, EventTypes, IdsGrow, Tells, Idle, Tell
  <2>1. CASE BeginBatch
    BY <2>1 DEF BeginBatch
  <2>2. CASE PublishItem
    BY <2>2 DEF PublishItem
  <2>3. CASE EndBatch
    <3>1. systemUpdateId + 1 \in 0 .. MaxUpdates
      BY <2>3 DEF EndBatch
    <3>2. /\ publish' = [todo |-> {"store", "load"}, id |-> systemUpdateId + 1] /\ ~batch' /\ batch' \in BOOLEAN
          /\ lastId' = lastId /\ publish.todo = {} /\ systemUpdateId' = systemUpdateId + 1
      BY <2>3 DEF EndBatch
    <3> QED
      BY <3>1, <3>2
  <2>4. CASE NotifyStores
    BY <2>4 DEF NotifyStores
  <2>5. CASE NotifyLoads
    BY <2>5 DEF NotifyLoads
  <2> QED
    BY <2>1, <2>2, <2>3, <2>4, <2>5
<1>3. EventTypes' /\ QueuesTyped' /\ QueueFits'
  BY <1>1, <1>2 DEF NumbersInv, EventTypes, QueuesTyped, QueueFits, Coalesced, Distinct
<1>4. IdsGrow'
  <2> USE EventingAssumption DEF EventingAssumption
  <2>1. publish.id \in Nat /\ systemUpdateId \in Nat /\ publish'.id \in Nat /\ publish.id <= publish'.id
        /\ publish'.id <= systemUpdateId'
    BY <1>2 DEF NumbersInv, EventTypes, IdsGrow
  <2>2. ASSUME NEW s \in DOMAIN subs
        PROVE  subs[s].seq + Waits + Tells' <= publish'.id
    BY <1>2, <2>1 DEF NumbersInv, EventTypes, IdsGrow, Waits, Tells
  <2>3. (trailing.pending => trailing.id <= publish'.id) /\ Waits + Tells' <= publish'.id
    BY <1>2, <2>1 DEF NumbersInv, EventTypes, IdsGrow, Waits, Tells
  <2> QED
    BY <1>1, <1>2, <2>1, <2>2, <2>3 DEF IdsGrow, Waits
<1>5. JobsFit' /\ SeqTellsNewer'
  <2>1. publish.id <= publish'.id /\ issued <= issued'
    BY <1>1, <1>2, EventingAssumption DEF NumbersInv, EventTypes, IdsGrow, EventingAssumption
  <2>2. Jobs' \subseteq Jobs
    BY <1>1 DEF Jobs
  <2> QED
    BY <1>1, <1>3, <2>1, <2>2, JobsRest
<1> QED
  BY <1>3, <1>4, <1>5 DEF NumbersInv

(* Steps that only take jobs and subscriptions away. *)
LEMMA QuietNumbers ==
  ASSUME NumbersInv, EventsInv',
         \/ HttpStop \/ HttpMoves \/ WorkerSubmits \/ Sender \/ StopWorker \/ PoolEnds \/ IntervalEnds
         \/ \E s \in Sid : LeaseEnds(s) \/ Renew(s) \/ Unsubscribe(s)
  PROVE  NumbersInv'
<1> USE DEF stage, sender, catalog
<1>1. /\ UNCHANGED <<systemUpdateId, batch, publish, lastId, issued, workerStarted>>
      /\ trailing' = trailing \/ trailing' = NoTrailing
  BY DEF HttpStop, HttpMoves, WorkerSubmits, Sender, SenderTakes, SendNotifyJob, StopWorker,
     PoolEnds,
         IntervalEnds, LeaseEnds, Renew, Unsubscribe
<1>2. /\ http' \in {"running", "stopping", "stopped"} /\ window' \in {"elapsed", "running", "cleared"}
      /\ process' \in {"up", "leaving", "gone"}
      /\ generation' \in 0 .. MaxStops + 1 /\ (process' = "up" => generation' <= MaxStops)
  <2> USE EventingAssumption DEF EventingAssumption, NumbersInv, EventTypes
  <2>1. CASE HttpStop
    BY <2>1 DEF HttpStop
  <2>2. CASE HttpMoves \/ PoolEnds \/ IntervalEnds \/ WorkerSubmits \/ Sender
    BY <2>2 DEF HttpMoves, PoolEnds, IntervalEnds, WorkerSubmits, Sender, SenderTakes,
       SendNotifyJob
  <2>3. CASE StopWorker
    BY <2>3 DEF StopWorker
  <2>4. ASSUME NEW s \in Sid, LeaseEnds(s) \/ Renew(s) \/ Unsubscribe(s)
        PROVE  UNCHANGED <<http, window, process, generation>>
    BY <2>4 DEF LeaseEnds, Renew, Unsubscribe
  <2> QED
    BY <2>1, <2>2, <2>3, <2>4
<1>3. /\ QueuesTyped' /\ QueueFits' /\ Jobs' \subseteq Jobs
  <2>0. queue \in Seq(Job) /\ pool \in Seq(Job) /\ Coalesced(queue) /\ (\A j \in Range(queue) : j.gen = generation)
    BY DEF NumbersInv, QueuesTyped, QueueFits
  <2>1. CASE queue' = <<>> /\ UNCHANGED sender
    <3>1. Range(<<>>) = {} /\ Len(<<>>) = 0 /\ <<>> \in Seq(Job) /\ DOMAIN <<>> = {}
      BY DEF Range
    <3> QED
      BY <2>1, <3>1, EventingAssumption
      DEF NumbersInv, QueuesTyped, QueueFits, Jobs, Coalesced, Distinct, EventingAssumption
  <2>2. CASE UNCHANGED <<queue, generation, sender>>
    BY <2>2 DEF NumbersInv, QueuesTyped, QueueFits, Jobs, Coalesced, Distinct
  <2>3. CASE WorkerSubmits
    <3>1. /\ queue # <<>> /\ queue' = Tail(queue) /\ pool' \in {pool, Append(pool, Head(queue))}
          /\ UNCHANGED <<sending, received, generation>>
      BY <2>3 DEF WorkerSubmits
    <3>2. /\ queue' \in Seq(Job) /\ Range(queue') \subseteq Range(queue) /\ Coalesced(queue')
          /\ Head(queue) \in Range(queue) /\ Head(queue) \in Job
      BY <2>0, <3>1, SequenceFacts
    <3>3. pool' \in Seq(Job) /\ Range(pool') \subseteq Range(pool) \cup {Head(queue)}
      <4>1. /\ Append(pool, Head(queue)) \in Seq(Job)
            /\ Range(Append(pool, Head(queue))) \subseteq Range(pool) \cup {Head(queue)}
        BY <2>0, <3>2, SequenceFacts
      <4> QED
        BY <2>0, <3>1, <4>1
    <3> QED
      BY <2>0, <3>1, <3>2, <3>3 DEF NumbersInv, QueuesTyped, QueueFits, Jobs, Coalesced,
         Distinct
  <2>4. CASE SenderTakes
    <3>1. /\ pool # <<>> /\ pool' = Tail(pool) /\ sending' = sending \cup {Head(pool)}
          /\ UNCHANGED <<queue, received, generation>>
      BY <2>4 DEF SenderTakes
    <3>2. /\ pool' \in Seq(Job) /\ Range(pool') \subseteq Range(pool)
          /\ Head(pool) \in Range(pool) /\ Head(pool) \in Job
      BY <2>0, <3>1, SequenceFacts
    <3> QED
      BY <3>1, <3>2 DEF NumbersInv, QueuesTyped, QueueFits, Jobs, Coalesced, Distinct
  <2>5. ASSUME NEW job, SendNotifyJob(job)
        PROVE  QueuesTyped' /\ QueueFits' /\ Jobs' \subseteq Jobs
    <3>1. /\ job \in sending /\ sending' = sending \ {job} /\ UNCHANGED <<queue, pool, generation>>
          /\ received' \subseteq received \cup {job}
      BY <2>5 DEF SendNotifyJob
    <3> QED
      BY <3>1 DEF NumbersInv, QueuesTyped, QueueFits, Jobs, Coalesced, Distinct
  <2> QED
    BY <2>1, <2>2, <2>3, <2>4, <2>5 DEF HttpStop, HttpMoves, Sender, StopWorker, PoolEnds,
         IntervalEnds, LeaseEnds, Renew, Unsubscribe
<1>4. \A s \in DOMAIN subs' : /\ s \in DOMAIN subs /\ subs'[s].seq = subs[s].seq
                              /\ subs'[s] \in [service : Service, seq : 0 .. MaxUpdates, lapsed : BOOLEAN]
  <2>0. \A s \in DOMAIN subs : subs[s] \in [service : Service, seq : 0 .. MaxUpdates, lapsed : BOOLEAN]
    BY DEF NumbersInv, EventTypes
  <2>1. ASSUME NEW s \in Sid, LeaseEnds(s) \/ Renew(s)
        PROVE  <1>4!:
    <3>1. /\ s \in DOMAIN subs
          /\ subs' = [subs EXCEPT ![s].lapsed = TRUE] \/ subs' = [subs EXCEPT ![s].lapsed = FALSE]
      BY <2>1 DEF LeaseEnds, Renew
    <3>2. PICK b \in BOOLEAN : subs' = [subs EXCEPT ![s].lapsed = b]
      BY <3>1
    <3>3. \A x \in DOMAIN subs' : x \in DOMAIN subs /\ subs'[x] = IF x = s THEN [subs[x] EXCEPT !.lapsed = b] ELSE subs[x]
      BY <3>1, <3>2
    <3> QED
      BY <2>0, <3>3
  <2>2. ASSUME NEW S, subs' = Restrict(subs, S), S \subseteq DOMAIN subs
        PROVE  <1>4!:
    BY <2>0, <2>2 DEF Restrict
  <2>3. CASE subs' = <<>>
    BY <2>3
  <2>4. CASE subs' = subs
    BY <2>0, <2>4
  <2>5. ASSUME NEW s, SetSubs(Without(subs, s))
        PROVE  <1>4!:
    BY <2>2, <2>5 DEF SetSubs, Without
  <2>6. ASSUME NEW job, SendNotifyJob(job)
        PROVE  <1>4!:
    BY <2>4, <2>5, <2>6 DEF SendNotifyJob
  <2>7. ASSUME NEW s \in Sid, Unsubscribe(s)
        PROVE  <1>4!:
    BY <2>5, <2>7 DEF Unsubscribe
  <2> QED
    BY <2>1, <2>3, <2>4, <2>6, <2>7 DEF HttpStop, SetSubs, HttpMoves, WorkerSubmits, Sender,
       SenderTakes, StopWorker,
         PoolEnds, IntervalEnds
<1>5. lost' \subseteq Sid
  <2>1. ASSUME NEW job, SendNotifyJob(job)
        PROVE  lost' \subseteq Sid
    BY <2>1 DEF SendNotifyJob, NumbersInv, EventTypes, QueuesTyped, Job
  <2> QED
    BY <2>1 DEF HttpStop, SetSubs, HttpMoves, WorkerSubmits, Sender, SenderTakes, StopWorker,
         PoolEnds, IntervalEnds, LeaseEnds, Renew, Unsubscribe, NumbersInv, EventTypes
<1>6. count' \in 0 .. MaxSids
  <2>1. count' = count \/ count' = Cardinality(DOMAIN subs')
    BY DEF HttpStop, HttpMoves, WorkerSubmits, Sender, SenderTakes, SendNotifyJob, StopWorker,
       PoolEnds,
         IntervalEnds, LeaseEnds, Renew, Unsubscribe, SetSubs
  <2>2. DOMAIN subs' \subseteq 1 .. issued /\ issued \in 0 .. MaxSids
    BY <1>4 DEF NumbersInv, EventTypes
  <2> QED
    BY <2>1, <2>2, SizeIsTyped DEF NumbersInv, EventTypes
<1>7. EventTypes'
  <2>1. trailing' \in [pending : BOOLEAN, id : 0 .. MaxUpdates]
    <3>1. FALSE \in BOOLEAN /\ 0 \in 0 .. MaxUpdates
      BY EventingAssumption DEF EventingAssumption
    <3>2. NoTrailing \in [pending : BOOLEAN, id : 0 .. MaxUpdates]
      BY <3>1 DEF NoTrailing
    <3> QED
      BY <1>1, <3>2 DEF NumbersInv, EventTypes
  <2> QED
    BY <1>1, <1>2, <1>4, <1>5, <1>6, <2>1 DEF NumbersInv, EventTypes
<1>8. IdsGrow'
  <2>1. Tells' = Tells /\ (trailing'.pending => trailing' = trailing) /\ Waits' <= Waits /\ Waits \in Nat
        /\ Waits' \in Nat /\ Tells \in Nat
    BY <1>1 DEF Tells, Waits, NoTrailing
  <2>2. ASSUME NEW s \in DOMAIN subs'
        PROVE  subs'[s].seq + Waits' + Tells' <= publish'.id
    <3>1. s \in DOMAIN subs /\ subs'[s].seq = subs[s].seq /\ subs[s].seq \in Nat /\ publish'.id = publish.id
          /\ publish.id \in Nat
      BY <1>1, <1>4, EventingAssumption DEF NumbersInv, EventTypes, EventingAssumption
    <3>2. subs[s].seq + Waits + Tells <= publish.id
      BY <3>1 DEF NumbersInv, IdsGrow
    <3> QED
      BY <2>1, <3>1, <3>2
  <2>3. Waits' + Tells' <= publish'.id
    <3>1. publish.id \in Nat /\ publish' = publish /\ Waits + Tells <= publish.id
      BY <1>1, EventingAssumption DEF NumbersInv, EventTypes, IdsGrow, EventingAssumption
    <3> QED
      BY <2>1, <3>1
  <2> QED
    BY <1>1, <2>1, <2>2, <2>3 DEF NumbersInv, IdsGrow
<1>9. JobsFit' /\ SeqTellsNewer'
  <2>1. publish.id <= publish'.id /\ issued <= issued'
    BY <1>1, EventingAssumption DEF NumbersInv, EventTypes, EventingAssumption
  <2>2. trailing' = trailing \/ ~trailing'.pending
    BY <1>1 DEF NoTrailing
  <2> QED
    BY <1>3, <1>4, <1>7, <2>1, <2>2, JobsRest
<1> QED
  BY <1>3, <1>7, <1>8, <1>9 DEF NumbersInv

(* A dispatch of the published id, or of the one that waits for the end of *)
(* the interval: no job that could be told apart from it is of a later id. *)
LEMMA DispatchNumbers ==
  ASSUME NumbersInv, EventsInv', NEW id \in 0 .. MaxUpdates, Dispatch(id),
         publish'.id = publish.id, publish' \in [todo : SUBSET {"store", "load", "dispatch"}, id : 0 .. MaxUpdates],
         (id = publish.id /\ Tells = 1 /\ Tells' = 0) \/ (trailing.pending /\ id = trailing.id /\ Tells' = Tells),
         workerStarted' \in BOOLEAN,
         UNCHANGED <<systemUpdateId, batch, lastId, issued, sender, stage>>
  PROVE  NumbersInv'
<1> USE EventingAssumption DEF EventingAssumption
<1>1. PICK heard \in SUBSET DOMAIN subs' :
           /\ DOMAIN subs' \subseteq DOMAIN subs
           /\ \A s \in DOMAIN subs' :
                subs'[s] = IF s \in heard THEN [subs[s] EXCEPT !.seq = subs[s].seq + 1] ELSE subs[s]
           /\ trailing' = [trailing EXCEPT !.pending = FALSE] /\ window' = "running"
           /\ count' = Cardinality(DOMAIN subs')
           /\ queue' \in Seq(Job) /\ Coalesced(queue') /\ lost' \subseteq Sid
           /\ \A j \in Range(queue') :
                \/ j \in Range(queue)
                \/ \E s \in heard : j = [sid |-> s, seq |-> subs[s].seq, first |-> FALSE, id |-> id, gen |-> generation]
  BY DispatchTells
<1>2. /\ publish.id \in 0 .. MaxUpdates /\ id <= publish.id /\ Waits \in {0, 1} /\ Waits' = 0
      /\ Tells \in {0, 1} /\ Tells' \in {0, 1} /\ Tells' + 1 <= Waits + Tells
      /\ trailing'.id = trailing.id /\ ~trailing'.pending
  <2>1. publish.id \in 0 .. MaxUpdates /\ id <= publish.id
    BY DEF NumbersInv, EventTypes, IdsGrow
  <2>2. Waits \in {0, 1} /\ Tells \in {0, 1} /\ Tells' \in {0, 1} /\ (trailing.pending => Waits = 1)
    BY DEF Waits, Tells
  <2>3. trailing'.id = trailing.id /\ ~trailing'.pending
    BY <1>1 DEF NumbersInv, EventTypes
  <2>4. Waits' = 0
    BY <2>3 DEF Waits
  <2>5. Tells' + 1 <= Waits + Tells
    <3>1. CASE id = publish.id /\ Tells = 1 /\ Tells' = 0
      <4>1. Waits = 0 \/ Waits = 1
        BY <2>2
      <4> QED
        BY <3>1, <4>1
    <3>2. CASE trailing.pending /\ id = trailing.id /\ Tells' = Tells
      <4>1. Waits = 1 /\ (Tells = 0 \/ Tells = 1)
        BY <2>2, <3>2
      <4> QED
        BY <3>2, <4>1
    <3> QED
      BY <3>1, <3>2
  <2> QED
    BY <2>1, <2>2, <2>3, <2>4, <2>5
<1>3. \A s \in DOMAIN subs : /\ subs[s] \in [service : Service, seq : 0 .. MaxUpdates, lapsed : BOOLEAN]
                             /\ subs[s].seq + Waits + Tells <= publish.id /\ subs[s].seq \in 0 .. MaxUpdates
  BY DEF NumbersInv, EventTypes, IdsGrow
<1>4. ASSUME NEW s \in DOMAIN subs'
      PROVE  /\ subs'[s] \in [service : Service, seq : 0 .. MaxUpdates, lapsed : BOOLEAN]
             /\ subs'[s].seq = subs[s].seq + (IF s \in heard THEN 1 ELSE 0)
             /\ subs'[s].seq + Waits' + Tells' <= publish'.id
  <2>1. s \in DOMAIN subs
    BY <1>1
  <2>2. subs[s].seq + 1 \in 0 .. MaxUpdates /\ subs[s].seq + 1 + Tells' <= publish.id
    <3>1. subs[s].seq \in Nat /\ subs[s].seq + Waits + Tells <= publish.id
      BY <1>3, <2>1
    <3>2. Waits \in Nat /\ Tells \in Nat /\ Tells' \in Nat /\ Tells' + 1 <= Waits + Tells
          /\ publish.id \in Nat /\ publish.id <= MaxUpdates
      <4>1. Waits \in Nat /\ Tells \in Nat /\ Tells' \in Nat
        BY <1>2
      <4>2. Tells' + 1 <= Waits + Tells
        BY <1>2
      <4>3. publish.id \in Nat /\ publish.id <= MaxUpdates
        BY <1>2
      <4> QED
        BY <4>1, <4>2, <4>3
    <3>3. \A q, w, t, u, p \in Nat : q + w + t <= p /\ u + 1 <= w + t => q + 1 + u <= p
      OBVIOUS
    <3>4. subs[s].seq + 1 + Tells' <= publish.id
      BY <3>1, <3>2, <3>3
    <3> QED
      BY <3>1, <3>2, <3>4
  <2>3. CASE s \in heard
    <3>1. subs'[s] = [subs[s] EXCEPT !.seq = subs[s].seq + 1]
      BY <1>1, <2>3
    <3>2. subs'[s] \in [service : Service, seq : 0 .. MaxUpdates, lapsed : BOOLEAN]
      BY <1>3, <2>1, <2>2, <3>1
    <3>3. subs'[s].seq = subs[s].seq + 1
      BY <1>3, <2>1, <3>1
    <3> QED
      BY <1>2, <1>3, <2>1, <2>2, <2>3, <3>2, <3>3
  <2>4. CASE s \notin heard
    <3>1. subs'[s] = subs[s]
      BY <1>1, <2>4
    <3> QED
      BY <1>2, <1>3, <2>1, <2>2, <2>4, <3>1
  <2> QED
    BY <2>3, <2>4
<1>5. EventTypes'
  <2>1. trailing' \in [pending : BOOLEAN, id : 0 .. MaxUpdates]
    BY <1>1 DEF NumbersInv, EventTypes
  <2>2. count' \in 0 .. MaxSids
    BY <1>1, SizeIsTyped DEF NumbersInv, EventTypes
  <2> QED
    BY <1>1, <1>4, <2>1, <2>2 DEF NumbersInv, EventTypes, stage
<1>6. QueuesTyped' /\ QueueFits'
  BY <1>1 DEF NumbersInv, QueuesTyped, QueueFits, sender, stage
<1>7. IdsGrow'
  BY <1>2, <1>4 DEF NumbersInv, IdsGrow
<1> DEFINE New(s) == [sid |-> s, seq |-> subs[s].seq, first |-> FALSE, id |-> id, gen |-> generation]
<1>8. \A j \in Jobs' : j \in Jobs \/ \E s \in heard : j = New(s)
  BY <1>1 DEF Jobs, sender
<1>9. \A s \in heard : /\ New(s).sid = s /\ New(s).seq = subs[s].seq /\ ~New(s).first /\ New(s).id = id
                      /\ s \in DOMAIN subs /\ s \in DOMAIN subs' /\ s \in 1 .. issued
  BY <1>1 DEF NumbersInv, EventTypes
<1>10. \A j \in Jobs : j \in Job /\ Fits(j) /\ j.sid \in Nat /\ j.seq \in Nat /\ j.id \in Nat
  BY JobsAreTyped DEF NumbersInv, JobsFit, Job, Sid
<1> HIDE DEF New
<1>11. ASSUME NEW j \in Jobs'
       PROVE  Fits(j)'
  <2>1. CASE j \in Jobs
    <3>1. j.sid \in DOMAIN subs' => j.sid \in DOMAIN subs /\ subs'[j.sid].seq >= subs[j.sid].seq
                                    /\ subs[j.sid].seq \in Nat /\ subs'[j.sid].seq \in Nat
      BY <1>1, <1>3, <1>4
    <3> QED
      BY <1>2, <1>10, <2>1, <3>1 DEF Fits
  <2>2. ASSUME NEW s \in heard, j = New(s)
        PROVE  Fits(j)'
    <3>1. subs'[s].seq = subs[s].seq + 1 /\ subs[s].seq \in Nat
      BY <1>3, <1>4, <1>9
    <3>2. s <= issued'
      BY <1>9 DEF NumbersInv, EventTypes
    <3>3. id <= publish'.id
      BY <1>2
    <3> QED
      BY <1>2, <1>9, <2>2, <3>1, <3>2, <3>3 DEF Fits
  <2> QED
    BY <1>8, <2>1, <2>2
<1>12. SeqTellsNewer'
  <2>1. ASSUME NEW a \in Jobs, NEW s \in heard, a.sid = s
        PROVE  Ordered(a, New(s)) /\ Ordered(New(s), a)
    <3>1. Fits(a) /\ s \in DOMAIN subs /\ subs[s].seq \in Nat /\ a.seq \in Nat /\ a.id \in Nat
      BY <1>3, <1>9, <1>10
    <3>2. ~a.first => a.seq < New(s).seq
      BY <1>9, <2>1, <3>1 DEF Fits
    <3>3. a.seq < New(s).seq => a.id <= id
      BY <1>2, <1>9, <2>1, <3>1 DEF Fits
    <3>4. a.first => a.seq = 0
      BY <3>1 DEF Fits
    <3> QED
      BY <1>9, <3>1, <3>2, <3>3, <3>4 DEF Ordered
  <2>2. ASSUME NEW a \in Jobs', NEW b \in Jobs', a.sid = b.sid
        PROVE  Ordered(a, b)
    <3>1. CASE a \in Jobs /\ b \in Jobs
      BY <3>1 DEF NumbersInv, SeqTellsNewer, Jobs, Ordered
    <3>2. ASSUME NEW s \in heard, NEW t \in heard, a = New(s), b = New(t)
          PROVE  Ordered(a, b)
      BY <1>3, <1>9, <2>2, <3>2 DEF Ordered
    <3> QED
      BY <1>8, <1>9, <2>1, <2>2, <3>1, <3>2
  <2> QED
    BY <2>2 DEF SeqTellsNewer, Jobs, Ordered
<1> QED
  BY <1>5, <1>6, <1>7, <1>11, <1>12 DEF NumbersInv, JobsFit

(* The update that comes within an interval waits for its end. *)
LEMMA MergeNumbers ==
  ASSUME NumbersInv, EventsInv', trailing' = Merge(publish.id), publish' = [publish EXCEPT !.todo = {}],
         Tells = 1, workerStarted' \in BOOLEAN,
         UNCHANGED <<systemUpdateId, batch, lastId, issued, sender, stage, count, subs, queue, window, lost>>
  PROVE  NumbersInv'
<1> USE EventingAssumption DEF EventingAssumption
<1>1. /\ publish.id \in 0 .. MaxUpdates /\ publish'.id = publish.id /\ trailing'.id = publish.id
      /\ trailing'.pending /\ Tells' = 0 /\ Waits' = 1 /\ Waits \in {0, 1} /\ publish'.todo = {}
  BY DEF NumbersInv, EventTypes, Merge, Tells, Waits
<1>2. EventTypes'
  <2>1. trailing' \in [pending : BOOLEAN, id : 0 .. MaxUpdates]
    BY <1>1 DEF Merge
  <2>2. publish' \in [todo : SUBSET {"store", "load", "dispatch"}, id : 0 .. MaxUpdates]
    BY DEF NumbersInv, EventTypes
  <2> QED
    BY <2>1, <2>2 DEF NumbersInv, EventTypes, stage
<1>3. QueuesTyped' /\ QueueFits'
  BY DEF NumbersInv, QueuesTyped, QueueFits, sender, stage, Coalesced, Distinct
<1>4. IdsGrow'
  <2>1. \A s \in DOMAIN subs : subs[s].seq + Waits' + Tells' <= publish'.id
    BY <1>1 DEF NumbersInv, EventTypes, IdsGrow
  <2> QED
    BY <1>1, <2>1 DEF NumbersInv, IdsGrow
<1>5. JobsFit'
  <2>1. Jobs' = Jobs
    BY DEF Jobs, sender
  <2>2. ASSUME NEW j \in Jobs
        PROVE  Fits(j)'
    <3>1. Fits(j)
      BY DEF NumbersInv, JobsFit
    <3> QED
      BY <1>1, <3>1 DEF Fits
  <2> QED
    BY <2>1, <2>2 DEF JobsFit
<1>6. SeqTellsNewer'
  BY DEF NumbersInv, SeqTellsNewer, sender
<1> QED
  BY <1>2, <1>3, <1>4, <1>5, <1>6 DEF NumbersInv

(* A subscription has a SID that no job has yet. *)
LEMMA SubscribeNumbers ==
  ASSUME NumbersInv, EventsInv', NEW service \in Service, Subscribe(service)
  PROVE  NumbersInv'
<1> USE EventingAssumption DEF EventingAssumption
<1> DEFINE s     == issued + 1
           fresh == [service |-> service, seq |-> 0, lapsed |-> FALSE]
           first == [sid |-> s, seq |-> 0, first |-> TRUE, id |-> lastId, gen |-> generation]
           jobs  == IF service = "content_directory" THEN <<first>> ELSE <<>>
<1>1. /\ UNCHANGED <<catalog, publish, lastId, trailing, window, sender, stage>>
      /\ issued' = s /\ workerStarted' = (workerStarted \/ queue' # <<>>) /\ Queue(jobs)
      /\ issued < MaxSids
  BY DEF Subscribe
<1>2. s \in 1 .. MaxSids /\ issued \in 0 .. MaxSids /\ issued < s
  BY <1>1 DEF NumbersInv, EventTypes
<1>3. first \in Job /\ jobs \in Seq(Job) /\ Range(jobs) \subseteq {first}
  <2>1. first \in Job
    BY <1>2 DEF NumbersInv, EventTypes, Job, Sid
  <2> HIDE DEF first
  <2> QED
    BY <2>1 DEF Range
<1>4. fresh \in [service : Service, seq : 0 .. MaxUpdates, lapsed : BOOLEAN] /\ fresh.seq = 0
  OBVIOUS
<1>5. /\ \A x \in DOMAIN subs' : (x = s /\ subs'[x] = fresh) \/ (x # s /\ x \in DOMAIN subs /\ subs'[x] = subs[x])
      /\ count' = Cardinality(DOMAIN subs')
  <2> HIDE DEF fresh
  <2>1. CASE SetSubs(With(subs, s, fresh))
    BY <2>1 DEF SetSubs, With
  <2>2. ASSUME NEW v, SetSubs(With(Without(subs, v), s, fresh))
        PROVE  <1>5!:
    BY <2>2 DEF SetSubs, With, Without, Restrict
  <2> QED
    BY <2>1, <2>2 DEF Subscribe, fresh
<1>6. /\ queue' \in Seq(Job) /\ Coalesced(queue') /\ Range(queue') \subseteq Range(queue) \cup {first}
      /\ lost' \subseteq Sid
  <2> HIDE DEF jobs, first
  <2>1. queue' = Queued(jobs) /\ lost' = lost \cup ((SidsOf(queue) \cup SidsOf(jobs)) \ SidsOf(queue'))
    BY <1>1 DEF Queue
  <2>2. queue' \in Seq(Job) /\ Coalesced(queue') /\ Range(queue') \subseteq Range(queue) \cup Range(jobs)
    BY <1>3, <2>1, QueuedKeeps DEF NumbersInv, QueuesTyped, QueueFits
  <2>3. SidsOf(queue) \subseteq Sid /\ SidsOf(jobs) \subseteq Sid
    <3>1. Range(queue) \subseteq Job /\ Range(jobs) \subseteq Job
      BY <1>3 DEF NumbersInv, QueuesTyped, Range
    <3> QED
      BY <3>1 DEF SidsOf, Job
  <2> QED
    BY <1>3, <2>1, <2>2, <2>3 DEF NumbersInv, EventTypes
<1>7. EventTypes'
  <2>1. DOMAIN subs' \subseteq 1 .. issued'
    BY <1>1, <1>2, <1>5 DEF NumbersInv, EventTypes
  <2>2. count' \in 0 .. MaxSids
    <3>1. issued' \in 0 .. MaxSids
      BY <1>1, <1>2
    <3> HIDE DEF s, fresh, first, jobs
    <3>2. Cardinality(DOMAIN subs') \in 0 .. MaxSids
      BY <2>1, <3>1, SizeIsTyped
    <3> QED
      BY <1>5, <3>2
  <2>3. \A x \in DOMAIN subs' : subs'[x] \in [service : Service, seq : 0 .. MaxUpdates, lapsed : BOOLEAN]
    BY <1>4, <1>5 DEF NumbersInv, EventTypes
  <2>4. workerStarted' \in BOOLEAN
    BY <1>1
  <2>5. issued' \in 0 .. MaxSids
    BY <1>1, <1>2
  <2> QED
    BY <1>1, <1>6, <2>1, <2>2, <2>3, <2>4, <2>5 DEF NumbersInv, EventTypes, stage, catalog
<1>8. QueuesTyped' /\ QueueFits'
  <2>1. first.gen = generation
    OBVIOUS
  <2> HIDE DEF first
  <2> QED
    BY <1>1, <1>6, <2>1 DEF NumbersInv, QueuesTyped, QueueFits, sender, stage
<1>9. IdsGrow'
  <2>1. Waits + Tells <= publish.id /\ Waits' = Waits /\ Tells' = Tells
    <3>1. publish' = publish /\ trailing' = trailing
      BY <1>1
    <3> QED
      BY <3>1 DEF NumbersInv, IdsGrow, Waits, Tells
  <2> QED
    <3>1. UNCHANGED <<systemUpdateId, publish, lastId, trailing>>
      BY <1>1 DEF catalog
    <3>2. Waits \in {0, 1} /\ Tells \in {0, 1}
      BY DEF Waits, Tells
    <3>3. \A x \in DOMAIN subs' : subs'[x].seq + Waits + Tells <= publish.id
      <4> HIDE DEF s, fresh
      <4>1. \A x \in DOMAIN subs' : subs'[x].seq = 0 \/ (x \in DOMAIN subs /\ subs'[x].seq = subs[x].seq)
        BY <1>4, <1>5
      <4> QED
        BY <2>1, <3>2, <4>1 DEF NumbersInv, IdsGrow
    <3> HIDE DEF s, fresh, first, jobs
    <3> QED
      BY <2>1, <3>1, <3>3 DEF NumbersInv, IdsGrow
<1>10. \A j \in Jobs' : j \in Jobs \/ j = first
  BY <1>1, <1>6 DEF Jobs, sender
<1>11. \A j \in Jobs : j \in Job /\ Fits(j) /\ j.sid # s
  <2>1. \A j \in Jobs : j \in Job /\ Fits(j) /\ j.sid <= issued /\ j.sid \in Nat
    BY JobsAreTyped DEF NumbersInv, JobsFit, Fits, Job, Sid
  <2> QED
    BY <1>2, <2>1
<1>12. first.sid = s /\ first.first /\ first.seq = 0 /\ first.id = lastId
  OBVIOUS
<1>13. JobsFit'
  <2>1. ASSUME NEW j \in Jobs
        PROVE  Fits(j)'
    <3>1. j.sid \in DOMAIN subs' => j.sid \in DOMAIN subs /\ subs'[j.sid] = subs[j.sid]
      BY <1>5, <1>11
    <3>2. j.sid <= issued'
      BY <1>1, <1>2, <1>11, JobsAreTyped DEF NumbersInv, Fits, Job, Sid
    <3> HIDE DEF s, fresh, first, jobs
    <3> QED
      BY <1>1, <1>11, <3>1, <3>2 DEF Fits
  <2>2. ASSUME NEW j, j = first
        PROVE  Fits(j)'
    <3>1. first.sid <= issued' /\ first.id <= publish'.id
      BY <1>1, <1>2, <1>12 DEF NumbersInv, IdsGrow
    <3>2. s \in DOMAIN subs' => subs'[s].seq = 0
      BY <1>4, <1>5
    <3> HIDE DEF s, fresh, first, jobs
    <3> QED
      BY <1>12, <2>2, <3>1, <3>2 DEF Fits
  <2> HIDE DEF first
  <2> QED
    BY <1>10, <2>1, <2>2 DEF JobsFit
<1>14. SeqTellsNewer'
  <2> HIDE DEF s, fresh, first, jobs
  <2>1. ASSUME NEW a \in Jobs', NEW b \in Jobs', a.sid = b.sid
        PROVE  Ordered(a, b)
    <3>1. CASE a \in Jobs /\ b \in Jobs
      BY <3>1 DEF NumbersInv, SeqTellsNewer, Jobs, Ordered
    <3>2. CASE a = first /\ b = first
      BY <1>12, <3>2 DEF Ordered
    <3> QED
      BY <1>10, <1>11, <1>12, <2>1, <3>1, <3>2
  <2> QED
    BY <2>1 DEF SeqTellsNewer, Jobs, Ordered
<1> QED
  BY <1>7, <1>8, <1>9, <1>13, <1>14 DEF NumbersInv

(* The invariant holds before the first subscription. *)
LEMMA NumbersInvInit == EventsInit => NumbersInv
<1> SUFFICES ASSUME EventsInit PROVE NumbersInv
  OBVIOUS
<1>1. Range(<<>>) = {} /\ Len(<<>>) = 0 /\ <<>> \in Seq(Job) /\ DOMAIN <<>> = {}
  BY DEF Range
<1>2. EventTypes
  <2>1. 0 \in 0 .. MaxUpdates /\ 0 \in 0 .. MaxSids /\ 0 \in 0 .. MaxStops + 1 /\ 0 <= MaxStops
    BY EventingAssumption DEF EventingAssumption
  <2>2. /\ trailing \in [pending : BOOLEAN, id : 0 .. MaxUpdates]
        /\ publish \in [todo : SUBSET {"store", "load", "dispatch"}, id : 0 .. MaxUpdates]
    BY <2>1 DEF EventsInit, NoTrailing
  <2> QED
    BY <1>1, <2>1, <2>2 DEF EventsInit, EventTypes
<1>3. QueuesTyped /\ QueueFits
  BY <1>1, EventingAssumption DEF EventsInit, QueuesTyped, QueueFits, Coalesced, Distinct,
     EventingAssumption
<1>4. IdsGrow
  BY <1>1 DEF EventsInit, IdsGrow, Waits, Tells, NoTrailing
<1>5. JobsFit /\ SeqTellsNewer
  BY <1>1 DEF EventsInit, JobsFit, Jobs, SeqTellsNewer
<1> QED
  BY <1>2, <1>3, <1>4, <1>5, EventsInvInit DEF NumbersInv

(* Every step keeps it. *)
LEMMA NumbersInvNext == NumbersInv /\ [EventsNext]_eventVars => NumbersInv'
<1> SUFFICES ASSUME NumbersInv, [EventsNext]_eventVars PROVE NumbersInv'
  OBVIOUS
<1>0. EventsInv'
  BY EventsInvNext DEF NumbersInv
<1>1. CASE UNCHANGED eventVars
  BY <1>1 DEF eventVars, catalog, sender, stage, NumbersInv, EventsInv, SidsAreOld,
     CountIsExact,
       EventTypes, QueuesTyped, QueueFits, Coalesced, Distinct, IdsGrow, Waits, Tells, JobsFit, Jobs, Fits, SeqTellsNewer
<1>2. CASE Publisher
  <2>1. CASE NotifyDispatches
    <3>1. /\ publish' = [publish EXCEPT !.todo = {}] /\ publish.todo = {"dispatch"}
          /\ workerStarted' = (workerStarted \/ queue' # <<>> \/ trailing'.pending)
          /\ UNCHANGED <<catalog, lastId, issued, sender, stage>>
      BY <2>1 DEF NotifyDispatches, StartWorker
    <3>2. /\ publish'.id = publish.id /\ publish.id \in 0 .. MaxUpdates
          /\ publish' \in [todo : SUBSET {"store", "load", "dispatch"}, id : 0 .. MaxUpdates]
          /\ Tells = 1 /\ Tells' = 0 /\ workerStarted' \in BOOLEAN
      <4>1. publish' \in [todo : SUBSET {"store", "load", "dispatch"}, id : 0 .. MaxUpdates]
        BY <3>1 DEF NumbersInv, EventTypes
      <4>2. publish'.id = publish.id /\ publish.id \in 0 .. MaxUpdates /\ publish'.todo = {}
        BY <3>1 DEF NumbersInv, EventTypes
      <4>3. workerStarted' \in BOOLEAN
        BY <3>1
      <4> QED
        BY <3>1, <4>1, <4>2, <4>3 DEF Tells
    <3>3. CASE Dispatch(publish.id)
      BY <1>0, <3>1, <3>2, <3>3, DispatchNumbers DEF catalog
    <3>4. CASE trailing' = Merge(publish.id) /\ UNCHANGED <<count, subs, queue, window, lost>>
      BY <1>0, <3>1, <3>2, <3>4, MergeNumbers DEF catalog
    <3> QED
      BY <2>1, <3>3, <3>4 DEF NotifyDispatches
  <2> QED
    BY <1>0, <1>2, <2>1, PublisherNumbers DEF Publisher
<1>3. CASE WorkerFiresTrailing
  <2>1. /\ Dispatch(trailing.id) /\ trailing.pending
        /\ UNCHANGED <<catalog, publish, lastId, issued, workerStarted, sender, stage>>
    BY <1>3 DEF WorkerFiresTrailing
  <2>2. /\ trailing.id \in 0 .. MaxUpdates /\ publish' = publish /\ Tells' = Tells
        /\ publish \in [todo : SUBSET {"store", "load", "dispatch"}, id : 0 .. MaxUpdates]
        /\ workerStarted' \in BOOLEAN
    BY <2>1 DEF NumbersInv, EventTypes, Tells
  <2> QED
    BY <1>0, <2>1, <2>2, DispatchNumbers DEF catalog
<1>4. ASSUME NEW service \in Service, Subscribe(service)
      PROVE  NumbersInv'
  BY <1>0, <1>4, SubscribeNumbers
<1> QED
  BY <1>0, <1>1, <1>2, <1>3, <1>4, QuietNumbers DEF EventsNext, Request, Worker

(* It holds in every state. *)
THEOREM NumbersInvHolds == EventsSpec => []NumbersInv
BY NumbersInvInit, NumbersInvNext, PTL DEF EventsSpec

(* The table, its count and the queue agree, across stops and expiries: at *)
(* most one job per subscription, none of an earlier stop, no more than the*)
(* limit of either (TablesAgree).                                          *)
THEOREM TablesAlwaysAgree == EventsSpec => []TablesAgree
<1>1. NumbersInv => TablesAgree
  <2> SUFFICES ASSUME NumbersInv PROVE TablesAgree
    OBVIOUS
  <2>1. QueueIsCoalesced
    BY DEF NumbersInv, QueueFits, Coalesced, Distinct, QueueIsCoalesced, Range
  <2> QED
    BY <2>1 DEF NumbersInv, EventTypes, QueuesTyped, EventsInv, TablesAgree, EventsTypeOK
<1> QED
  BY <1>1, NumbersInvHolds, PTL

(* A later number never carries an older SystemUpdateID, although senders  *)
(* deliver in any order, an event may be merged into another, and the      *)
(* initial event may overtake one that waits (SeqTellsNewer).              *)
THEOREM NumbersTellNewer == EventsSpec => []SeqTellsNewer
<1>1. NumbersInv => SeqTellsNewer
  BY DEF NumbersInv
<1> QED
  BY <1>1, NumbersInvHolds, PTL
=================================================================================
