------------------------------- MODULE Startup -------------------------------
(***************************************************************************)
(* Processes of one user that are launched, find one another and end:      *)
(* src/posix_main.cpp ("console"), the main of src/gtk4_gui_main.cpp       *)
(* ("window"), src/main.cpp ("win32"), the lock and the socket of          *)
(* src/posix_single_instance.cpp, and Load and Save of the configuration.  *)
(*                                                                         *)
(* Files have an inode apart from their path: a lock file that was         *)
(* unlinked can still be locked, and two writers of config.ini.tmp may     *)
(* have the same file open.  The identity of the device, its UUID, stands  *)
(* for the settings; a process that generates one calls it by its own      *)
(* number.  What the server does between its start and its end is module   *)
(* ServerLifecycle, what the window does is module Interface.              *)
(***************************************************************************)
EXTENDS Integers, FiniteSets, SourceList

CONSTANTS Histories,    \* bound: what is launched, as records of
                        \*   programs: kinds, in the order of the launches, "none" at the end
                        \*   installed: whether there is a configuration yet
                        \*   overrides: how often the command line changes it
          MaxTries,     \* attempts of KillExistingAndReacquire, of the wait for a window
          MaxCrashes    \* bound: processes killed from outside

Proc == DOMAIN (CHOOSE h \in Histories : TRUE).programs
Kinds == {"console", "window", "win32", "none"}

(* A machine runs one of the builds. *)
ASSUME StartupAssumption ==
  /\ MaxTries \in Nat \ {0} /\ MaxCrashes \in Nat
  /\ Histories # {}
  /\ IsFiniteSet(Proc) /\ Proc = 1 .. Cardinality(Proc) /\ Proc # {}
  /\ \A h \in Histories :
       /\ h.programs \in [Proc -> Kinds] /\ h.installed \in BOOLEAN
       /\ \A p, q \in Proc : h.programs[p] = "win32" => h.programs[q] \in {"win32", "none"}

VARIABLES
  kind,                  \* per process its program
  pc, then, tries,       \* where it is, where it goes after a Save, attempts left
  crashes, overrides,    \* how many there were; how many are left
  fd, holds,             \* g_lockFd; the lock on that file, the mutex on Windows
  lockFile,              \* the file at the path of the lock; 0 is none
  abandoned,             \* the mutex was owned by a process that has ended
  listening, mail, sock, \* listener threads; commands that wait; the process bound at the path
  quit,                  \* g_stop, the close of a window
  uuid,                  \* AppConfig in each process
  wfd, tmp, cfg, content,\* open temporary files; the files at the two paths; what files hold
  announced,             \* history: the identities processes went on with
  raced, clash           \* history: a late unlink hit another's file; two saves overlapped

locks    == <<fd, holds, lockFile, abandoned>>
sockets  == <<listening, mail, sock>>
config   == <<uuid, wfd, tmp, cfg, content, announced, clash, overrides>>
vars == <<kind, pc, then, tries, crashes, locks, sockets, quit, config, raced>>

Inode == 1..(Cardinality(Proc) + 1)
Posix(p) == kind[p] # "win32"

Init ==
  /\ pc = [p \in Proc |-> "off"] /\ then = [p \in Proc |-> "args"] /\ tries = [p \in Proc |-> 0]
  /\ crashes = 0
  /\ fd = [p \in Proc |-> 0] /\ holds = [p \in Proc |-> FALSE] /\ lockFile = 0
  /\ abandoned = FALSE
  /\ listening = [p \in Proc |-> FALSE] /\ mail = [p \in Proc |-> FALSE] /\ sock = 0
  /\ quit = [p \in Proc |-> FALSE]
  /\ uuid = [p \in Proc |-> 0] /\ wfd = [p \in Proc |-> 0]
  /\ tmp = 0
  /\ \E h \in Histories : /\ kind = h.programs /\ overrides = h.overrides
                         /\ cfg = (IF h.installed THEN 1 ELSE 0)
  /\ content = [i \in Inode |-> cfg]
  /\ announced = {} /\ raced = FALSE /\ clash = FALSE

Goto(p, l) == pc' = [pc EXCEPT ![p] = l]
Set(f, p, v) == [f EXCEPT ![p] = v]
Free(used) == CHOOSE i \in Inode : i \notin used

----------------------------------------------------------------------------
(* The configuration: Config::Load, Config::Save, WriteFileAtomicUtf8.     *)

Launch(p) ==
  /\ pc[p] = "off" /\ kind[p] # "none" /\ \A q \in 1..(p - 1) : pc[q] # "off"
  /\ Goto(p, "load")
  /\ UNCHANGED <<kind, then, tries, crashes, locks, sockets, quit, config, raced>>

Saving(p) == pc[p] \in {"open", "write", "rename"}

(* Without a file, or with one that has no UUID, the process makes one and  *)
(* saves it.                                                                *)
Load(p) ==
  /\ pc[p] = "load"
  /\ LET found == IF cfg = 0 THEN 0 ELSE content[cfg]
     IN /\ uuid' = Set(uuid, p, IF found = 0 THEN p ELSE found)
        /\ Goto(p, IF found = 0 THEN "open" ELSE "args")
        /\ then' = Set(then, p, "args")
        /\ clash' = (clash \/ (cfg = 0 /\ \E q \in Proc : Saving(q)))
  /\ UNCHANGED <<kind, tries, crashes, locks, sockets, quit, wfd, tmp, cfg, content, announced, overrides, raced>>

(* The file that fopen(.., "wb") gives: the one at the path, or a new one.  *)
\* fault: the configuration is written in place
TempInPlace == IF cfg # 0 THEN cfg ELSE Free({tmp} \cup {wfd[q] : q \in Proc})
Temp == IF tmp # 0 THEN tmp ELSE Free({cfg} \cup {wfd[q] : q \in Proc})

(* Windows opens it for one writer, and a Save that fails is only logged.   *)
SaveOpens(p) ==
  /\ pc[p] = "open"
  /\ clash' = (clash \/ \E q \in Proc : pc[q] \in {"write", "rename"})
  /\ IF ~Posix(p) /\ \E q \in Proc : wfd[q] # 0
     THEN Goto(p, then[p]) /\ UNCHANGED <<wfd, tmp, content>>
     ELSE /\ Goto(p, "write")
          /\ tmp' = Temp /\ wfd' = Set(wfd, p, Temp) /\ content' = Set(content, Temp, 0)
  /\ UNCHANGED <<kind, then, tries, crashes, locks, sockets, quit, uuid, cfg, announced, overrides, raced>>

SaveWrites(p) ==
  /\ pc[p] = "write" /\ Goto(p, "rename")
  /\ content' = Set(content, wfd[p], uuid[p]) /\ wfd' = Set(wfd, p, 0)
  /\ UNCHANGED <<kind, then, tries, crashes, locks, sockets, quit, uuid, tmp, cfg, announced, clash, overrides, raced>>

SaveRenames(p) ==
  /\ pc[p] = "rename" /\ Goto(p, then[p])
  /\ IF tmp # 0 THEN cfg' = tmp /\ tmp' = 0 ELSE UNCHANGED <<cfg, tmp>>
  /\ UNCHANGED <<kind, then, tries, crashes, locks, sockets, quit, uuid, wfd, content, announced, clash, overrides, raced>>

(* --port, --name and --debug are saved before the process knows whether    *)
(* another one runs; only on POSIX.                                         *)
Override(p) ==
  /\ pc[p] = "args" /\ Posix(p) /\ overrides > 0 /\ overrides' = overrides - 1
  /\ Goto(p, "open") /\ then' = Set(then, p, "lock")
  /\ announced' = announced \cup {uuid[p]}
  /\ UNCHANGED <<kind, tries, crashes, locks, sockets, quit, uuid, wfd, tmp, cfg, content, clash, raced>>

Proceed(p) ==
  /\ pc[p] = "args" /\ Goto(p, "lock")
  /\ announced' = announced \cup {uuid[p]}
  /\ UNCHANGED <<kind, then, tries, crashes, locks, sockets, quit, uuid, wfd, tmp, cfg, content, clash, overrides, raced>>

----------------------------------------------------------------------------
(* POSIX: the lock file and the socket.                                    *)

(* TryAcquireLock opens or creates the file.                                *)
OpenLock(p) ==
  /\ pc[p] \in {"lock", "last", "retry"} /\ Posix(p)
  /\ LET i == IF lockFile # 0 THEN lockFile ELSE Free({fd[q] : q \in Proc})
     IN lockFile' = i /\ fd' = Set(fd, p, i)
  /\ then' = Set(then, p, pc[p]) /\ Goto(p, "flock")
  /\ UNCHANGED <<kind, tries, crashes, holds, abandoned, sockets, quit, config, raced>>

(* Where a refused process goes: a console asks the other to end, a window  *)
(* forwards what it was asked; a console that has asked tries again.        *)
Refused(p) ==
  CASE then[p] = "lock" -> "busy"
    [] then[p] = "last" -> "done"
    [] OTHER            -> IF tries[p] = 1 THEN "done" ELSE "retry"

\* fault: a lock that is refused is taken for granted
FlockIgnored(p) == fd[p] # 0
Flock(p) == \A q \in Proc : holds[q] => fd[q] # fd[p]

TryLock(p) ==
  /\ pc[p] = "flock"
  /\ IF Flock(p)
     THEN Goto(p, "mine") /\ holds' = Set(holds, p, TRUE) /\ UNCHANGED <<fd, tries>>
     ELSE /\ Goto(p, Refused(p)) /\ fd' = Set(fd, p, 0)
          /\ tries' = Set(tries, p, IF then[p] = "retry" THEN tries[p] - 1 ELSE 0) /\ UNCHANGED holds
  /\ UNCHANGED <<kind, then, crashes, lockFile, abandoned, sockets, quit, config, raced>>

(* A connect finds the process that is bound at the path and still listens. *)
Reached == IF sock # 0 /\ listening[sock] THEN {sock} ELSE {}

(* KillExistingAndReacquire.                                                *)
Supersede(p) ==
  /\ pc[p] = "busy" /\ kind[p] = "console"
  /\ IF Reached # {} THEN Goto(p, "retry") /\ mail' = Set(mail, sock, TRUE)
                     ELSE Goto(p, "last") /\ UNCHANGED mail
  /\ tries' = Set(tries, p, MaxTries)
  /\ UNCHANGED <<kind, then, crashes, locks, listening, sock, quit, config, raced>>

(* SendShowWithRetry, SendSourceOverride: the other's window is its own     *)
(* business, this process ends either way.                                  *)
Forward(p) ==
  /\ pc[p] = "busy" /\ kind[p] = "window" /\ Goto(p, "done")
  /\ UNCHANGED <<kind, then, tries, crashes, locks, sockets, quit, config, raced>>

(* --kill-server needs no lock.                                             *)
KillServer(p) ==
  /\ pc[p] = "args" /\ Posix(p) /\ Goto(p, "done")
  /\ mail' = [q \in Proc |-> mail[q] \/ q \in Reached]
  /\ UNCHANGED <<kind, then, tries, crashes, locks, listening, sock, quit, config, raced>>

(* After the fork: StartListening removes the socket file that is there.    *)
Listen(p) ==
  /\ pc[p] = "mine" /\ Posix(p) /\ Goto(p, "start")
  /\ sock' = p /\ listening' = Set(listening, p, TRUE)
  /\ UNCHANGED <<kind, then, tries, crashes, locks, mail, quit, config, raced>>

(* A window stays when its server does not start.                           *)
Start(p) ==
  /\ pc[p] = "start" /\ Goto(p, "serve")
  /\ UNCHANGED <<kind, then, tries, crashes, locks, sockets, quit, config, raced>>

(* What the kernel does for a process that ends: its files are closed.      *)
Gone(p) ==
  /\ Goto(p, "done")
  /\ fd' = Set(fd, p, 0) /\ holds' = Set(holds, p, FALSE) /\ wfd' = Set(wfd, p, 0)
  /\ listening' = Set(listening, p, FALSE) /\ mail' = Set(mail, p, FALSE)
  /\ abandoned' = (abandoned \/ (holds[p] /\ ~Posix(p)))

(* A console returns from main without ReleaseLock.                         *)
StartFails(p) ==
  /\ pc[p] = "start" /\ kind[p] = "console" /\ Gone(p)
  /\ UNCHANGED <<kind, then, tries, crashes, lockFile, sock, quit, uuid, tmp, cfg, content, announced, clash, overrides, raced>>

\* fault: the request to stop is reset when the loop is entered
HearOnceServing(p) == quit' = Set(quit, p, pc[p] = "serve")
Hear(p) == quit' = Set(quit, p, TRUE)

(* The listener thread: OnSingleInstanceCommand("kill").                    *)
ListenerTakes(p) ==
  /\ listening[p] /\ mail[p] /\ Hear(p)
  /\ mail' = Set(mail, p, FALSE)
  /\ UNCHANGED <<kind, pc, then, tries, crashes, locks, listening, sock, config, raced>>

(* SIGINT, SIGTERM, or the user closes the window.                          *)
UserQuits(p) ==
  /\ pc[p] = "serve" /\ ~quit[p] /\ quit' = Set(quit, p, TRUE)
  /\ UNCHANGED <<kind, pc, then, tries, crashes, locks, sockets, config, raced>>

(* DLNAServer.Stop.                                                         *)
Stop(p) ==
  /\ pc[p] = "serve" /\ quit[p] /\ Goto(p, "stopped")
  /\ UNCHANGED <<kind, then, tries, crashes, locks, sockets, quit, config, raced>>

(* ReleaseLock: the listener ends and its socket file is removed,           *)
ReleaseSocket(p) ==
  /\ pc[p] = "stopped" /\ Posix(p) /\ Goto(p, "unlock")
  /\ listening' = Set(listening, p, FALSE) /\ mail' = Set(mail, p, FALSE) /\ sock' = 0
  /\ UNCHANGED <<kind, then, tries, crashes, locks, quit, config, raced>>

(* then the lock is given up,                                               *)
Unlock(p) ==
  /\ pc[p] = "unlock" /\ Goto(p, "unlink")
  /\ holds' = Set(holds, p, FALSE) /\ fd' = Set(fd, p, 0)
  /\ UNCHANGED <<kind, then, tries, crashes, lockFile, abandoned, sockets, quit, config, raced>>

(* and only then the lock file is removed, whoever has locked it by now.    *)
UnlinkLock(p) ==
  /\ pc[p] = "unlink" /\ Goto(p, IF kind[p] = "window" THEN "atexit" ELSE "done")
  /\ raced' = (raced \/ \E q \in Proc : q # p /\ lockFile # 0 /\ fd[q] = lockFile)
  /\ lockFile' = 0
  /\ UNCHANGED <<kind, then, tries, crashes, fd, holds, abandoned, sockets, quit, config>>

(* A window calls ReleaseLock again at its exit: the lock is not its own    *)
(* any more, the path of the socket is removed all the same.                *)
AtExit(p) ==
  /\ pc[p] = "atexit" /\ Goto(p, "done")
  /\ raced' = (raced \/ sock # 0) /\ sock' = 0
  /\ UNCHANGED <<kind, then, tries, crashes, locks, listening, mail, quit, config>>

Crash(p) ==
  /\ crashes < MaxCrashes /\ pc[p] \notin {"off", "done"}
  /\ crashes' = crashes + 1 /\ Gone(p)
  /\ UNCHANGED <<kind, then, tries, lockFile, sock, quit, uuid, tmp, cfg, content, announced, clash, overrides, raced>>

----------------------------------------------------------------------------
(* Windows: the mutex, which lives while a process has a handle to it (fd), *)
(* and the window, which stands for the socket.                             *)

CreateMutexW(p) ==
  /\ pc[p] = "lock" /\ ~Posix(p)
  /\ fd' = Set(fd, p, 1)
  /\ IF \E q \in Proc : fd[q] # 0
     THEN Goto(p, "wait") /\ UNCHANGED <<holds, abandoned>>
     ELSE Goto(p, "mine") /\ holds' = Set(holds, p, TRUE) /\ abandoned' = FALSE
  /\ UNCHANGED <<kind, then, tries, crashes, lockFile, sockets, quit, config, raced>>

(* A wait that finds an abandoned mutex owns it and goes on; one that finds *)
(* a mutex nobody owns owns it too, and takes the other process for alive.  *)
WaitForMutex(p) ==
  /\ pc[p] = "wait"
  /\ LET owned == \E q \in Proc : holds[q]
     IN /\ holds' = Set(holds, p, ~owned)
        /\ Goto(p, IF ~owned /\ abandoned THEN "mine" ELSE "busy")
        /\ abandoned' = (abandoned /\ owned)
  /\ tries' = Set(tries, p, MaxTries)
  /\ UNCHANGED <<kind, then, crashes, fd, lockFile, sockets, quit, config, raced>>

(* The window of the other is looked for, asked to show itself, and this    *)
(* process ends; a mutex it owns is abandoned.                              *)
FindWindowW(p) ==
  /\ pc[p] = "busy" /\ ~Posix(p)
  /\ IF Reached # {} \/ tries[p] = 1
     THEN Gone(p) /\ UNCHANGED tries
     ELSE tries' = Set(tries, p, tries[p] - 1) /\ UNCHANGED <<pc, fd, holds, abandoned, wfd, listening, mail>>
  /\ UNCHANGED <<kind, then, crashes, lockFile, sock, quit, uuid, tmp, cfg, content, announced, clash, overrides, raced>>

(* --kill-server, and a source for a window that is there: both end here.   *)
PostKill(p) ==
  /\ pc[p] = "args" /\ ~Posix(p) /\ Goto(p, "done")
  /\ mail' = [q \in Proc |-> mail[q] \/ q \in Reached]
  /\ UNCHANGED <<kind, then, tries, crashes, locks, listening, sock, quit, config, raced>>

CreateWindow(p) ==
  /\ pc[p] = "mine" /\ ~Posix(p) /\ Goto(p, "start")
  /\ sock' = p /\ listening' = Set(listening, p, TRUE)
  /\ UNCHANGED <<kind, then, tries, crashes, locks, mail, quit, config, raced>>

(* The window is destroyed and the message loop ends.                       *)
LeaveLoop(p) ==
  /\ pc[p] = "stopped" /\ ~Posix(p) /\ Goto(p, "release")
  /\ sock' = 0 /\ listening' = Set(listening, p, FALSE) /\ mail' = Set(mail, p, FALSE)
  /\ UNCHANGED <<kind, then, tries, crashes, locks, quit, config, raced>>

ReleaseMutex(p) ==
  /\ pc[p] = "release" /\ Goto(p, "done")
  /\ holds' = Set(holds, p, FALSE) /\ fd' = Set(fd, p, 0)
  /\ UNCHANGED <<kind, then, tries, crashes, lockFile, abandoned, sockets, quit, config, raced>>
----------------------------------------------------------------------------
Configure(p) == Load(p) \/ SaveOpens(p) \/ SaveWrites(p) \/ SaveRenames(p) \/ Override(p) \/ Proceed(p)

OnPosix(p) ==
  \/ OpenLock(p) \/ TryLock(p) \/ Supersede(p) \/ Forward(p) \/ KillServer(p) \/ Listen(p)
  \/ ReleaseSocket(p) \/ Unlock(p) \/ UnlinkLock(p) \/ AtExit(p)

OnWindows(p) ==
  \/ CreateMutexW(p) \/ WaitForMutex(p) \/ FindWindowW(p) \/ PostKill(p) \/ CreateWindow(p)
  \/ LeaveLoop(p) \/ ReleaseMutex(p)

Main(p) == Configure(p) \/ OnPosix(p) \/ OnWindows(p) \/ Start(p) \/ StartFails(p) \/ Stop(p)

Next == \E p \in Proc : Launch(p) \/ Main(p) \/ ListenerTakes(p) \/ UserQuits(p) \/ Crash(p)

(* A process goes on while it can: Start and Stop end (ServerLifecycle), a  *)
(* listener thread is given time.  Nobody has to launch, quit or crash one. *)
Spec == Init /\ [][Next]_vars /\ \A p \in Proc : WF_vars(Main(p)) /\ WF_vars(ListenerTakes(p))

----------------------------------------------------------------------------
(* Properties                                                              *)

InCharge(p) == pc[p] \in {"mine", "start", "serve", "stopped"}

OneServes == \A p, q \in Proc : InCharge(p) /\ InCharge(q) => p = q

(* A process that has started to listen is the one that --kill-server and   *)
(* later launches find.                                                     *)
Reachable == \A p \in Proc : pc[p] \in {"start", "serve"} => sock = p /\ listening[p]

(* At most one process of the user is in charge, and the others can find it *)
(* -- until a process that leaves has removed a lock file or a socket that  *)
(* was another's by then.                                                   *)
OneIsInCharge == raced \/ (OneServes /\ Reachable)

(* The identity of the device is made once: launches, relaunches and        *)
(* crashes, also halfway a Save, do not change it, unless two processes     *)
(* were saving at once or the first one's file was not there yet; and what  *)
(* a Save writes of the sources, the next Load reads.                       *)
UuidStays == (clash \/ Cardinality(announced) <= 1) /\ SourcesAreKept

(* A process that was told to end does, whatever it was doing; every launch *)
(* ends up in charge or ends.                                               *)
CommandsEnd ==
  /\ \A p \in Proc : mail[p] ~> (pc[p] = "done")
  /\ []<>(\A p \in Proc : pc[p] \in {"off", "serve", "done"})
=============================================================================
