---------------------------- MODULE Startup_proof ----------------------------
(***************************************************************************)
(* What is proved of Startup for any number of processes, launches,        *)
(* crashes and attempts, on either build: until ReleaseLock removes a file *)
(* that is another's by then, the process that is in charge holds the lock *)
(* of the file at the path and listens on the socket; and until two saves  *)
(* overlap, the file at the path of the configuration has the identity     *)
(* that every process past Load has, and a save under way has it in the    *)
(* other file.                                                             *)
(***************************************************************************)
EXTENDS Startup, FiniteSetTheorems, TLAPS

Labels ==
  {"off", "load", "open", "write", "rename", "args", "lock", "last", "retry", "flock", "busy", "wait",
   "mine", "start", "serve", "stopped", "unlock", "unlink", "atexit", "release", "done"}

(* Where a process has no lock file open, and no handle to the mutex. *)
Calm == {"off", "load", "open", "write", "rename", "args", "lock", "last", "retry", "unlink", "atexit", "done"}

FitsBuild(p, l) ==
  /\ l \in {"flock", "unlock"} => Posix(p)
  /\ l \in {"wait", "release"} => ~Posix(p)

Types ==
  /\ kind \in [Proc -> Kinds] /\ pc \in [Proc -> Labels]
  /\ then \in [Proc -> {"args", "lock", "last", "retry"}]
  /\ \A p, q \in Proc : kind[p] = "win32" => kind[q] \in {"win32", "none"}
  /\ \A p \in Proc : kind[p] = "none" => pc[p] = "off"
  /\ \A p \in Proc : FitsBuild(p, pc[p])

(* Who has the lock, and who can be found: until a late unlink. *)
LockInv ==
  /\ fd \in [Proc -> Nat] /\ lockFile \in Nat /\ holds \in [Proc -> BOOLEAN] /\ listening \in [Proc -> BOOLEAN]
  /\ \A p \in Proc : pc[p] \in Calm => fd[p] = 0
  /\ \A p \in Proc : pc[p] \in {"flock", "wait"} => fd[p] # 0 /\ ~holds[p]
  /\ \A p \in Proc : fd[p] # 0 /\ Posix(p) => fd[p] = lockFile
  /\ \A p \in Proc : pc[p] = "busy" /\ Posix(p) => fd[p] = 0
  /\ \A p \in Proc : holds[p] => fd[p] # 0
  /\ \A p, q \in Proc : holds[p] /\ holds[q] => p = q
  /\ \A p \in Proc : InCharge(p) => holds[p]
  /\ Reachable

Writing(p) == pc[p] \in {"write", "rename"}

(* Which file holds the identity: until two saves overlap. *)
UuidTypes ==
  /\ cfg \in Inode \cup {0} /\ tmp \in Inode \cup {0} /\ wfd \in [Proc -> Inode \cup {0}]
  /\ content \in [Inode -> Nat] /\ uuid \in [Proc -> Nat]

UuidInv ==
  /\ UuidTypes
  /\ tmp # 0 => tmp # cfg
  /\ \A p \in Proc : /\ pc[p] = "write" => wfd[p] = tmp /\ tmp # 0
                     /\ pc[p] = "rename" => tmp # 0 /\ content[tmp] = uuid[p]
                     /\ pc[p] # "write" => wfd[p] = 0
  /\ \A p, q \in Proc : Writing(p) /\ Writing(q) => p = q
  /\ cfg = 0 => /\ announced = {}
                /\ \A p \in Proc : pc[p] \in {"off", "load", "done"} \/ (Saving(p) /\ uuid[p] # 0)
                /\ \A p, q \in Proc : Saving(p) /\ Saving(q) => p = q
  /\ cfg # 0 => /\ content[cfg] # 0 /\ announced \subseteq {content[cfg]}
                /\ \A p \in Proc : pc[p] \in {"off", "load", "done"} \/ uuid[p] = content[cfg]

Inv == Types /\ (raced \/ LockInv) /\ (clash \/ UuidInv)

-----------------------------------------------------------------------------
(* Processes and files are numbered from one, and there is a file more. *)
LEMMA Numbers ==
  /\ Proc \subseteq Nat \ {0} /\ Inode \subseteq Nat \ {0} /\ 1 \in Inode /\ 2 \in Inode
  /\ Cardinality(Proc) \in Nat \ {0}
<1>1. IsFiniteSet(Proc) /\ Proc = 1 .. Cardinality(Proc) /\ Proc # {}
  BY StartupAssumption DEF StartupAssumption
<1>2. Cardinality(Proc) \in Nat
  BY <1>1, FS_CardinalityType
<1> DEFINE n == Cardinality(Proc)
<1>3. n \in Nat /\ Proc = 1 .. n /\ Proc # {}
  BY <1>1, <1>2
<1>4. Inode = 1 .. n + 1
  BY DEF Inode
<1> HIDE DEF n
<1>5. n # 0
  BY <1>3
<1>6. Proc \subseteq Nat \ {0} /\ Inode \subseteq Nat \ {0} /\ 1 \in Inode /\ 2 \in Inode
  BY <1>3, <1>4, <1>5
<1> QED
  BY <1>3, <1>5, <1>6 DEF n

(* A new file is none that is in use. *)
LEMMA FreeFits ==
  ASSUME NEW used, NEW x \in Inode, x \notin used
  PROVE  Free(used) \in Inode /\ Free(used) \notin used
BY DEF Free

(* A step of a process *)
Step(p) == Launch(p) \/ Main(p) \/ ListenerTakes(p) \/ UserQuits(p) \/ Crash(p)

(* A step leaves the other processes where they are, and every program what *)
(* it is.                                                                   *)
LEMMA StepMoves ==
  ASSUME Types, NEW p \in Proc, Step(p)
  PROVE  /\ kind' = kind
         /\ then' \in [Proc -> {"args", "lock", "last", "retry"}]
         /\ \/ pc' = pc
            \/ /\ \E l \in Labels \ {"off"} : /\ pc' = [pc EXCEPT ![p] = l]
                                    /\ FitsBuild(p, l)
               /\ kind[p] # "none"
<1>1. kind' = kind
  BY DEF Step, Launch, ListenerTakes, UserQuits, Crash, Main, Configure, OnPosix, OnWindows,
     Load, SaveOpens,
         SaveWrites, SaveRenames, Override, Proceed, OpenLock, TryLock, Supersede, Forward, KillServer, Listen,
         ReleaseSocket, Unlock, UnlinkLock, AtExit, CreateMutexW, WaitForMutex, FindWindowW, PostKill,
         CreateWindow, LeaveLoop, ReleaseMutex, Start, StartFails, Stop
<1>2. then' \in [Proc -> {"args", "lock", "last", "retry"}]
  <2>1. CASE then' = then
    BY <2>1 DEF Types
  <2>2. CASE then' = [then EXCEPT ![p] = "args"] \/ then' = [then EXCEPT ![p] = "lock"]
    BY <2>2 DEF Types
  <2>3. CASE pc[p] \in {"lock", "last", "retry"} /\ then' = [then EXCEPT ![p] = pc[p]]
    BY <2>3 DEF Types
  <2> QED
    BY <2>1, <2>2, <2>3
    DEF Step, Launch, ListenerTakes, UserQuits, Crash, Main, Configure, OnPosix, OnWindows, Load, SaveOpens,
         SaveWrites, SaveRenames, Override, Proceed, OpenLock, TryLock, Supersede, Forward, KillServer, Listen,
         ReleaseSocket, Unlock, UnlinkLock, AtExit, CreateMutexW, WaitForMutex, FindWindowW, PostKill,
         CreateWindow, LeaveLoop, ReleaseMutex, Start, StartFails, Stop, Set
<1>3. kind[p] # "none" \/ pc' = pc
  <2>1. pc[p] # "off" \/ kind[p] # "none" \/ pc' = pc
    BY DEF Step, Launch, ListenerTakes, UserQuits, Crash, Main, Configure, OnPosix, OnWindows,
       Load, SaveOpens,
         SaveWrites, SaveRenames, Override, Proceed, OpenLock, TryLock, Supersede, Forward, KillServer, Listen,
         ReleaseSocket, Unlock, UnlinkLock, AtExit, CreateMutexW, WaitForMutex, FindWindowW, PostKill,
         CreateWindow, LeaveLoop, ReleaseMutex, Start, StartFails, Stop
  <2> QED
    BY <2>1 DEF Types
<1>4. pc' = pc \/ \E l \in Labels \ {"off"} : /\ pc' = [pc EXCEPT ![p] = l]
                                    /\ FitsBuild(p, l)
  <2>1. CASE Launch(p) \/ Load(p) \/ Override(p) \/ Proceed(p)
    BY <2>1 DEF Launch, Load, Override, Proceed, Goto, Labels, FitsBuild, Posix
  <2>2. CASE SaveOpens(p) \/ SaveWrites(p) \/ SaveRenames(p)
    <3>1. then[p] \in {"args", "lock", "last", "retry"}
      BY DEF Types
    <3> QED
      BY <2>2, <3>1 DEF SaveOpens, SaveWrites, SaveRenames, Goto, Labels, FitsBuild, Posix
  <2>3. CASE TryLock(p)
    <3>0. Posix(p)
      BY <2>3 DEF TryLock, Types, FitsBuild
    <3>1. Refused(p) \in {"busy", "done", "retry"}
      BY DEF Refused, Types
    <3> QED
      BY <2>3, <3>1 DEF TryLock, Goto, Labels, FitsBuild, Posix
  <2>4. CASE \/ OpenLock(p) \/ Supersede(p) \/ Forward(p) \/ KillServer(p) \/ Listen(p) \/ ReleaseSocket(p)
             \/ Unlock(p) \/ UnlinkLock(p) \/ AtExit(p) \/ Start(p) \/ StartFails(p) \/ Stop(p)
    BY <2>4 DEF OpenLock, Supersede, Forward, KillServer, Listen, ReleaseSocket, Unlock,
       UnlinkLock, AtExit,
                Start, StartFails, Stop, Gone, Goto, Labels, FitsBuild, Posix
  <2>5. CASE CreateMutexW(p) \/ PostKill(p) \/ CreateWindow(p) \/ LeaveLoop(p) \/ ReleaseMutex(p)
    BY <2>5 DEF CreateMutexW, PostKill, CreateWindow, LeaveLoop, ReleaseMutex, Goto, Labels,
       FitsBuild, Posix
  <2>7. CASE WaitForMutex(p)
    <3>1. pc' = [pc EXCEPT ![p] = "mine"] \/ pc' = [pc EXCEPT ![p] = "busy"]
      BY <2>7 DEF WaitForMutex, Goto
    <3> QED
      BY <3>1 DEF Labels, FitsBuild
  <2>8. CASE FindWindowW(p)
    BY <2>8 DEF FindWindowW, Gone, Goto, Labels, FitsBuild
  <2>6. CASE ListenerTakes(p) \/ UserQuits(p) \/ Crash(p)
    BY <2>6 DEF ListenerTakes, UserQuits, Crash, Gone, Goto, Labels, FitsBuild, Posix
  <2> QED
    BY <2>1, <2>2, <2>3, <2>4, <2>5, <2>6, <2>7, <2>8 DEF Step, Main, Configure, OnPosix,
       OnWindows
<1> QED
  BY <1>1, <1>2, <1>3, <1>4

(* Programs and labels keep their types. *)
LEMMA TypesNext ==
  ASSUME Types, NEW p \in Proc, Step(p)
  PROVE  Types' /\ kind' = kind
<1>1. /\ kind' = kind /\ then' \in [Proc -> {"args", "lock", "last", "retry"}]
      /\ \/ pc' = pc
         \/ /\ \E l \in Labels \ {"off"} : /\ pc' = [pc EXCEPT ![p] = l]
                                 /\ FitsBuild(p, l)
            /\ kind[p] # "none"
  BY StepMoves
<1>2. CASE pc' = pc
  BY <1>1, <1>2 DEF Types, FitsBuild, Posix
<1>3. CASE kind[p] # "none" /\ \E l \in Labels \ {"off"} : /\ pc' = [pc EXCEPT ![p] = l]
                                                 /\ FitsBuild(p, l)
  BY <1>1, <1>3 DEF Types, FitsBuild, Posix
<1> QED
  BY <1>1, <1>2, <1>3

-----------------------------------------------------------------------------
(* Who is in charge.                                                       *)

(* A process with nothing open stays without. *)
LEMMA CalmKeeps ==
  ASSUME Types, LockInv, NEW p \in Proc, NEW l \in Calm, fd[p] = 0, pc' = [pc EXCEPT ![p] = l],
         UNCHANGED <<kind, fd, holds, lockFile, listening, sock>>
  PROVE  LockInv'
BY DEF Types, LockInv, Calm, InCharge, Reachable, Posix

(* What the kernel does for a process that ends *)
LEMMA GoneKeeps ==
  ASSUME Types, LockInv, NEW p \in Proc, Gone(p), UNCHANGED <<kind, lockFile, sock>>
  PROVE  LockInv'
BY DEF Types, LockInv, Calm, InCharge, Reachable, Posix, Gone, Goto, Set

(* The steps of a process that has nothing open *)
CalmStep(p) ==
  Launch(p) \/ Configure(p) \/ Supersede(p) \/ Forward(p) \/ KillServer(p) \/ PostKill(p)

(* leave the locks alone. *)
LEMMA CalmSteps ==
  ASSUME Types, LockInv, NEW p \in Proc, CalmStep(p)
  PROVE  LockInv'
<1>1. UNCHANGED <<kind, fd, holds, lockFile, listening, sock>>
  BY DEF CalmStep, Configure, Launch, Load, SaveOpens, SaveWrites, SaveRenames, Override,
     Proceed, Supersede,
         Forward, KillServer, PostKill, locks, sockets
<1>2. fd[p] = 0
  <2>1. pc[p] \in Calm \/ (pc[p] = "busy" /\ Posix(p))
    BY DEF CalmStep, Configure, Launch, Load, SaveOpens, SaveWrites, SaveRenames, Override,
       Proceed, Supersede,
           Forward, KillServer, PostKill, Calm, Posix
  <2> QED
    BY <2>1 DEF LockInv
<1>3. \E l \in Calm : pc' = [pc EXCEPT ![p] = l]
  <2>1. then[p] \in Calm
    BY DEF Types, Calm
  <2> QED
    BY <2>1 DEF CalmStep, Configure, Launch, Load, SaveOpens, SaveWrites, SaveRenames,
       Override, Proceed,
                Supersede, Forward, KillServer, PostKill, Calm, Goto
<1> QED
  BY <1>1, <1>2, <1>3, CalmKeeps

(* On POSIX: all have the file at the path open, for no unlink was late. *)
LEMMA OpenLockKeeps ==
  ASSUME Types, LockInv, NEW p \in Proc, OpenLock(p)
  PROVE  LockInv'
<1> DEFINE i == IF lockFile # 0 THEN lockFile ELSE Free({fd[q] : q \in Proc})
<1>1. /\ lockFile' = i /\ fd' = [fd EXCEPT ![p] = i] /\ pc' = [pc EXCEPT ![p] = "flock"]
      /\ pc[p] \in {"lock", "last", "retry"} /\ Posix(p) /\ UNCHANGED <<kind, holds, listening, sock>>
  BY DEF OpenLock, Set, Goto, sockets
<1>2. \A q \in Proc : fd[q] = 0 \/ fd[q] = lockFile
  <2>1. \A q \in Proc : Posix(q)
    BY <1>1 DEF Types, Posix, Kinds
  <2> QED
    BY <2>1 DEF LockInv
<1>3. i \in Nat /\ i # 0 /\ (lockFile # 0 => i = lockFile)
  <2>1. CASE lockFile # 0
    BY <2>1 DEF LockInv
  <2>2. CASE lockFile = 0
    <3>1. 1 \notin {fd[q] : q \in Proc} /\ 1 \in Inode
      BY <1>2, <2>2, Numbers
    <3>2. Free({fd[q] : q \in Proc}) \in Inode
      BY <3>1, FreeFits
    <3> QED
      BY <2>2, <3>2, Numbers
  <2> QED
    BY <2>1, <2>2
<1> HIDE DEF i
<1>4. fd[p] = 0 /\ ~holds[p]
  BY <1>1 DEF LockInv, Calm
<1> QED
  BY <1>1, <1>2, <1>3, <1>4 DEF Types, LockInv, Calm, InCharge, Reachable, Posix

(* A process that has the only lock is in charge. *)
LEMMA TryLockKeeps ==
  ASSUME Types, LockInv, NEW p \in Proc, TryLock(p)
  PROVE  LockInv'
<1>1. pc[p] = "flock" /\ fd[p] # 0 /\ fd[p] = lockFile /\ Posix(p) /\ UNCHANGED <<kind, lockFile, listening, sock>>
  BY DEF TryLock, Types, FitsBuild, LockInv, sockets
<1>2. CASE Flock(p)
  <2>1. pc' = [pc EXCEPT ![p] = "mine"] /\ holds' = [holds EXCEPT ![p] = TRUE] /\ fd' = fd
    BY <1>2 DEF TryLock, Goto, Set
  <2>2. \A q \in Proc : ~holds[q]
    <3>1. \A q \in Proc : Posix(q)
      BY <1>1 DEF Types, Posix, Kinds
    <3> QED
      BY <1>1, <1>2, <3>1 DEF Flock, LockInv
  <2> QED
    BY <1>1, <2>1, <2>2 DEF Types, LockInv, Calm, InCharge, Reachable, Posix
<1>3. CASE ~Flock(p)
  <2>1. Refused(p) \in {"busy", "done", "retry"}
    BY DEF Refused, Types
  <2>2. /\ pc' = [pc EXCEPT ![p] = Refused(p)] /\ fd' = [fd EXCEPT ![p] = 0] /\ holds' = holds
    BY <1>3 DEF TryLock, Goto, Set
  <2>3. ~holds[p]
    BY <1>1, <1>3 DEF Flock, LockInv, Types, Posix, Kinds
  <2> QED
    BY <1>1, <2>1, <2>2, <2>3 DEF Types, LockInv, Calm, InCharge, Reachable, Posix
<1> QED
  BY <1>2, <1>3

(* The steps of the one in charge: it listens, starts, and stops. *)
LEMMA ChargeKeeps ==
  ASSUME Types, LockInv, NEW p \in Proc,
         Listen(p) \/ CreateWindow(p) \/ Start(p) \/ Stop(p) \/ ReleaseSocket(p) \/ LeaveLoop(p)
  PROVE  LockInv'
<1>1. InCharge(p) /\ holds[p] /\ fd[p] # 0
  BY DEF Listen, CreateWindow, Start, Stop, ReleaseSocket, LeaveLoop, InCharge, LockInv
<1>2. UNCHANGED <<kind, fd, holds, lockFile>>
  BY DEF Listen, CreateWindow, Start, Stop, ReleaseSocket, LeaveLoop, locks
<1>3. \A q \in Proc : InCharge(q) => q = p
  BY <1>1 DEF LockInv
<1>4. CASE Listen(p) \/ CreateWindow(p)
  <2>1. /\ pc[p] = "mine" /\ pc' = [pc EXCEPT ![p] = "start"]
        /\ sock' = p /\ listening' = [listening EXCEPT ![p] = TRUE]
    BY <1>4 DEF Listen, CreateWindow, Set, Goto
  <2> QED
    BY <1>1, <1>2, <1>3, <2>1 DEF Types, LockInv, Calm, InCharge, Reachable, Posix
<1>5. CASE Start(p)
  BY <1>1, <1>2, <1>3, <1>5 DEF Start, Goto, sockets, Types, LockInv, Calm, InCharge,
     Reachable, Posix
<1>6. CASE Stop(p)
  BY <1>1, <1>2, <1>3, <1>6 DEF Stop, Goto, sockets, Types, LockInv, Calm, InCharge, Reachable,
     Posix
<1>7. CASE ReleaseSocket(p) \/ LeaveLoop(p)
  <2>1. /\ pc[p] = "stopped" /\ listening' = [listening EXCEPT ![p] = FALSE]
        /\ pc' = [pc EXCEPT ![p] = "unlock"] \/ pc' = [pc EXCEPT ![p] = "release"]
    BY <1>7 DEF ReleaseSocket, LeaveLoop, Set, Goto
  <2>2. \A q \in Proc : q # p => pc[q] \notin {"start", "serve"}
    BY <1>3 DEF InCharge
  <2> QED
    BY <1>1, <1>2, <1>3, <2>1, <2>2 DEF Types, LockInv, Calm, InCharge, Reachable, Posix
<1> QED
  BY <1>4, <1>5, <1>6, <1>7

(* The lock is given up, and then the file removed, unless it is another's. *)
LEMMA LeavingKeeps ==
  ASSUME Types, LockInv, NEW p \in Proc, ~raced',
         Unlock(p) \/ UnlinkLock(p) \/ AtExit(p) \/ ReleaseMutex(p)
  PROVE  LockInv'
<1>1. CASE Unlock(p) \/ ReleaseMutex(p)
  <2>1. /\ pc[p] \in {"unlock", "release"}
        /\ pc' = [pc EXCEPT ![p] = "unlink"] \/ pc' = [pc EXCEPT ![p] = "done"]
        /\ holds' = [holds EXCEPT ![p] = FALSE] /\ fd' = [fd EXCEPT ![p] = 0]
        /\ UNCHANGED <<kind, lockFile, listening, sock>>
    BY <1>1 DEF Unlock, ReleaseMutex, sockets, Set, Goto
  <2> QED
    BY <2>1 DEF Types, LockInv, Calm, InCharge, Reachable, Posix
<1>2. CASE UnlinkLock(p)
  <2>1. /\ pc[p] = "unlink" /\ lockFile' = 0 /\ UNCHANGED <<kind, fd, holds, listening, sock>>
        /\ \A q \in Proc : q # p /\ lockFile # 0 => fd[q] # lockFile
    BY <1>2 DEF UnlinkLock, sockets
  <2>2. fd[p] = 0
    BY <2>1 DEF LockInv, Calm
  <2>3. \A q \in Proc : Posix(q) => fd[q] = 0
    BY <2>1, <2>2 DEF LockInv
  <2>4. pc' = [pc EXCEPT ![p] = "atexit"] \/ pc' = [pc EXCEPT ![p] = "done"]
    BY <1>2 DEF UnlinkLock, Goto
  <2> QED
    BY <2>1, <2>2, <2>3, <2>4 DEF Types, LockInv, Calm, InCharge, Reachable, Posix
<1>3. CASE AtExit(p)
  <2>1. /\ pc[p] = "atexit" /\ sock = 0 /\ sock' = 0 /\ pc' = [pc EXCEPT ![p] = "done"]
        /\ UNCHANGED <<kind, fd, holds, lockFile, listening>>
    BY <1>3 DEF AtExit, Goto, locks
  <2>2. fd[p] = 0
    BY <2>1 DEF LockInv, Calm
  <2> QED
    BY <2>1, <2>2, CalmKeeps DEF Calm
<1> QED
  BY <1>1, <1>2, <1>3

(* On Windows: the mutex has one owner. *)
LEMMA MutexKeeps ==
  ASSUME Types, LockInv, NEW p \in Proc, CreateMutexW(p) \/ WaitForMutex(p) \/ FindWindowW(p)
  PROVE  LockInv'
<1>1. CASE CreateMutexW(p)
  <2>1. /\ pc[p] = "lock" /\ ~Posix(p) /\ fd' = [fd EXCEPT ![p] = 1]
        /\ UNCHANGED <<kind, lockFile, listening, sock>>
    BY <1>1 DEF CreateMutexW, Set, sockets
  <2>2. fd[p] = 0 /\ ~holds[p]
    BY <2>1 DEF LockInv, Calm
  <2>3. CASE \E q \in Proc : fd[q] # 0
    <3>1. pc' = [pc EXCEPT ![p] = "wait"] /\ holds' = holds
      BY <1>1, <2>3 DEF CreateMutexW, Goto
    <3> QED
      BY <2>1, <2>2, <3>1 DEF Types, LockInv, Calm, InCharge, Reachable, Posix
  <2>4. CASE ~\E q \in Proc : fd[q] # 0
    <3>1. pc' = [pc EXCEPT ![p] = "mine"] /\ holds' = [holds EXCEPT ![p] = TRUE]
      BY <1>1, <2>4 DEF CreateMutexW, Goto, Set
    <3>2. \A q \in Proc : ~holds[q]
      BY <2>4 DEF LockInv
    <3> QED
      BY <2>1, <2>2, <3>1, <3>2 DEF Types, LockInv, Calm, InCharge, Reachable, Posix
  <2> QED
    BY <2>3, <2>4
<1>2. CASE WaitForMutex(p)
  <2> DEFINE owned == \E q \in Proc : holds[q]
  <2>1. /\ pc[p] = "wait" /\ holds' = [holds EXCEPT ![p] = ~owned]
        /\ pc' = [pc EXCEPT ![p] = "mine"] \/ pc' = [pc EXCEPT ![p] = "busy"]
        /\ pc' = [pc EXCEPT ![p] = "mine"] => ~owned
        /\ UNCHANGED <<kind, fd, lockFile, listening, sock>>
    <3>1. /\ pc[p] = "wait" /\ holds' = [holds EXCEPT ![p] = ~owned]
          /\ pc' = [pc EXCEPT ![p] = IF ~owned /\ abandoned THEN "mine" ELSE "busy"]
          /\ UNCHANGED <<kind, fd, lockFile, listening, sock>>
      BY <1>2 DEF WaitForMutex, Set, Goto, sockets
    <3> QED
      BY <3>1 DEF Types
  <2>2. ~Posix(p) /\ fd[p] # 0
    BY <2>1 DEF Types, FitsBuild, LockInv
  <2>3. owned \in BOOLEAN /\ (~owned => \A q \in Proc : ~holds[q])
    OBVIOUS
  <2> HIDE DEF owned
  <2>4. owned => holds' = [holds EXCEPT ![p] = FALSE]
    BY <2>1, <2>3
  <2>5. ~owned => holds' = [holds EXCEPT ![p] = TRUE]
    BY <2>1, <2>3
  <2>6. CASE owned
    BY <2>1, <2>2, <2>4, <2>6 DEF Types, LockInv, Calm, InCharge, Reachable, Posix
  <2>7. CASE ~owned
    BY <2>1, <2>2, <2>3, <2>5, <2>7 DEF Types, LockInv, Calm, InCharge, Reachable, Posix
  <2> QED
    BY <2>6, <2>7
<1>3. CASE FindWindowW(p)
  <2>1. CASE Gone(p)
    BY <1>3, <2>1, GoneKeeps DEF FindWindowW
  <2>2. CASE ~Gone(p)
    <3>1. UNCHANGED <<kind, pc, fd, holds, lockFile, listening, sock>>
      BY <1>3, <2>2 DEF FindWindowW
    <3> QED
      BY <3>1 DEF LockInv, InCharge, Reachable, Posix
  <2> QED
    BY <2>1, <2>2
<1> QED
  BY <1>1, <1>2, <1>3

(* Every step keeps it, until an unlink is late. *)
LEMMA LockNext ==
  ASSUME Types, LockInv, NEW p \in Proc, Step(p), ~raced'
  PROVE  LockInv'
<1>1. CASE CalmStep(p)
  BY <1>1, CalmSteps
<1>2. CASE OpenLock(p) \/ TryLock(p)
  BY <1>2, OpenLockKeeps, TryLockKeeps
<1>3. CASE Listen(p) \/ CreateWindow(p) \/ Start(p) \/ Stop(p) \/ ReleaseSocket(p) \/ LeaveLoop(p)
  BY <1>3, ChargeKeeps
<1>4. CASE Unlock(p) \/ UnlinkLock(p) \/ AtExit(p) \/ ReleaseMutex(p)
  BY <1>4, LeavingKeeps
<1>5. CASE CreateMutexW(p) \/ WaitForMutex(p) \/ FindWindowW(p)
  BY <1>5, MutexKeeps
<1>6. CASE StartFails(p) \/ Crash(p)
  BY <1>6, GoneKeeps DEF StartFails, Crash
<1>7. CASE ListenerTakes(p) \/ UserQuits(p)
  <2>1. UNCHANGED <<kind, pc, fd, holds, lockFile, listening, sock>>
    BY <1>7 DEF ListenerTakes, UserQuits, locks, sockets
  <2> QED
    BY <2>1 DEF LockInv, InCharge, Reachable, Posix
<1> QED
  BY <1>1, <1>2, <1>3, <1>4, <1>5, <1>6, <1>7 DEF Step, Main, OnPosix, OnWindows, CalmStep

(* A late unlink is not forgotten. *)
LEMMA RacedStays ==
  ASSUME NEW p \in Proc, Step(p)
  PROVE  (raced => raced') /\ (clash => clash')
<1>1. raced => raced'
  BY DEF Step, Launch, ListenerTakes, UserQuits, Crash, Main, Configure, OnPosix, OnWindows,
     Load, SaveOpens,
         SaveWrites, SaveRenames, Override, Proceed, OpenLock, TryLock, Supersede, Forward, KillServer, Listen,
         ReleaseSocket, Unlock, UnlinkLock, AtExit, CreateMutexW, WaitForMutex, FindWindowW, PostKill,
         CreateWindow, LeaveLoop, ReleaseMutex, Start, StartFails, Stop
<1>2. UNCHANGED config => clash' = clash
  BY DEF config
<1>3. CASE Load(p) \/ SaveOpens(p)
  BY <1>1, <1>3 DEF Load, SaveOpens
<1>4. CASE SaveWrites(p) \/ SaveRenames(p) \/ Override(p) \/ Proceed(p)
  BY <1>1, <1>4 DEF SaveWrites, SaveRenames, Override, Proceed
<1>5. CASE Crash(p) \/ StartFails(p) \/ FindWindowW(p)
  BY <1>1, <1>5 DEF Crash, StartFails, FindWindowW
<1>6. CASE UNCHANGED config
  BY <1>1, <1>2, <1>6
<1>7. CASE Launch(p) \/ ListenerTakes(p) \/ UserQuits(p) \/ Start(p) \/ Stop(p)
  BY <1>6, <1>7 DEF Launch, ListenerTakes, UserQuits, Start, Stop
<1>8. CASE OpenLock(p) \/ TryLock(p) \/ Supersede(p) \/ Forward(p) \/ KillServer(p) \/ Listen(p)
  BY <1>6, <1>8 DEF OpenLock, TryLock, Supersede, Forward, KillServer, Listen
<1>9. CASE ReleaseSocket(p) \/ Unlock(p) \/ UnlinkLock(p) \/ AtExit(p)
  BY <1>6, <1>9 DEF ReleaseSocket, Unlock, UnlinkLock, AtExit
<1>10. CASE CreateMutexW(p) \/ WaitForMutex(p) \/ PostKill(p) \/ CreateWindow(p) \/ LeaveLoop(p) \/ ReleaseMutex(p)
  BY <1>6, <1>10 DEF CreateMutexW, WaitForMutex, PostKill, CreateWindow, LeaveLoop, ReleaseMutex
<1> QED
  BY <1>3, <1>4, <1>5, <1>7, <1>8, <1>9, <1>10 DEF Step, Main, Configure, OnPosix, OnWindows

-----------------------------------------------------------------------------
(* Whose identity it is.                                                   *)

Early == {"off", "load", "done"}

(* A step that saves nothing *)
LEMMA IdentityKeeps ==
  ASSUME UuidInv, NEW p \in Proc, NEW l \in Labels, pc \in [Proc -> Labels],
         pc' = [pc EXCEPT ![p] = l], UNCHANGED <<uuid, tmp, cfg, content>>,
         (wfd' = wfd /\ pc[p] # "write") \/ wfd' = [wfd EXCEPT ![p] = 0],
         l \in {"load", "done"} \/ (l \notin {"open", "write", "rename"} /\ pc[p] \notin Early /\ ~Saving(p)),
         announced' \subseteq announced \cup {uuid[p]},
         announced' = announced \/ (pc[p] \notin Early /\ ~Saving(p))
  PROVE  UuidInv'
<1>1. wfd'[p] = 0 /\ wfd' \in [Proc -> Inode \cup {0}] /\ \A q \in Proc \ {p} : wfd'[q] = wfd[q]
  BY DEF UuidInv, UuidTypes
<1>2. UuidTypes'
  BY <1>1 DEF UuidInv, UuidTypes
<1>3. pc'[p] = l /\ l \notin {"open", "write", "rename"} /\ \A q \in Proc \ {p} : pc'[q] = pc[q]
  OBVIOUS
<1>4. \A q \in Proc : /\ pc'[q] = "write" => wfd'[q] = tmp' /\ tmp' # 0
                      /\ pc'[q] = "rename" => tmp' # 0 /\ content'[tmp'] = uuid'[q]
                      /\ pc'[q] # "write" => wfd'[q] = 0
  BY <1>1, <1>3 DEF UuidInv
<1>5. \A q, r \in Proc : Writing(q)' /\ Writing(r)' => q = r
  BY <1>3 DEF UuidInv, Writing
<1>6. ASSUME cfg = 0
      PROVE  /\ announced' = {}
             /\ \A q \in Proc : pc'[q] \in {"off", "load", "done"} \/ (Saving(q)' /\ uuid'[q] # 0)
             /\ \A q, r \in Proc : Saving(q)' /\ Saving(r)' => q = r
  <2>1. pc[p] \in Early \/ Saving(p)
    BY <1>6 DEF UuidInv, Early
  <2> QED
    BY <1>3, <1>6, <2>1 DEF UuidInv, Saving
<1>7. ASSUME cfg # 0
      PROVE  /\ content'[cfg'] # 0 /\ announced' \subseteq {content'[cfg']}
             /\ \A q \in Proc : pc'[q] \in {"off", "load", "done"} \/ uuid'[q] = content'[cfg']
  <2>1. pc[p] \in Early \/ uuid[p] = content[cfg]
    BY <1>7 DEF UuidInv, Early
  <2> QED
    BY <1>3, <1>7, <2>1 DEF UuidInv, Early
<1>8. tmp' # 0 => tmp' # cfg'
  BY DEF UuidInv
<1>9. cfg' = cfg
  OBVIOUS
<1> QED
  BY <1>2, <1>4, <1>5, <1>6, <1>7, <1>8, <1>9 DEF UuidInv

(* Every step of a process but those that load and save *)
LEMMA OthersKeepIdentity ==
  ASSUME Types, UuidInv, NEW p \in Proc, Step(p),
         ~(Load(p) \/ SaveOpens(p) \/ SaveWrites(p) \/ SaveRenames(p) \/ Override(p))
  PROVE  UuidInv'
<1>1. UNCHANGED <<uuid, tmp, cfg, content>> /\ pc \in [Proc -> Labels]
  BY DEF Step, Launch, ListenerTakes, UserQuits, Crash, Main, Configure, OnPosix, OnWindows,
     Proceed, OpenLock,
         TryLock, Supersede, Forward, KillServer, Listen, ReleaseSocket, Unlock, UnlinkLock, AtExit, CreateMutexW,
         WaitForMutex, FindWindowW, PostKill, CreateWindow, LeaveLoop, ReleaseMutex, Start, StartFails, Stop,
         config, Types
<1>2. CASE Launch(p)
  BY <1>1, <1>2, IdentityKeeps DEF Launch, Goto, Labels, config
<1>3. CASE Proceed(p)
  BY <1>1, <1>3, IdentityKeeps DEF Proceed, Goto, Labels, Early, Saving
<1>4. CASE Gone(p) /\ announced' = announced
  BY <1>1, <1>4, IdentityKeeps DEF Gone, Goto, Labels, Set
<1>5. CASE pc' = pc /\ wfd' = wfd /\ announced' = announced
  BY <1>1, <1>5 DEF UuidInv, UuidTypes, Writing, Saving
<1>6. CASE /\ wfd' = wfd /\ announced' = announced /\ pc[p] \notin Early /\ ~Saving(p)
           /\ \E l \in Labels \ {"open", "write", "rename"} : pc' = [pc EXCEPT ![p] = l]
  BY <1>1, <1>6, IdentityKeeps DEF Saving
<1>7. CASE TryLock(p)
  <2>1. Refused(p) \in {"busy", "done", "retry"}
    BY DEF Refused, Types
  <2>2. \E l \in {"mine", "busy", "done", "retry"} : pc' = [pc EXCEPT ![p] = l]
    BY <1>7, <2>1 DEF TryLock, Goto
  <2> QED
    BY <1>6, <1>7, <2>2 DEF TryLock, Early, Saving, Labels, config
<1>8. CASE \/ OpenLock(p) \/ Supersede(p) \/ Forward(p) \/ KillServer(p) \/ Listen(p)
           \/ ReleaseSocket(p) \/ Unlock(p) \/ UnlinkLock(p) \/ AtExit(p) \/ Start(p) \/ Stop(p)
  <2>1. wfd' = wfd /\ announced' = announced /\ pc[p] \notin Early /\ ~Saving(p)
    BY <1>8 DEF OpenLock, Supersede, Forward, KillServer, Listen, ReleaseSocket, Unlock,
       UnlinkLock, AtExit,
                Start, Stop, Early, Saving, config
  <2>2. \E l \in Labels \ {"open", "write", "rename"} : pc' = [pc EXCEPT ![p] = l]
    BY <1>8 DEF OpenLock, Supersede, Forward, KillServer, Listen, ReleaseSocket, Unlock,
       UnlinkLock, AtExit,
                Start, Stop, Goto, Labels
  <2> QED
    BY <1>6, <2>1, <2>2
<1>9. CASE CreateMutexW(p) \/ WaitForMutex(p) \/ PostKill(p) \/ CreateWindow(p) \/ LeaveLoop(p) \/ ReleaseMutex(p)
  <2>1. wfd' = wfd /\ announced' = announced /\ pc[p] \notin Early /\ ~Saving(p)
    BY <1>9 DEF CreateMutexW, WaitForMutex, PostKill, CreateWindow, LeaveLoop, ReleaseMutex,
       Early, Saving, config
  <2>2. \E l \in Labels \ {"open", "write", "rename"} : pc' = [pc EXCEPT ![p] = l]
    BY <1>9 DEF CreateMutexW, WaitForMutex, PostKill, CreateWindow, LeaveLoop, ReleaseMutex,
       Goto, Labels
  <2> QED
    BY <1>6, <2>1, <2>2
<1>10. CASE FindWindowW(p) \/ StartFails(p) \/ Crash(p)
  BY <1>4, <1>5, <1>10 DEF FindWindowW, StartFails, Crash
<1>11. CASE ListenerTakes(p) \/ UserQuits(p)
  BY <1>5, <1>11 DEF ListenerTakes, UserQuits, config
<1> QED
  BY <1>2, <1>3, <1>7, <1>8, <1>9, <1>10, <1>11 DEF Step, Main, Configure, OnPosix, OnWindows

(* Load finds the identity, or there is none yet and nobody else makes one. *)
LEMMA LoadKeeps ==
  ASSUME Types, UuidInv, NEW p \in Proc, Load(p), ~clash'
  PROVE  UuidInv'
<1>1. pc[p] = "load" /\ UNCHANGED <<wfd, tmp, cfg, content, announced>> /\ wfd[p] = 0
  BY DEF Load, UuidInv
<1>2. CASE cfg = 0
  <2>1. /\ uuid' = [uuid EXCEPT ![p] = p] /\ pc' = [pc EXCEPT ![p] = "open"]
        /\ \A q \in Proc : ~Saving(q)
    BY <1>2 DEF Load, Set, Goto
  <2>2. p \in Nat /\ p # 0
    BY Numbers
  <2>3. uuid' \in [Proc -> Nat]
    BY <2>1, <2>2 DEF UuidInv, UuidTypes
  <2> QED
    BY <1>1, <1>2, <2>1, <2>2, <2>3 DEF UuidInv, UuidTypes, Writing, Saving, Types
<1>3. CASE cfg # 0
  <2>1. content[cfg] # 0 /\ content[cfg] \in Nat
    BY <1>3 DEF UuidInv, UuidTypes
  <2>2. uuid' = [uuid EXCEPT ![p] = content[cfg]] /\ pc' = [pc EXCEPT ![p] = "args"]
    BY <1>3, <2>1 DEF Load, Set, Goto
  <2>3. uuid' \in [Proc -> Nat]
    BY <2>1, <2>2 DEF UuidInv, UuidTypes
  <2> QED
    BY <1>1, <1>3, <2>1, <2>2, <2>3 DEF UuidInv, UuidTypes, Writing, Saving, Types
<1> QED
  BY <1>2, <1>3

(* The command line changes other settings: the identity is saved as it is. *)
LEMMA OverrideKeeps ==
  ASSUME Types, UuidInv, NEW p \in Proc, Override(p)
  PROVE  UuidInv'
<1>1. /\ pc[p] = "args" /\ pc' = [pc EXCEPT ![p] = "open"] /\ announced' = announced \cup {uuid[p]}
      /\ UNCHANGED <<uuid, wfd, tmp, cfg, content>>
  BY DEF Override, Goto
<1>2. cfg # 0
  BY <1>1 DEF UuidInv, Saving
<1>3. uuid[p] = content[cfg] /\ wfd[p] = 0
  BY <1>1, <1>2 DEF UuidInv
<1> QED
  BY <1>1, <1>2, <1>3 DEF UuidInv, UuidTypes, Writing, Saving, Types

(* The file that is opened is not the one in use. *)
LEMMA SaveOpensKeeps ==
  ASSUME Types, UuidInv, NEW p \in Proc, SaveOpens(p), ~clash'
  PROVE  UuidInv'
<1>1. pc[p] = "open" /\ (\A q \in Proc : ~Writing(q)) /\ UNCHANGED <<uuid, cfg, announced>>
  BY DEF SaveOpens, Writing
<1>2. \A q \in Proc : wfd[q] = 0
  BY <1>1 DEF UuidInv, Writing
<1>3. /\ pc' = [pc EXCEPT ![p] = "write"] /\ tmp' = Temp /\ wfd' = [wfd EXCEPT ![p] = Temp]
      /\ content' = [content EXCEPT ![Temp] = 0]
  BY <1>2 DEF SaveOpens, Goto, Set
<1>4. Temp \in Inode /\ Temp # cfg
  <2>1. CASE tmp # 0
    BY <2>1 DEF Temp, UuidInv, UuidTypes
  <2>2. CASE tmp = 0
    <3> DEFINE used == {cfg} \cup {wfd[q] : q \in Proc}
    <3>1. \E x \in Inode : x \notin used
      BY <1>2, Numbers
    <3>2. cfg \in used
      OBVIOUS
    <3> HIDE DEF used
    <3>3. Free(used) \in Inode /\ Free(used) \notin used
      BY <3>1, FreeFits
    <3>4. Temp = Free(used)
      BY <2>2 DEF Temp, used
    <3> QED
      BY <3>2, <3>3, <3>4
  <2> QED
    BY <2>1, <2>2
<1> DEFINE t == Temp
<1>5. t \in Inode /\ t # cfg /\ t # 0
  BY <1>4, Numbers
<1>6. /\ pc' = [pc EXCEPT ![p] = "write"] /\ tmp' = t /\ wfd' = [wfd EXCEPT ![p] = t]
      /\ content' = [content EXCEPT ![t] = 0]
  BY <1>3
<1> HIDE DEF t
<1>7. UuidTypes'
  BY <1>1, <1>5, <1>6 DEF UuidInv, UuidTypes
<1>8. \A q \in Proc : /\ pc'[q] = "write" => wfd'[q] = tmp' /\ tmp' # 0
                      /\ pc'[q] = "rename" => tmp' # 0 /\ content'[tmp'] = uuid'[q]
                      /\ pc'[q] # "write" => wfd'[q] = 0
  BY <1>1, <1>2, <1>5, <1>6 DEF UuidInv, UuidTypes, Writing, Types
<1>9. cfg # 0 => content'[cfg] = content[cfg]
  BY <1>5, <1>6 DEF UuidInv, UuidTypes
<1>10. \A q, r \in Proc : Writing(q)' /\ Writing(r)' => q = r
  BY <1>1, <1>6 DEF Writing, Types
<1>11. \A q \in Proc : Saving(q)' => Saving(q)
  BY <1>1, <1>6 DEF Saving, Types
<1>12. ASSUME cfg' = 0
      PROVE  /\ announced' = {}
             /\ \A q \in Proc : pc'[q] \in {"off", "load", "done"} \/ (Saving(q)' /\ uuid'[q] # 0)
             /\ \A q, r \in Proc : Saving(q)' /\ Saving(r)' => q = r
  BY <1>1, <1>6, <1>11, <1>12 DEF UuidInv, Saving, Types
<1>13. ASSUME cfg' # 0
      PROVE  /\ content'[cfg'] # 0 /\ announced' \subseteq {content'[cfg']}
             /\ \A q \in Proc : pc'[q] \in {"off", "load", "done"} \/ uuid'[q] = content'[cfg']
  BY <1>1, <1>6, <1>9, <1>13 DEF UuidInv, Types
<1> QED
  BY <1>1, <1>5, <1>6, <1>7, <1>8, <1>10, <1>12, <1>13 DEF UuidInv

(* Only the temporary file is written. *)
LEMMA SaveWritesKeeps ==
  ASSUME Types, UuidInv, NEW p \in Proc, SaveWrites(p)
  PROVE  UuidInv'
<1> DEFINE t == wfd[p]
<1>1. /\ pc[p] = "write" /\ t = tmp /\ t # 0 /\ t # cfg /\ t \in Inode /\ uuid[p] \in Nat
      /\ pc' = [pc EXCEPT ![p] = "rename"] /\ wfd' = [wfd EXCEPT ![p] = 0]
      /\ content' = [content EXCEPT ![t] = uuid[p]] /\ UNCHANGED <<uuid, tmp, cfg, announced>>
  BY DEF SaveWrites, Goto, Set, UuidInv, UuidTypes
<1> HIDE DEF t
<1>2. \A q \in Proc : Writing(q) <=> q = p
  BY <1>1 DEF UuidInv, Writing
<1>3. UuidTypes'
  BY <1>1 DEF UuidInv, UuidTypes
<1>4. content'[tmp] = uuid[p] /\ (cfg # 0 => content'[cfg] = content[cfg])
  BY <1>1 DEF UuidInv, UuidTypes
<1>5. \A q \in Proc : /\ pc'[q] = "write" => wfd'[q] = tmp' /\ tmp' # 0
                      /\ pc'[q] = "rename" => tmp' # 0 /\ content'[tmp'] = uuid'[q]
                      /\ pc'[q] # "write" => wfd'[q] = 0
  BY <1>1, <1>2, <1>4 DEF UuidInv, UuidTypes, Writing, Types
<1>6. \A q, r \in Proc : Writing(q)' /\ Writing(r)' => q = r
  BY <1>1, <1>2 DEF Writing, Types
<1>7. \A q \in Proc : Saving(q)' <=> Saving(q)
  BY <1>1 DEF Saving, Types
<1>8. ASSUME cfg' = 0
      PROVE  /\ announced' = {}
             /\ \A q \in Proc : pc'[q] \in {"off", "load", "done"} \/ (Saving(q)' /\ uuid'[q] # 0)
             /\ \A q, r \in Proc : Saving(q)' /\ Saving(r)' => q = r
  BY <1>1, <1>7, <1>8 DEF UuidInv, Types
<1>9. ASSUME cfg' # 0
      PROVE  /\ content'[cfg'] # 0 /\ announced' \subseteq {content'[cfg']}
             /\ \A q \in Proc : pc'[q] \in {"off", "load", "done"} \/ uuid'[q] = content'[cfg']
  BY <1>1, <1>4, <1>9 DEF UuidInv, Types
<1> QED
  BY <1>1, <1>3, <1>5, <1>6, <1>8, <1>9 DEF UuidInv

(* The file that is renamed is whole, and has the identity that was there. *)
LEMMA SaveRenamesKeeps ==
  ASSUME Types, UuidInv, NEW p \in Proc, SaveRenames(p)
  PROVE  UuidInv'
<1>1. pc[p] = "rename" /\ tmp # 0 /\ content[tmp] = uuid[p] /\ wfd[p] = 0 /\ tmp \in Inode
  BY DEF SaveRenames, UuidInv, UuidTypes
<1>2. cfg' = tmp /\ tmp' = 0 /\ UNCHANGED <<uuid, wfd, content, announced>>
  BY <1>1 DEF SaveRenames
<1>3. PICK l \in {"args", "lock", "last", "retry"} : pc' = [pc EXCEPT ![p] = l]
  BY DEF SaveRenames, Goto, Types
<1>4. \A q \in Proc : Writing(q) <=> q = p
  BY <1>1 DEF UuidInv, Writing
<1>5. \A q \in Proc : ~Writing(q)' /\ wfd'[q] = 0
  BY <1>1, <1>2, <1>3, <1>4 DEF UuidInv, Writing, Types
<1>6. UuidTypes' /\ cfg' # 0
  BY <1>1, <1>2 DEF UuidInv, UuidTypes
<1>7. /\ content'[cfg'] # 0 /\ announced' \subseteq {content'[cfg']}
      /\ \A q \in Proc : pc'[q] \in {"off", "load", "done"} \/ uuid'[q] = content'[cfg']
  <2>1. CASE cfg = 0
    <3>1. Saving(p)
      BY <1>1 DEF Saving
    <3>2. uuid[p] # 0 /\ announced = {} /\ \A q \in Proc \ {p} : pc[q] \in {"off", "load", "done"}
      BY <1>1, <2>1, <3>1 DEF UuidInv
    <3> QED
      BY <1>1, <1>2, <1>3, <3>2 DEF Types
  <2>2. CASE cfg # 0
    <3>1. uuid[p] = content[cfg]
      BY <1>1, <2>2 DEF UuidInv
    <3> QED
      BY <1>1, <1>2, <1>3, <2>2, <3>1 DEF UuidInv, Types
  <2> QED
    BY <2>1, <2>2
<1>8. \A q \in Proc : pc'[q] # "write" /\ pc'[q] # "rename"
  BY <1>5 DEF Writing
<1> QED
  BY <1>2, <1>5, <1>6, <1>7, <1>8 DEF UuidInv

(* Every step keeps it, until two saves overlap. *)
LEMMA UuidNext ==
  ASSUME Types, UuidInv, NEW p \in Proc, Step(p), ~clash'
  PROVE  UuidInv'
BY OthersKeepIdentity, LoadKeeps, OverrideKeeps, SaveOpensKeeps, SaveWritesKeeps,
   SaveRenamesKeeps

-----------------------------------------------------------------------------
(* Nothing runs at the start; the configuration, if there is one, is whole. *)
LEMMA StartupInit ==
  ASSUME Init
  PROVE  Inv
<1>1. PICK h \in Histories : kind = h.programs /\ cfg = (IF h.installed THEN 1 ELSE 0)
  BY DEF Init
<1>2. /\ h.programs \in [Proc -> Kinds] /\ h.installed \in BOOLEAN
      /\ \A p, q \in Proc : h.programs[p] = "win32" => h.programs[q] \in {"win32", "none"}
  BY StartupAssumption DEF StartupAssumption
<1>3. Types
  BY <1>1, <1>2 DEF Init, Types, Labels, FitsBuild
<1>4. LockInv
  BY DEF Init, LockInv, InCharge, Reachable
<1>5. UuidInv
  <2>1. cfg \in {0, 1} /\ 1 \in Inode
    BY <1>1, <1>2, Numbers
  <2>2. content = [i \in Inode |-> cfg] /\ cfg \in Nat
    BY <2>1 DEF Init
  <2>3. cfg # 0 => content[cfg] = 1
    BY <2>1, <2>2
  <2>4. UuidTypes
    BY <2>1, <2>2 DEF Init, UuidTypes
  <2> QED
    BY <2>1, <2>3, <2>4 DEF Init, UuidInv, Writing, Saving
<1> QED
  BY <1>3, <1>4, <1>5 DEF Inv

(* Every step keeps the invariant. *)
LEMMA StartupNext ==
  ASSUME Inv, [Next]_vars
  PROVE  Inv'
<1>1. CASE Next
  <2>1. PICK p \in Proc : Step(p)
    BY <1>1 DEF Next, Step
  <2>2. Types /\ (raced \/ LockInv) /\ (clash \/ UuidInv)
    BY DEF Inv
  <2>3. Types'
    BY <2>1, <2>2, TypesNext
  <2>4. raced' \/ LockInv'
    BY <2>1, <2>2, LockNext, RacedStays
  <2>5. clash' \/ UuidInv'
    BY <2>1, <2>2, UuidNext, RacedStays
  <2> QED
    BY <2>3, <2>4, <2>5 DEF Inv
<1>2. CASE UNCHANGED vars
  <2>1. UNCHANGED <<kind, pc, then, fd, holds, lockFile, listening, sock, raced, clash, cfg, tmp, wfd, content,
                    uuid, announced>>
    BY <1>2 DEF vars, locks, sockets, config
  <2>2. Types'
    BY <2>1 DEF Inv, Types, FitsBuild, Posix
  <2>3. raced' \/ LockInv'
    BY <2>1 DEF Inv, LockInv, InCharge, Reachable, Posix
  <2>4. clash' \/ UuidInv'
    BY <2>1 DEF Inv, UuidInv, UuidTypes, Writing, Saving
  <2> QED
    BY <2>2, <2>3, <2>4 DEF Inv
<1> QED
  BY <1>1, <1>2

(* The invariant holds in every state of every execution. *)
THEOREM StartupInvHolds == Spec => []Inv
<1>1. Init => Inv
  BY StartupInit
<1>2. Inv /\ [Next]_vars => Inv'
  BY StartupNext
<1> QED
  BY <1>1, <1>2, PTL DEF Spec

(* However processes are launched, end or crash, one at most goes on as the *)
(* server, and later launches find it, until ReleaseLock of one that leaves *)
(* removes what is another's by then.                                       *)
THEOREM OneStaysInCharge == Spec => []OneIsInCharge
<1>1. LockInv => OneServes /\ Reachable
  BY DEF LockInv, OneServes
<1>2. Inv => OneIsInCharge
  BY <1>1 DEF Inv, OneIsInCharge
<1> QED
  BY <1>2, StartupInvHolds, PTL

(* No launch and no crash, in the middle of Config::Save included, gives    *)
(* the device a second UUID, unless two processes save at once.  What the   *)
(* sources become on the way is a computation on fixed texts.               *)
THEOREM UuidStaysTheSame == Spec => [](SourcesAreKept => UuidStays)
<1>1. ASSUME UuidInv
      PROVE  Cardinality(announced) <= 1
  <2>1. \E x \in Nat : announced \subseteq {x}
    BY <1>1 DEF UuidInv, UuidTypes
  <2>2. PICK x \in Nat : announced \subseteq {x}
    BY <2>1
  <2>3. IsFiniteSet({x}) /\ Cardinality({x}) = 1
    BY FS_Singleton
  <2> QED
    BY <2>2, <2>3, FS_Subset
<1>2. Inv => (SourcesAreKept => UuidStays)
  BY <1>1 DEF Inv, UuidStays
<1> QED
  BY <1>2, StartupInvHolds, PTL

=============================================================================
