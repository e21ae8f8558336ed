--------------------------- MODULE ServerElection ---------------------------
(***************************************************************************)
(* How the ocvm processes of a host agree on who relays modem packets.       *)
(* Each process runs a ModemDriver (drivers/modem_drv.cpp) that dials the     *)
(* system port; when nobody answers it tries to become the server:           *)
(* FileLock::create on the well-known path, then a listening socket and a     *)
(* ServerPool thread (drivers/server_pool.cpp).  The sockets use              *)
(* SO_REUSEPORT, so only the file lock keeps a second server away.            *)
(*                                                                           *)
(* One step is one system call on what processes share (the directory entry,  *)
(* the flock, the sockets).  Crashes, shutdowns, failing binds and failing    *)
(* accepts are faults, counted by budgets so that behaviours settle.          *)
(***************************************************************************)
EXTENDS Naturals, FiniteSets

CONSTANTS
  Procs,
  Inodes,        \* more than Procs: a free one is there for every O_CREAT
  None,
  MaxReleases,   \* bound: shutdowns and failed binds, which run ~FileLock
  MaxFaults      \* bound: killed processes, failed accepts, failed dials

ASSUME ElectionAssumption ==
  /\ IsFiniteSet(Procs) /\ IsFiniteSet(Inodes)
  /\ Cardinality(Inodes) > Cardinality(Procs)
  /\ None \notin Procs \cup Inodes
  /\ MaxReleases \in Nat /\ MaxFaults \in Nat

VARIABLES
  path,       \* the inode the lock's path leads to, or None
  holder,     \* for each inode, the process whose flock on it was granted
  fd,         \* the inode a process has open as its lock file, or None
  pc,         \* where the driver's thread stands, "off" without a driver
  conn,       \* state of _connection, "none" for nullptr
  link,       \* the server process the connection leads to, None when dead
  accepted,   \* processes whose connection their server has accepted
  listening,  \* processes with a listening socket
  pool,       \* _local_server: "none", "up", or "ended" when its thread is over
  releases, faults

lockVars == <<path, holder, fd>>
netVars  == <<conn, link, accepted, listening, pool>>
vars     == <<lockVars, netVars, pc, releases, faults>>

TypeOK ==
  /\ path \in Inodes \cup {None}
  /\ holder \in [Inodes -> Procs \cup {None}]
  /\ fd \in [Procs -> Inodes \cup {None}]
  /\ pc \in [Procs -> {"off", "loop", "flock", "bind", "unlock", "unlink",
                       "stopUnlock", "stopUnlink"}]
  /\ conn \in [Procs -> {"none", "Starting", "Failed", "Ready", "Finished"}]
  /\ link \in [Procs -> Procs \cup {None}]
  /\ accepted \subseteq Procs
  /\ listening \subseteq Procs
  /\ pool \in [Procs -> {"none", "up", "ended"}]
  /\ releases \in 0..MaxReleases /\ faults \in 0..MaxFaults

Init ==
  /\ path = None
  /\ holder = [i \in Inodes |-> None]
  /\ fd = [p \in Procs |-> None]
  /\ pc = [p \in Procs |-> "off"]
  /\ conn = [p \in Procs |-> "none"]
  /\ link = [p \in Procs |-> None]
  /\ accepted = {}
  /\ listening = {}
  /\ pool = [p \in Procs |-> "none"]
  /\ releases = 0 /\ faults = 0

Goto(p, from, to) == pc[p] = from /\ pc' = [pc EXCEPT ![p] = to]

faultsUnchanged == UNCHANGED <<releases, faults>>

-----------------------------------------------------------------------------
(* ModemDriver: start(), and runOnce while there is a driver *)

Start(p) ==
  /\ Goto(p, "off", "loop")
  /\ UNCHANGED <<lockVars, netVars>> /\ faultsUnchanged

\* No connection: a new one, dialing on its own thread.
Dial(p) ==
  /\ pc[p] = "loop" /\ conn[p] = "none"
  /\ conn' = [conn EXCEPT ![p] = "Starting"]
  /\ UNCHANGED <<lockVars, pc, link, accepted, listening, pool>> /\ faultsUnchanged

\* async_open: the kernel hands the connection to one of the listening sockets,
\* before any accept.
Connected(p, s) ==
  /\ conn[p] = "Starting" /\ s \in listening
  /\ conn' = [conn EXCEPT ![p] = "Ready"]
  /\ link' = [link EXCEPT ![p] = s]
  /\ UNCHANGED <<lockVars, pc, accepted, listening, pool>> /\ faultsUnchanged

\* It fails: nobody listens, or for a reason of its own (a name that does not
\* resolve, no descriptor left), which is a fault.
DialFailed(p) ==
  /\ conn[p] = "Starting"
  /\ \/ listening = {} /\ UNCHANGED faults
     \/ listening # {} /\ faults < MaxFaults /\ faults' = faults + 1
  /\ conn' = [conn EXCEPT ![p] = "Failed"]
  /\ UNCHANGED <<lockVars, pc, link, accepted, listening, pool, releases>>

\* Failed: forget the connection, and without a local server make one, of which
\* the first step is ::open(O_CREAT) in FileLock::create.
OpenLockFile(p) ==
  /\ conn[p] = "Failed" /\ pool[p] = "none"
  /\ Goto(p, "loop", "flock")
  /\ conn' = [conn EXCEPT ![p] = "none"]
  /\ \E i \in Inodes :
       /\ IF path = None THEN \A q \in Procs : fd[q] # i ELSE i = path
       /\ path' = i
       /\ fd' = [fd EXCEPT ![p] = i]
  /\ UNCHANGED <<holder, link, accepted, listening, pool>> /\ faultsUnchanged

RetryWithLocalServer(p) ==
  /\ pc[p] = "loop" /\ conn[p] = "Failed" /\ pool[p] # "none"
  /\ conn' = [conn EXCEPT ![p] = "none"]
  /\ UNCHANGED <<lockVars, pc, link, accepted, listening, pool>> /\ faultsUnchanged

FlockGranted(p) ==
  /\ Goto(p, "flock", "bind")
  /\ holder[fd[p]] = None
  /\ holder' = [holder EXCEPT ![fd[p]] = p]
  /\ UNCHANGED <<path, fd, netVars>> /\ faultsUnchanged

\* Mutant: the refusal goes unnoticed.
FlockIgnored(p) ==
  /\ Goto(p, "flock", "bind")
  /\ holder[fd[p]] # None
  /\ UNCHANGED <<path, holder, fd, netVars>> /\ faultsUnchanged

\* Mutant: the loser, too, runs ~FileLock.
LoserUnlinks(p) ==
  /\ Goto(p, "flock", "loop")
  /\ holder[fd[p]] # None
  /\ fd' = [fd EXCEPT ![p] = None]
  /\ path' = None
  /\ UNCHANGED <<holder, netVars>> /\ faultsUnchanged

FlockDenied(p) ==
  /\ Goto(p, "flock", "loop")
  /\ holder[fd[p]] # None
  /\ fd' = [fd EXCEPT ![p] = None]
  /\ UNCHANGED <<path, holder, netVars>> /\ faultsUnchanged

\* socket, SO_REUSEPORT, bind, listen and the start of the pool's thread.
Listen(p) ==
  /\ Goto(p, "bind", "loop")
  /\ listening' = listening \cup {p}
  /\ pool' = [pool EXCEPT ![p] = "up"]
  /\ UNCHANGED <<lockVars, conn, link, accepted>> /\ faultsUnchanged

\* Mutant: the lock is not given back.
BindFailedKeepsLock(p) ==
  /\ Goto(p, "bind", "loop")
  /\ releases < MaxReleases /\ releases' = releases + 1
  /\ UNCHANGED <<lockVars, netVars, faults>>

\* No address could be bound: create() returns nullptr and its lock goes.
BindFailed(p) ==
  /\ Goto(p, "bind", "unlock")
  /\ releases < MaxReleases /\ releases' = releases + 1
  /\ UNCHANGED <<lockVars, netVars, faults>>

\* A read finds that the other end is gone.
LinkLost(p) ==
  /\ pc[p] = "loop" /\ conn[p] = "Ready" /\ link[p] = None
  /\ conn' = [conn EXCEPT ![p] = "Finished"]
  /\ UNCHANGED <<lockVars, pc, link, accepted, listening, pool>> /\ faultsUnchanged

\* Mutant: only a process with a server of its own drops the connection.
ForgetIfServing(p) ==
  /\ pc[p] = "loop" /\ conn[p] = "Finished" /\ pool[p] # "none"
  /\ conn' = [conn EXCEPT ![p] = "none"]
  /\ UNCHANGED <<lockVars, pc, link, accepted, listening, pool>> /\ faultsUnchanged

\* Finished: the next runOnce drops the connection.
Forget(p) ==
  /\ pc[p] = "loop" /\ conn[p] = "Finished"
  /\ conn' = [conn EXCEPT ![p] = "none"]
  /\ UNCHANGED <<lockVars, pc, link, accepted, listening, pool>> /\ faultsUnchanged

-----------------------------------------------------------------------------
(* ServerPool::runOnce, as far as connections go *)

Accept(s, p) ==
  /\ pool[s] = "up" /\ link[p] = s /\ p \notin accepted
  /\ accepted' = accepted \cup {p}
  /\ UNCHANGED <<lockVars, pc, conn, link, listening, pool>> /\ faultsUnchanged

\* accept fails with another error than EAGAIN: runOnce returns false, onStop
\* drops the connections and the thread ends.  The listening socket and
\* _local_server stay as they are.
AcceptFailed(s) ==
  /\ pool[s] = "up"
  /\ faults < MaxFaults /\ faults' = faults + 1
  /\ pool' = [pool EXCEPT ![s] = "ended"]
  /\ link' = [p \in Procs |-> IF link[p] = s /\ p \in accepted THEN None ELSE link[p]]
  /\ accepted' = {p \in accepted : link[p] # s}
  /\ UNCHANGED <<lockVars, pc, conn, listening, releases>>

-----------------------------------------------------------------------------
(* ~FileLock, and the end of a driver *)

\* After a failed bind.
Unlock(p) ==
  /\ Goto(p, "unlock", "unlink")
  /\ holder' = [holder EXCEPT ![fd[p]] = None]
  /\ fd' = [fd EXCEPT ![p] = None]
  /\ UNCHANGED <<path, netVars>> /\ faultsUnchanged

Unlink(p) ==
  /\ Goto(p, "unlink", "loop")
  /\ path' = None
  /\ UNCHANGED <<holder, fd, netVars>> /\ faultsUnchanged

\* The connection of process p, its listening socket and those it accepted.
CloseSockets(p) ==
  /\ conn' = [conn EXCEPT ![p] = "none"]
  /\ link' = [q \in Procs |-> IF q = p \/ link[q] = p THEN None ELSE link[q]]
  /\ accepted' = {q \in accepted \ {p} : link[q] # p}
  /\ listening' = listening \ {p}
  /\ pool' = [pool EXCEPT ![p] = "none"]

\* ModemDriver::onStop: the connection is dropped (joining its thread), the pool
\* is stopped with all its connections, and the listening socket is closed.
Stop(p) ==
  /\ conn[p] # "Starting"
  /\ Goto(p, "loop", IF pool[p] = "none" THEN "off" ELSE "stopUnlock")
  /\ releases < MaxReleases /\ releases' = releases + 1
  /\ CloseSockets(p)
  /\ UNCHANGED <<lockVars, faults>>

StopUnlock(p) ==
  /\ Goto(p, "stopUnlock", "stopUnlink")
  /\ holder' = [holder EXCEPT ![fd[p]] = None]
  /\ fd' = [fd EXCEPT ![p] = None]
  /\ UNCHANGED <<path, netVars>> /\ faultsUnchanged

StopUnlink(p) ==
  /\ Goto(p, "stopUnlink", "off")
  /\ path' = None
  /\ UNCHANGED <<holder, fd, netVars>> /\ faultsUnchanged

\* The process dies.  The kernel takes back its sockets and its flock; the file
\* stays where it is.
Crash(p) ==
  /\ pc[p] # "off"
  /\ faults < MaxFaults /\ faults' = faults + 1
  /\ pc' = [pc EXCEPT ![p] = "off"]
  /\ holder' = [i \in Inodes |-> IF holder[i] = p THEN None ELSE holder[i]]
  /\ fd' = [fd EXCEPT ![p] = None]
  /\ CloseSockets(p)
  /\ UNCHANGED <<path, releases>>

-----------------------------------------------------------------------------
Driver(p) ==
  \/ Dial(p) \/ (\E s \in Procs : Connected(p, s))
  \/ (listening = {} /\ DialFailed(p))
  \/ OpenLockFile(p) \/ RetryWithLocalServer(p)
  \/ FlockGranted(p) \/ FlockDenied(p) \/ Listen(p)
  \/ LinkLost(p) \/ Forget(p)
  \/ Unlock(p) \/ Unlink(p) \/ StopUnlock(p) \/ StopUnlink(p)

Pool(s) == \E p \in Procs : Accept(s, p)

Fault(p) == \/ (listening # {} /\ DialFailed(p)) \/ BindFailed(p)
            \/ AcceptFailed(p) \/ Stop(p) \/ Crash(p)

Next == \E p \in Procs : Start(p) \/ Driver(p) \/ Pool(p) \/ Fault(p)

Spec == Init /\ [][Next]_vars

\* The driver's and the pool's threads are scheduled.  Nothing is assumed of
\* when a process is started, stopped or killed.
FairSpec == Spec /\ \A p \in Procs : WF_vars(Driver(p)) /\ WF_vars(Pool(p))

-----------------------------------------------------------------------------
(* Properties *)

\* The aim of the lock: "we can only attempt to create the server if we only
\* [own] the file lock" (server_pool.cpp:17).
AtMostOneServer == \A p, q \in listening : p = q

\* "all modems on the same system port will act as if on the same network"
\* (client.cfg:30): the processes that are connected have the same server.
SameNetwork == \A p, q \in accepted : link[p] = link[q]

\* A process that listens owns the flock of the file it opened; and of the
\* servers there are, at most one owns the file others would find at the path.
ServersOwnTheirLock ==
  /\ \A p \in listening : fd[p] # None /\ holder[fd[p]] = p
  /\ \A p, q \in listening : fd[p] = path /\ fd[q] = path => p = q

\* While no server was ever released in an orderly way (killed processes do not
\* unlink the file), there is at most one.
OneServerUnlessReleased == releases = 0 => AtMostOneServer

\* A flock is never left behind: a process that is off, or that goes on without
\* a server, holds none.
NoForgottenLock ==
  \A i \in Inodes : holder[i] # None =>
    LET p == holder[i]
    IN fd[p] = i /\ (pc[p] \in {"bind", "unlock", "stopUnlock"} \/ pool[p] # "none")

\* Once the faults are over, every driver ends up with a connection its server
\* has accepted, and keeps it, unless a pool's thread ended by itself: such a
\* pool's socket still takes connections, and they are never accepted.
EveryoneServed ==
  <>[](\A p \in Procs : pc[p] # "off" => p \in accepted)
  \/ []<>(\E s \in Procs : pool[s] = "ended")
=============================================================================
