---------------------------- MODULE NetworkProofs ----------------------------
(***************************************************************************)
(* Safety of ServerElection for any set of processes and any number of       *)
(* faults.  A flock excludes others only among those who opened the same      *)
(* inode, so the argument is about who has which inode open: as long as       *)
(* nothing was released in an orderly way the path is never unlinked, all     *)
(* open descriptors name one inode, and its flock has one holder.             *)
(*                                                                         *)
(* Then InternetSockets, for any streams, amounts and bounds, and any size of *)
(* a buffer: whose descriptor a connection closes, and what Lua reads.  The    *)
(* invariant is of each stream by itself, the table of descriptors apart, so   *)
(* every action is shown to be a step on one stream (Moves) and the rest is    *)
(* argued once, of that.                                                      *)
(*                                                                         *)
(* Then HttpResponse, for any output of the child and any chunk: what the child *)
(* wrote is the lines of the response with their newlines, then the buffer and  *)
(* what is still in the pipe, so that a response has lines that were written    *)
(* and, with nothing left but a piece of a line, all of them.                   *)
(*                                                                         *)
(* Last ModemPorts, for any modems, ports, limits and arguments: a packet is read *)
(* back as it was packed, and a pass over the events of a modem tells those that  *)
(* are for it, each at the place that its rank among them gives.                 *)
(***************************************************************************)
EXTENDS ServerElection, InternetSockets, HttpResponse, ModemPorts, SubsequenceProofs, FiniteSetTheorems, TLAPS

-----------------------------------------------------------------------------
(* The lock file and its servers *)

\* A process between its flock and the end of its ~FileLock, or listening, has a
\* file open and holds its flock.
LocksHeld ==
  \A p \in Procs :
    pc[p] \in {"bind", "unlock", "stopUnlock"} \/ p \in listening
      => fd[p] # None /\ holder[fd[p]] = p

\* _local_server is set exactly while the process listens, which it does not do
\* while it is making or dismantling a server.
Serving ==
  \A p \in Procs :
    /\ p \in listening <=> pool[p] # "none"
    /\ pc[p] # "loop" => pool[p] = "none"
    /\ pc[p] = "flock" => fd[p] # None

\* Before the first orderly release every open lock file is the one at the path.
OneFile ==
  releases = 0 =>
    \A p \in Procs :
      /\ pc[p] \notin {"unlock", "unlink", "stopUnlock", "stopUnlink"}
      /\ fd[p] # None => fd[p] = path

IInv == TypeOK /\ LocksHeld /\ Serving /\ OneFile /\ NoForgottenLock

\* What the runs check follows.
THEOREM IInvSafe == IInv => ServersOwnTheirLock /\ OneServerUnlessReleased
  <1> SUFFICES ASSUME IInv PROVE ServersOwnTheirLock /\ OneServerUnlessReleased
    OBVIOUS
  <1> USE ElectionAssumption DEF IInv, TypeOK
  <1>1. \A p \in listening : p \in Procs /\ fd[p] # None /\ holder[fd[p]] = p
    BY DEF LocksHeld
  <1>2. ServersOwnTheirLock
    BY <1>1 DEF ServersOwnTheirLock
  <1>3. OneServerUnlessReleased
    BY <1>1 DEF OneServerUnlessReleased, AtMostOneServer, OneFile
  <1> QED
    BY <1>2, <1>3

\* With no process started there is no server and no lock.
LEMMA InitIInv == Init => IInv
  <1> SUFFICES ASSUME Init PROVE IInv
    OBVIOUS
  <1> USE ElectionAssumption DEF Init
  <1>1. TypeOK
    <2>1. releases \in 0..MaxReleases /\ faults \in 0..MaxFaults
      OBVIOUS
    <2> QED
      BY <2>1 DEF TypeOK
  <1>2. LocksHeld /\ Serving /\ OneFile
    BY DEF LocksHeld, Serving, OneFile
  <1>3. NoForgottenLock
    BY DEF NoForgottenLock
  <1> QED
    BY <1>1, <1>2, <1>3 DEF IInv

\* Steps on connections only: the lock, the sockets and the pools stay.
LEMMA ConnectionSteps ==
  ASSUME IInv, NEW p \in Procs,
         \/ Dial(p) \/ (\E s \in Procs : Connected(p, s)) \/ DialFailed(p)
         \/ RetryWithLocalServer(p) \/ LinkLost(p) \/ Forget(p) \/ Pool(p)
  PROVE  IInv'
  <1> USE ElectionAssumption DEF IInv, faultsUnchanged
  <1>1. /\ UNCHANGED <<path, holder, fd, pc, listening, pool, releases>>
        /\ TypeOK'
    <2>1. CASE Dial(p) \/ RetryWithLocalServer(p) \/ LinkLost(p) \/ Forget(p)
      BY <2>1 DEF Dial, RetryWithLocalServer, LinkLost, Forget, TypeOK, lockVars
    <2>2. ASSUME NEW s \in Procs, Connected(p, s)
          PROVE  UNCHANGED <<path, holder, fd, pc, listening, pool, releases>> /\ TypeOK'
      BY <2>2 DEF Connected, TypeOK, lockVars
    <2>3. CASE DialFailed(p)
      BY <2>3 DEF DialFailed, TypeOK, lockVars
    <2>4. ASSUME NEW q \in Procs, Accept(p, q)
          PROVE  UNCHANGED <<path, holder, fd, pc, listening, pool, releases>> /\ TypeOK'
      BY <2>4 DEF Accept, TypeOK, lockVars
    <2> QED
      BY <2>1, <2>2, <2>3, <2>4 DEF Pool
  <1>2. LocksHeld' /\ Serving' /\ OneFile'
    BY <1>1 DEF LocksHeld, Serving, OneFile
  <1>3. NoForgottenLock'
    BY <1>1 DEF NoForgottenLock
  <1> QED
    BY <1>1, <1>2, <1>3

\* Steps of the lock and of the pool.
LEMMA LockSteps ==
  ASSUME IInv, NEW p \in Procs,
         \/ Start(p) \/ OpenLockFile(p) \/ FlockGranted(p) \/ FlockDenied(p)
         \/ Listen(p) \/ BindFailed(p) \/ AcceptFailed(p) \/ Unlock(p) \/ Unlink(p)
         \/ Stop(p) \/ StopUnlock(p) \/ StopUnlink(p) \/ Crash(p)
  PROVE  IInv'
  <1> USE ElectionAssumption DEF IInv, TypeOK, Goto, faultsUnchanged, lockVars, netVars, CloseSockets
  <1>1. CASE Start(p)
    <2>1. TypeOK'
      BY <1>1 DEF Start
    <2>2. LocksHeld'
      BY <1>1 DEF Start, LocksHeld, Serving
    <2>3. Serving'
      BY <1>1 DEF Start, LocksHeld, Serving
    <2>4. OneFile'
      BY <1>1 DEF Start, LocksHeld, OneFile
    <2>5. NoForgottenLock'
      BY <1>1 DEF Start, LocksHeld, Serving, NoForgottenLock
    <2> QED
      BY <2>1, <2>2, <2>3, <2>4, <2>5
  <1>2. CASE OpenLockFile(p)
    <2>1. TypeOK'
      BY <1>2 DEF OpenLockFile
    <2>2. LocksHeld'
      BY <1>2 DEF OpenLockFile, LocksHeld, Serving
    <2>3. Serving'
      BY <1>2 DEF OpenLockFile, LocksHeld, Serving
    <2>4. OneFile'
      BY <1>2 DEF OpenLockFile, LocksHeld, OneFile
    <2>5. NoForgottenLock'
      BY <1>2 DEF OpenLockFile, LocksHeld, Serving, NoForgottenLock
    <2> QED
      BY <2>1, <2>2, <2>3, <2>4, <2>5
  <1>3. CASE FlockGranted(p)
    <2>1. TypeOK'
      BY <1>3 DEF FlockGranted
    <2>2. LocksHeld'
      BY <1>3 DEF FlockGranted, LocksHeld, Serving
    <2>3. Serving'
      BY <1>3 DEF FlockGranted, LocksHeld, Serving
    <2>4. OneFile'
      BY <1>3 DEF FlockGranted, LocksHeld, OneFile
    <2>5. NoForgottenLock'
      BY <1>3 DEF FlockGranted, LocksHeld, Serving, NoForgottenLock
    <2> QED
      BY <2>1, <2>2, <2>3, <2>4, <2>5
  <1>4. CASE FlockDenied(p)
    <2>1. TypeOK'
      BY <1>4 DEF FlockDenied
    <2>2. LocksHeld'
      BY <1>4 DEF FlockDenied, LocksHeld, Serving
    <2>3. Serving'
      BY <1>4 DEF FlockDenied, LocksHeld, Serving
    <2>4. OneFile'
      BY <1>4 DEF FlockDenied, LocksHeld, OneFile
    <2>5. NoForgottenLock'
      BY <1>4 DEF FlockDenied, LocksHeld, Serving, NoForgottenLock
    <2> QED
      BY <2>1, <2>2, <2>3, <2>4, <2>5
  <1>5. CASE Listen(p)
    <2>1. TypeOK'
      BY <1>5 DEF Listen
    <2>2. LocksHeld'
      BY <1>5 DEF Listen, LocksHeld, Serving
    <2>3. Serving'
      BY <1>5 DEF Listen, LocksHeld, Serving
    <2>4. OneFile'
      BY <1>5 DEF Listen, LocksHeld, OneFile
    <2>5. NoForgottenLock'
      BY <1>5 DEF Listen, LocksHeld, Serving, NoForgottenLock
    <2> QED
      BY <2>1, <2>2, <2>3, <2>4, <2>5
  <1>6. CASE BindFailed(p)
    <2>1. TypeOK'
      BY <1>6 DEF BindFailed
    <2>2. LocksHeld'
      BY <1>6 DEF BindFailed, LocksHeld, Serving
    <2>3. Serving'
      BY <1>6 DEF BindFailed, LocksHeld, Serving
    <2>4. OneFile'
      BY <1>6 DEF BindFailed, LocksHeld, OneFile
    <2>5. NoForgottenLock'
      BY <1>6 DEF BindFailed, LocksHeld, Serving, NoForgottenLock
    <2> QED
      BY <2>1, <2>2, <2>3, <2>4, <2>5
  <1>7. CASE AcceptFailed(p)
    <2>1. TypeOK'
      BY <1>7 DEF AcceptFailed
    <2>2. LocksHeld'
      BY <1>7 DEF AcceptFailed, LocksHeld, Serving
    <2>3. Serving'
      BY <1>7 DEF AcceptFailed, LocksHeld, Serving
    <2>4. OneFile'
      BY <1>7 DEF AcceptFailed, LocksHeld, OneFile
    <2>5. NoForgottenLock'
      BY <1>7 DEF AcceptFailed, LocksHeld, Serving, NoForgottenLock
    <2> QED
      BY <2>1, <2>2, <2>3, <2>4, <2>5
  <1>8. CASE Unlock(p)
    <2>1. TypeOK'
      BY <1>8 DEF Unlock
    <2>2. LocksHeld'
      BY <1>8 DEF Unlock, LocksHeld, Serving
    <2>3. Serving'
      BY <1>8 DEF Unlock, LocksHeld, Serving
    <2>4. OneFile'
      BY <1>8 DEF Unlock, LocksHeld, OneFile
    <2>5. NoForgottenLock'
      BY <1>8 DEF Unlock, LocksHeld, Serving, NoForgottenLock
    <2> QED
      BY <2>1, <2>2, <2>3, <2>4, <2>5
  <1>9. CASE Unlink(p)
    <2>1. TypeOK'
      BY <1>9 DEF Unlink
    <2>2. LocksHeld'
      BY <1>9 DEF Unlink, LocksHeld, Serving
    <2>3. Serving'
      BY <1>9 DEF Unlink, LocksHeld, Serving
    <2>4. OneFile'
      BY <1>9 DEF Unlink, LocksHeld, OneFile
    <2>5. NoForgottenLock'
      BY <1>9 DEF Unlink, LocksHeld, Serving, NoForgottenLock
    <2> QED
      BY <2>1, <2>2, <2>3, <2>4, <2>5
  <1>10. CASE Stop(p)
    <2>1. TypeOK'
      BY <1>10 DEF Stop
    <2>2. LocksHeld'
      BY <1>10 DEF Stop, LocksHeld, Serving
    <2>3. Serving'
      BY <1>10 DEF Stop, LocksHeld, Serving
    <2>4. OneFile'
      BY <1>10 DEF Stop, LocksHeld, OneFile
    <2>5. NoForgottenLock'
      BY <1>10 DEF Stop, LocksHeld, Serving, NoForgottenLock
    <2> QED
      BY <2>1, <2>2, <2>3, <2>4, <2>5
  <1>11. CASE StopUnlock(p)
    <2>1. TypeOK'
      BY <1>11 DEF StopUnlock
    <2>2. LocksHeld'
      BY <1>11 DEF StopUnlock, LocksHeld, Serving
    <2>3. Serving'
      BY <1>11 DEF StopUnlock, LocksHeld, Serving
    <2>4. OneFile'
      BY <1>11 DEF StopUnlock, LocksHeld, OneFile
    <2>5. NoForgottenLock'
      BY <1>11 DEF StopUnlock, LocksHeld, Serving, NoForgottenLock
    <2> QED
      BY <2>1, <2>2, <2>3, <2>4, <2>5
  <1>12. CASE StopUnlink(p)
    <2>1. TypeOK'
      BY <1>12 DEF StopUnlink
    <2>2. LocksHeld'
      BY <1>12 DEF StopUnlink, LocksHeld, Serving
    <2>3. Serving'
      BY <1>12 DEF StopUnlink, LocksHeld, Serving
    <2>4. OneFile'
      BY <1>12 DEF StopUnlink, LocksHeld, OneFile
    <2>5. NoForgottenLock'
      BY <1>12 DEF StopUnlink, LocksHeld, Serving, NoForgottenLock
    <2> QED
      BY <2>1, <2>2, <2>3, <2>4, <2>5
  <1>13. CASE Crash(p)
    <2>1. TypeOK'
      BY <1>13 DEF Crash
    <2>2. LocksHeld'
      BY <1>13 DEF Crash, LocksHeld, Serving
    <2>3. Serving'
      BY <1>13 DEF Crash, LocksHeld, Serving
    <2>4. OneFile'
      BY <1>13 DEF Crash, LocksHeld, OneFile
    <2>5. NoForgottenLock'
      BY <1>13 DEF Crash, LocksHeld, Serving, NoForgottenLock
    <2> QED
      BY <2>1, <2>2, <2>3, <2>4, <2>5
  <1> QED
    BY <1>1, <1>2, <1>3, <1>4, <1>5, <1>6, <1>7, <1>8, <1>9, <1>10, <1>11, <1>12, <1>13

LEMMA NextIInv == IInv /\ [Next]_vars => IInv'
  <1>1. ASSUME IInv, UNCHANGED vars PROVE IInv'
    BY <1>1 DEF vars, lockVars, netVars, IInv, TypeOK, LocksHeld, Serving, OneFile,
                NoForgottenLock
  <1>2. ASSUME IInv, NEW p \in Procs, Start(p) \/ Driver(p) \/ Pool(p) \/ Fault(p)
        PROVE  IInv'
    BY <1>2, ConnectionSteps, LockSteps DEF Driver, Fault
  <1> QED
    BY <1>1, <1>2 DEF Next

\* IInv holds throughout.
THEOREM Inductive == Spec => []IInv
  BY InitIInv, NextIInv, PTL DEF Spec

\* The type invariant.
THEOREM TypeCorrect == Spec => []TypeOK
  BY Inductive, PTL DEF IInv

\* A process that listens owns the flock of the file it has open, and at most one
\* owns the file at the path.
THEOREM ServersOwnLocks == Spec => []ServersOwnTheirLock
  BY Inductive, IInvSafe, PTL

\* Two servers at once take an orderly release: killing processes never makes one.
THEOREM KillsKeepOneServer == Spec => []OneServerUnlessReleased
  BY Inductive, IInvSafe, PTL

\* No flock outlives the activity it was taken for.
THEOREM LocksAreReturned == Spec => []NoForgottenLock
  BY Inductive, PTL DEF IInv

-----------------------------------------------------------------------------
(* What the operations of Connection do to the bytes, which are numbered *)

SConn == [state : ConnectionState, buffer : Seq(Nat), wire : Seq(Nat),
          peer : {"open", "closed", "reset"}]

\* The bytes of e follow the number t.
InRow(e, t) == /\ \A x \in 1..Len(e.buffer) : e.buffer[x] = t + x
               /\ \A x \in 1..Len(e.wire) : e.wire[x] = t + Len(e.buffer) + x

\* k bytes went from e's wire to the buffer of d.
Shifts(d, e, k) ==
  /\ d \in SConn /\ d.peer = e.peer
  /\ Len(d.buffer) = Len(e.buffer) + k /\ Len(d.wire) = Len(e.wire) - k
  /\ \A t \in Nat : InRow(e, t) => InRow(d, t)

\* The two sequences of a connection.
LEMMA SConnIs == ASSUME NEW e \in SConn
                 PROVE  /\ e.buffer \in Seq(Nat) /\ e.wire \in Seq(Nat)
                        /\ Len(e.buffer) \in Nat /\ Len(e.wire) \in Nat
BY DEF SConn

\* Bytes that are received go from the front of the wire to the end of the buffer.
LEMMA ReceivedShifts ==
  ASSUME NEW e \in SConn, NEW k \in 0..Len(e.wire)
  PROVE  Shifts(Received(e, k), e, k) /\ Received(e, k).state = e.state
<1>1. PICK b : b = e.buffer
  OBVIOUS
<1>2. PICK w : w = e.wire
  OBVIOUS
<1>3. b \in Seq(Nat) /\ w \in Seq(Nat) /\ k \in Nat /\ k <= Len(w)
  BY <1>1, <1>2 DEF SConn
<1>4. PICK f : f = SubSeq(w, 1, k)
  OBVIOUS
<1>5. f \in Seq(Nat) /\ Len(f) = k /\ \A x \in 1..k : f[x] = w[x]
  BY <1>3, <1>4
<1>6. PICK v : v = SubSeq(w, k + 1, Len(w))
  OBVIOUS
<1>7. v \in Seq(Nat) /\ Len(v) = Len(w) - k /\ \A x \in 1..Len(v) : v[x] = w[k + x]
  BY <1>3, <1>6
<1>8. PICK bf : bf = b \o f
  OBVIOUS
<1>9. /\ bf \in Seq(Nat) /\ Len(bf) = Len(b) + k
      /\ \A x \in 1..Len(b) : bf[x] = b[x]
      /\ \A x \in 1..k : bf[Len(b) + x] = f[x]
  <2>1. /\ bf \in Seq(Nat) /\ Len(bf) = Len(b) + Len(f)
        /\ \A x \in 1..Len(b) : bf[x] = b[x]
        /\ \A x \in 1..Len(f) : bf[Len(b) + x] = f[x]
    <3>1. b \in Seq(Nat) /\ f \in Seq(Nat)
      BY <1>3, <1>5
    <3> QED
      BY <1>8, <3>1
  <2> QED
    BY <1>5, <2>1
<1>10. PICK d : d = Received(e, k)
  OBVIOUS
<1>11. d = [e EXCEPT !.buffer = bf, !.wire = v]
  BY <1>1, <1>2, <1>4, <1>6, <1>8, <1>10 DEF Received, Skip
<1>12. d \in SConn /\ d.peer = e.peer /\ d.state = e.state /\ d.buffer = bf /\ d.wire = v
  BY <1>7, <1>9, <1>11 DEF SConn
<1>a. PICK n \in Nat, m \in Nat : n = Len(b) /\ m = Len(w) /\ k <= m
  BY <1>3
<1>13. ASSUME NEW t \in Nat, InRow(e, t)
       PROVE  InRow(d, t)
  <2>1. /\ \A x \in 1..n : b[x] = t + x
        /\ \A x \in 1..m : w[x] = t + n + x
    BY <1>1, <1>2, <1>a, <1>13 DEF InRow
  <2>2. ASSUME NEW x \in 1..(n + k) PROVE bf[x] = t + x
    <3>1. CASE x <= n
      <4>1. x \in 1..n
        BY <3>1
      <4> QED
        BY <1>9, <1>a, <2>1, <4>1
    <3>2. CASE x > n
      <4>1. PICK y \in 1..k : x = n + y
        <5>1. x - n \in 1..k /\ x = n + (x - n)
          BY <1>3, <3>2
        <5> QED
          BY <5>1
      <4>2. bf[x] = f[y] /\ f[y] = w[y]
        BY <1>5, <1>9, <1>a, <4>1
      <4>3. y \in 1..m /\ t + n + y = t + x
        BY <1>3, <1>a, <4>1
      <4> QED
        BY <2>1, <4>2, <4>3
    <3>3. n + k \in Nat
      BY <1>3, <1>a
    <3>4. x <= n \/ x > n
      BY <3>3
    <3> QED
      BY <3>1, <3>2, <3>4
  <2>3. ASSUME NEW x \in 1..(m - k) PROVE v[x] = t + (n + k) + x
    <3>1. v[x] = w[k + x] /\ k + x \in 1..m
      <4>1. Len(v) = m - k
        BY <1>7, <1>a
      <4>2. k + x \in 1..m
        BY <1>3, <1>a
      <4> QED
        BY <1>7, <4>1, <4>2
    <3>2. t + n + (k + x) = t + (n + k) + x
      BY <1>3
    <3> QED
      BY <2>1, <3>1, <3>2
  <2>4. Len(bf) = n + k /\ Len(v) = m - k
    BY <1>7, <1>9, <1>a
  <2> QED
    BY <1>12, <2>2, <2>3, <2>4 DEF InRow
<1> QED
  BY <1>1, <1>2, <1>7, <1>9, <1>10, <1>12, <1>13 DEF Shifts

\* The larger of two numbers.
LEMMA LargerOf == ASSUME NEW a \in Int, NEW b \in Int
                  PROVE  Max({a, b}) = IF a > b THEN a ELSE b
<1>1. PICK m : m = IF a > b THEN a ELSE b
  OBVIOUS
<1>2. m \in {a, b} /\ \A y \in {a, b} : m >= y
  BY <1>1
<1>3. \A x \in {a, b} : (\A y \in {a, b} : x >= y) => x = m
  BY <1>1
<1> QED
  BY <1>1, <1>2, <1>3 DEF Max

\* The smaller of two numbers.
LEMMA SmallerOf == ASSUME NEW a \in Int, NEW b \in Int
                   PROVE  Min({a, b}) = IF a < b THEN a ELSE b
<1>1. PICK m : m = IF a < b THEN a ELSE b
  OBVIOUS
<1>2. m \in {a, b} /\ \A y \in {a, b} : m <= y
  BY <1>1
<1>3. \A x \in {a, b} : (\A y \in {a, b} : x <= y) => x = m
  BY <1>1
<1> QED
  BY <1>1, <1>2, <1>3 DEF Min

\* What preload can leave of a connection that is open.
Preloads(r, e, n) ==
  /\ \E k \in 0..Len(e.wire) : Shifts(r.c, e, k)
  /\ r.c.state \in {"Ready", "Failed"} \/ (r.c.state = "Finished" /\ Len(r.c.wire) = 0)

\* preload on an open connection moves bytes, and finds the end only when the wire is empty.
LEMMA PreloadShifts ==
  ASSUME NEW e \in SConn, e.state = "Ready", NEW n \in Int, NEW r \in preload(e, n)
  PROVE  Preloads(r, e, n)
<1>0. MaxBuffer \in Nat
  BY ConnectionAssumption
<1>1. PICK b \in Nat, w \in Nat : b = Len(e.buffer) /\ w = Len(e.wire)
  BY SConnIs
<1>2. CASE r \in {[ok |-> FALSE, c |-> [e EXCEPT !.state = "Failed"]]}
  <2>1. PICK d : d = [e EXCEPT !.state = "Failed"]
    OBVIOUS
  <2>2. /\ d \in SConn /\ d.state = "Failed" /\ d.peer = e.peer /\ d.buffer = e.buffer
        /\ d.wire = e.wire
    BY <2>1 DEF SConn, ConnectionState
  <2>a. \A t \in Nat : InRow(e, t) => InRow(d, t)
    BY <2>2 DEF InRow
  <2>b. /\ Len(d.buffer) = Len(e.buffer) + 0 /\ Len(d.wire) = Len(e.wire) - 0
        /\ 0 \in 0..Len(e.wire)
    BY <1>1, <2>2
  <2>3. Shifts(d, e, 0) /\ 0 \in 0..Len(e.wire)
    BY <2>2, <2>a, <2>b DEF Shifts
  <2>4. r.c = d
    BY <1>2, <2>1
  <2> QED
    BY <2>2, <2>3, <2>4 DEF Preloads
<1>3. ASSUME NEW m \in Int, r \in ReadLoop(e, m) PROVE Preloads(r, e, n)
  <2>1. PICK need \in Int : need = Max({0, m - b}) /\ need >= 0
    BY <1>1, LargerOf
  <2>2. PICK least \in Int : least = Min({need - 1, w}) /\ least <= w
    BY SmallerOf
  <2>3. \/ r \in {[ok |-> TRUE, c |-> Received(e, k)] : k \in {need} \cap 0..w}
        \/ r \in {[ok |-> FALSE, c |-> Received(e, k)] : k \in 0..least}
        \/ r \in {[ok |-> FALSE, c |-> [Received(e, k) EXCEPT !.state = "Finished"]] :
                  k \in {j \in {w} : need > j /\ e.peer # "open"}}
    BY <1>1, <1>3, <2>1, <2>2 DEF ReadLoop
  <2>4. CASE \E k \in 0..w : r.c = Received(e, k)
    <3>1. PICK k \in 0..Len(e.wire) : r.c = Received(e, k)
      BY <1>1, <2>4
    <3>2. Shifts(r.c, e, k) /\ r.c.state = "Ready"
      BY <3>1, ReceivedShifts
    <3> QED
      BY <3>2 DEF Preloads
  <2>5. CASE r.c = [Received(e, w) EXCEPT !.state = "Finished"]
    <3>1. PICK d : d = Received(e, w)
      OBVIOUS
    <3>2. w \in 0..Len(e.wire) /\ Shifts(d, e, w)
      BY <1>1, <3>1, ReceivedShifts
    <3>3. PICK f : f = [d EXCEPT !.state = "Finished"]
      OBVIOUS
    <3>4. d \in SConn
      BY <3>2 DEF Shifts
    <3>5. /\ f \in SConn /\ f.state = "Finished" /\ f.peer = d.peer /\ f.buffer = d.buffer
          /\ f.wire = d.wire
      BY <3>3, <3>4 DEF SConn, ConnectionState
    <3>a. \A t \in Nat : InRow(e, t) => InRow(f, t)
      <4>1. \A t \in Nat : InRow(d, t) => InRow(f, t)
        BY <3>5 DEF InRow
      <4> QED
        BY <3>2, <4>1 DEF Shifts
    <3>b. /\ Len(f.buffer) = Len(e.buffer) + w /\ Len(f.wire) = Len(e.wire) - w
          /\ d.peer = e.peer
      BY <3>2, <3>5 DEF Shifts
    <3>6. Shifts(f, e, w) /\ Len(f.wire) = 0
      BY <1>1, <3>5, <3>a, <3>b DEF Shifts
    <3>7. r.c = f
      BY <2>5, <3>1, <3>3
    <3> QED
      BY <3>2, <3>5, <3>6, <3>7 DEF Preloads
  <2> QED
    BY <2>2, <2>3, <2>4, <2>5
<1>4. PICK m \in Int : m = Min({n, MaxBuffer})
  BY <1>0, SmallerOf
<1>5. \/ r \in {[ok |-> FALSE, c |-> [e EXCEPT !.state = "Failed"]]}
      \/ r \in ReadLoop(e, m)
  BY <1>4 DEF preload
<1> QED
  BY <1>2, <1>3, <1>5

\* What a connection has already is there at once.
LEMMA PreloadHas ==
  ASSUME NEW e \in SConn, NEW n \in Int, n <= Len(e.buffer), NEW r \in preload(e, n)
  PROVE  r.ok = TRUE /\ r.c.state = e.state /\ Shifts(r.c, e, 0)
<1>0. MaxBuffer \in Nat
  BY ConnectionAssumption
<1>1. PICK b \in Nat, w \in Nat : b = Len(e.buffer) /\ w = Len(e.wire) /\ n <= b
  BY SConnIs
<1>2. CASE e.state # "Ready"
  <2>1. r.ok = (n <= Len(e.buffer)) /\ r.c = e
    BY <1>2 DEF preload
  <2>2. /\ Len(e.buffer) = Len(e.buffer) + 0 /\ Len(e.wire) = Len(e.wire) - 0
    BY <1>1
  <2>3. Shifts(e, e, 0)
    BY <2>2 DEF Shifts
  <2> QED
    BY <1>1, <2>1, <2>3
<1>3. CASE e.state = "Ready"
  <2>1. PICK m \in Int : m = Min({n, MaxBuffer}) /\ m <= b
    BY <1>0, <1>1, SmallerOf
  <2>2. r \in ReadLoop(e, m)
    <3>1. ~ (n > MaxBuffer /\ b = MaxBuffer)
      BY <1>0, <1>1
    <3> QED
      BY <1>1, <1>3, <2>1, <3>1 DEF preload
  <2>a. PICK z \in Int : z = m - b /\ z <= 0
    BY <1>1, <2>1
  <2>b. Max({0, z}) = 0
    BY <2>a, LargerOf
  <2>3. PICK need \in Int : need = Max({0, m - b}) /\ need = 0
    BY <2>a, <2>b
  <2>c. Min({-1, w}) = -1
    BY SmallerOf
  <2>d. need - 1 = -1
    BY <2>3
  <2>4. PICK least \in Int : least = Min({need - 1, w}) /\ least = -1
    BY <2>c, <2>d
  <2>5. \/ r \in {[ok |-> TRUE, c |-> Received(e, k)] : k \in {need} \cap 0..w}
        \/ r \in {[ok |-> FALSE, c |-> Received(e, k)] : k \in 0..least}
        \/ r \in {[ok |-> FALSE, c |-> [Received(e, k) EXCEPT !.state = "Finished"]] :
                  k \in {j \in {w} : need > j /\ e.peer # "open"}}
    BY <1>1, <2>2, <2>3, <2>4 DEF ReadLoop
  <2>6. 0..least = {}
    BY <2>4
  <2>f. {need} \cap 0..w \subseteq {0}
    BY <2>3
  <2>e. {j \in {w} : need > j /\ e.peer # "open"} = {}
    <3>1. ~ need > w
      BY <2>3
    <3> QED
      BY <3>1
  <2>7. r.ok = TRUE /\ r.c = Received(e, 0)
    <3>1. r \in {[ok |-> TRUE, c |-> Received(e, k)] : k \in {need} \cap 0..w}
      BY <2>5, <2>6, <2>e
    <3>2. PICK k \in {0} : r = [ok |-> TRUE, c |-> Received(e, k)]
      BY <2>f, <3>1
    <3> QED
      BY <3>2
  <2>8. 0 \in 0..Len(e.wire)
    BY <1>1
  <2> QED
    BY <2>7, <2>8, ReceivedShifts
<1> QED
  BY <1>2, <1>3

\* move takes its bytes from the front of the buffer.
LEMMA MoveDrops ==
  ASSUME NEW e \in SConn, NEW n \in 0..Len(e.buffer)
  PROVE  LET d == move(e, n)
         IN  /\ d \in SConn /\ d.state = e.state /\ d.wire = e.wire
             /\ \A t \in Nat : InRow(e, t) => InRow(d, t + n)
<1>1. PICK b \in Seq(Nat) : b = e.buffer
  BY SConnIs
<1>2. PICK l \in Nat : l = Len(b) /\ n <= l /\ n \in Nat
  BY <1>1
<1>3. PICK v : v = SubSeq(b, n + 1, Len(b))
  OBVIOUS
<1>4. v \in Seq(Nat) /\ Len(v) = l - n /\ \A x \in 1..(l - n) : v[x] = b[n + x]
  BY <1>2, <1>3
<1>5. PICK d : d = [e EXCEPT !.buffer = v]
  OBVIOUS
<1>6. move(e, n) = d
  BY <1>1, <1>2, <1>3, <1>5 DEF move, Skip
<1>7. d \in SConn /\ d.state = e.state /\ d.wire = e.wire /\ d.buffer = v
  BY <1>4, <1>5 DEF SConn
<1>8. ASSUME NEW t \in Nat, InRow(e, t) PROVE InRow(d, t + n)
  <2>1. /\ \A x \in 1..l : b[x] = t + x
        /\ \A x \in 1..Len(e.wire) : e.wire[x] = t + l + x
    BY <1>1, <1>2, <1>8 DEF InRow
  <2>2. ASSUME NEW x \in 1..(l - n) PROVE v[x] = (t + n) + x
    <3>1. n + x \in 1..l /\ t + (n + x) = (t + n) + x
      BY <1>2
    <3> QED
      BY <1>4, <2>1, <3>1
  <2>3. t + l = (t + n) + (l - n)
    BY <1>2
  <2> QED
    BY <1>4, <1>7, <2>1, <2>2, <2>3 DEF InRow
<1> QED
  BY <1>6, <1>7, <1>8

\* What a read of n bytes gives: bytes in a row, and the end when there is nothing left.
Gives(r, e, n) ==
  /\ r.c \in SConn /\ Len(r.out) \in Nat /\ r.c.state # "Starting"
  /\ \A t \in Nat : InRow(e, t) => InRow(r.c, t + Len(r.out))
  /\ (r.c.state = "Finished" => Len(r.c.wire) = 0)
  /\ ((r.out = <<>> /\ r.c.state = "Finished" /\ n > 0)
        => (Len(e.buffer) = 0 /\ Len(e.wire) = 0))

\* A read of a connection whose bytes are in a row gives the next ones.
LEMMA ResultsGive ==
  ASSUME NEW e \in SConn, e.state \in {"Ready", "Finished"},
         e.state = "Finished" => Len(e.wire) = 0,
         NEW n \in Int, NEW r \in Results(e, n)
  PROVE  Gives(r, e, n)
<1>1. PICK p \in preload(e, n) : \E b \in back_insert(p.c, 0, Min({n, Len(p.c.buffer)})) :
        r = [out |-> b.out, c |-> move(b.c, Len(b.out))]
  BY DEF Results
<1>2. PICK x \in Nat, w \in Nat : x = Len(e.buffer) /\ w = Len(e.wire)
  BY SConnIs
<1>3. PICK d : d = p.c
  OBVIOUS
<1>4. PICK k \in 0..w : /\ Shifts(d, e, k) /\ (d.state = "Finished" => Len(d.wire) = 0)
                        /\ d.state # "Starting"
  <2>1. CASE e.state = "Ready"
    BY <1>2, <1>3, <2>1, PreloadShifts DEF Preloads
  <2>2. CASE e.state = "Finished"
    <3>1. d = e
      BY <1>1, <1>3, <2>2 DEF preload
    <3>2. /\ Len(e.buffer) = Len(e.buffer) + 0 /\ Len(e.wire) = Len(e.wire) - 0 /\ 0 \in 0..w
      BY <1>2
    <3>3. Shifts(e, e, 0)
      BY <3>2 DEF Shifts
    <3> QED
      BY <2>2, <3>1, <3>2, <3>3
  <2> QED
    BY <2>1, <2>2
<1>5. d \in SConn
  BY <1>4 DEF Shifts
<1>6. PICK l \in Nat : l = Len(d.buffer) /\ l = x + k
  BY <1>2, <1>4, <1>5, SConnIs DEF Shifts
<1>7. PICK m \in Int : m = Min({n, l}) /\ m <= l /\ (n > 0 /\ m <= 0 => l = 0)
  BY <1>6, SmallerOf
<1>8. PICK b \in back_insert(d, 0, m) : r = [out |-> b.out, c |-> move(b.c, Len(b.out))]
  BY <1>1, <1>3, <1>6, <1>7
<1>9. PICK q \in preload(d, m) :
        b = [ok |-> q.ok, c |-> q.c, out |-> IF q.ok THEN SubSeq(q.c.buffer, 1, m) ELSE <<>>]
  <2>1. 0 + m = m /\ 0 + 1 = 1
    OBVIOUS
  <2> QED
    BY <1>8, <2>1 DEF back_insert
<1>10. q.ok = TRUE /\ q.c.state = d.state /\ Shifts(q.c, d, 0)
  BY <1>5, <1>6, <1>7, PreloadHas
<1>11. PICK g \in SConn : g = q.c
  BY <1>10 DEF Shifts
<1>12. PICK gb \in Seq(Nat) : gb = g.buffer /\ Len(gb) = l
  BY <1>6, <1>10, <1>11, SConnIs DEF Shifts
<1>13. Len(g.wire) = Len(d.wire)
  <2>1. Len(g.wire) = Len(d.wire) - 0 /\ Len(d.wire) \in Nat
    BY <1>5, <1>10, <1>11, SConnIs DEF Shifts
  <2> QED
    BY <2>1
<1>14. PICK out : out = SubSeq(gb, 1, m)
  OBVIOUS
<1>a. Len(out) \in Nat /\ Len(out) <= l /\ (out = <<>> => m <= 0)
  <2>1. CASE m > 0
    <3>1. m \in 1..l
      BY <1>7, <2>1
    <3>2. out \in Seq(Nat) /\ Len(out) = m
      BY <1>12, <1>14, <3>1
    <3> QED
      BY <1>7, <2>1, <3>2
  <2>2. CASE m <= 0
    <3>1. out = <<>>
      BY <1>12, <1>14, <2>2
    <3> QED
      BY <2>2, <3>1
  <2> QED
    BY <1>7, <2>1, <2>2
<1>15. PICK o \in Nat : o = Len(out) /\ o <= l
  BY <1>a
<1>16. r.out = out /\ r.c = move(g, o)
  BY <1>8, <1>9, <1>10, <1>11, <1>12, <1>14, <1>15
<1>17. PICK v : v = move(g, o)
  OBVIOUS
<1>18. /\ v \in SConn /\ v.state = g.state /\ v.wire = g.wire
       /\ \A t \in Nat : InRow(g, t) => InRow(v, t + o)
  <2>1. o \in 0..Len(g.buffer)
    BY <1>12, <1>15
  <2> QED
    BY <1>17, <2>1, MoveDrops
<1>19. \A t \in Nat : InRow(e, t) => InRow(v, t + o)
  <2>1. \A t \in Nat : InRow(e, t) => InRow(d, t)
    BY <1>4 DEF Shifts
  <2>2. \A t \in Nat : InRow(d, t) => InRow(g, t)
    BY <1>10, <1>11 DEF Shifts
  <2> QED
    BY <1>18, <2>1, <2>2
<1>20. (v.state = "Finished" => Len(v.wire) = 0) /\ v.state # "Starting"
  BY <1>4, <1>10, <1>11, <1>13, <1>18
<1>21. (out = <<>> /\ v.state = "Finished" /\ n > 0) => (x = 0 /\ w = 0)
  <2> SUFFICES ASSUME out = <<>>, v.state = "Finished", n > 0 PROVE x = 0 /\ w = 0
    OBVIOUS
  <2>1. x + k = 0
    BY <1>6, <1>7, <1>a
  <2>2. Len(d.wire) = 0 /\ Len(d.wire) = w - k
    BY <1>2, <1>4, <1>10, <1>11, <1>18 DEF Shifts
  <2> QED
    BY <2>1, <2>2
<1> QED
  BY <1>2, <1>15, <1>16, <1>17, <1>18, <1>19, <1>20, <1>21 DEF Gives

-----------------------------------------------------------------------------
(* The kernel's descriptors *)

Table(f) == /\ DOMAIN f \subseteq Nat \ {0} /\ IsFiniteSet(DOMAIN f)
            /\ f = [i \in DOMAIN f |-> f[i]]

\* There is always a descriptor to give, and it is nobody's.
LEMMA LowestIsFree ==
  ASSUME Table(fdOwner)
  PROVE  LowestFree \in Nat \ {0} /\ LowestFree \notin DOMAIN fdOwner
<1> DEFINE D == DOMAIN fdOwner
           n == Cardinality(D)
           T == 1..(n + 1) \ D
<1>1. IsFiniteSet(D) /\ n \in Nat
  BY FS_CardinalityType DEF Table
<1>2. T # {}
  <2> SUFFICES ASSUME T = {} PROVE FALSE
    OBVIOUS
  <2>1. 1..(n + 1) \in SUBSET D
    OBVIOUS
  <2>2. Cardinality(1..(n + 1)) <= n
    BY <1>1, <2>1, FS_Subset
  <2>3. Cardinality(1..(n + 1)) = n + 1
    <3>1. 1 \in Int /\ n + 1 \in Int /\ ~ 1 > n + 1 /\ (n + 1) - 1 + 1 = n + 1
      BY <1>1
    <3> QED
      BY <3>1, FS_Interval
  <2> QED
    BY <1>1, <2>2, <2>3
<1>3. T \in SUBSET Nat
  BY <1>1
<1>4. Min(T) \in T
  BY <1>2, <1>3, LeastExists
<1>5. LowestFree = Min(T)
  BY DEF LowestFree
<1>6. Min(T) \in 1..(n + 1) /\ Min(T) \notin D
  BY <1>4
<1> QED
  BY <1>1, <1>5, <1>6

\* A descriptor that is given out changes no other.
LEMMA GivenKeeps ==
  ASSUME Table(fdOwner), NEW u, Given(u, LowestFree)
  PROVE  /\ Table(fdOwner') /\ fdOwner'[LowestFree] = u /\ LowestFree \in DOMAIN fdOwner'
         /\ \A i \in DOMAIN fdOwner : i \in DOMAIN fdOwner' /\ fdOwner'[i] = fdOwner[i]
<1>1. PICK n : n = LowestFree /\ n \in Nat \ {0} /\ n \notin DOMAIN fdOwner
  BY LowestIsFree
<1>2. fdOwner' = [i \in DOMAIN fdOwner \cup {n} |-> IF i = n THEN u ELSE fdOwner[i]]
  BY <1>1 DEF Given
<1>3. IsFiniteSet(DOMAIN fdOwner \cup {n})
  BY FS_AddElement DEF Table
<1>4. DOMAIN fdOwner' = DOMAIN fdOwner \cup {n}
  BY <1>2
<1> QED
  BY <1>1, <1>2, <1>3, <1>4 DEF Table

\* A descriptor that is closed changes no other, and robs nobody if it was its own.
LEMMA KernelCloseKeeps ==
  ASSUME Table(fdOwner), NEW u, NEW id, KernelCloses(u, id)
  PROVE  /\ Table(fdOwner')
         /\ \A i \in DOMAIN fdOwner \ {id} : i \in DOMAIN fdOwner' /\ fdOwner'[i] = fdOwner[i]
         /\ id \in DOMAIN fdOwner /\ robbers' = {} => fdOwner[id] = u
<1>1. fdOwner' = [i \in DOMAIN fdOwner \ {id} |-> fdOwner[i]]
  BY DEF KernelCloses
<1>2. DOMAIN fdOwner' = DOMAIN fdOwner \ {id}
  BY <1>1
<1>3. IsFiniteSet(DOMAIN fdOwner \ {id})
  BY FS_RemoveElement DEF Table
<1>4. id \in DOMAIN fdOwner /\ robbers' = {} => fdOwner[id] = u
  BY DEF KernelCloses
<1> QED
  BY <1>1, <1>2, <1>3, <1>4 DEF Table

-----------------------------------------------------------------------------
(* The invariant *)

StreamRecord == [life : {"none", "open", "disposed", "gone"}, c : SConn, id : Int,
                 needsConnection : BOOLEAN, needsData : BOOLEAN]

\* Of a stream of which t bytes have been read: one that is not connected has no bytes
\* and none were read, the bytes of one that is follow those that were, and one that has
\* found its end has read all of the wire.
Sound(s, t) ==
  /\ s \in StreamRecord /\ t \in Nat
  /\ s.life = "none" => s.c.state = "Starting"
  /\ s.life \in {"none", "open"} /\ s.c.state = "Starting"
       => t = 0 /\ Len(s.c.buffer) = 0 /\ Len(s.c.wire) = 0
  /\ s.c.state \in {"Ready", "Finished"} => InRow(s.c, t)
  /\ s.c.state = "Finished" => Len(s.c.wire) = 0

\* A stream that has not been closed has no descriptor, or its own.
Owns(f, u, id) == id = -1 \/ (id \in DOMAIN f /\ f[id] = u)

StreamsSound == stream = [u \in Streams |-> stream[u]] /\ taken = [u \in Streams |-> taken[u]]
                /\ \A u \in Streams : Sound(stream[u], taken[u])

Disposed == \A u \in Streams : stream[u].life = "disposed" => u \in closed
Owned == robbers = {} => \A u \in Streams \ closed : Owns(fdOwner, u, stream[u].id)

StreamsInv == /\ StreamsSound
              /\ Table(fdOwner) /\ Disposed /\ Owned

\* A connection that has yet to be made.
LEMMA DialingIs == /\ Dialing \in SConn /\ Dialing.state = "Starting"
                   /\ Len(Dialing.buffer) = 0 /\ Len(Dialing.wire) = 0
                   /\ NoStream \in StreamRecord /\ NoStream.life = "none" /\ NoStream.c = Dialing
                   /\ NoStream.id = -1
<1>1. <<>> \in Seq(Nat) /\ Len(<<>>) = 0
  OBVIOUS
<1>2. /\ Dialing \in SConn /\ Dialing.state = "Starting"
      /\ Len(Dialing.buffer) = 0 /\ Len(Dialing.wire) = 0
  BY <1>1 DEF Dialing, SConn, ConnectionState
<1> QED
  BY <1>2 DEF NoStream, StreamRecord

\* The invariant holds at the start.
LEMMA StreamsStart == StreamsInit => StreamsInv
<1> SUFFICES ASSUME StreamsInit PROVE StreamsInv
  OBVIOUS
<1>1. Sound(NoStream, 0)
  BY DialingIs DEF Sound
<1>2. StreamsSound
  BY <1>1 DEF StreamsInit, StreamsSound
<1>3. Table(fdOwner)
  <2>1. DOMAIN fdOwner = {} /\ fdOwner = [i \in DOMAIN fdOwner |-> fdOwner[i]]
    BY DEF StreamsInit
  <2>2. IsFiniteSet({})
    BY FS_EmptySet
  <2> QED
    BY <2>1, <2>2 DEF Table
<1>4. \A u \in Streams : stream[u].life = "none" /\ stream[u].id = -1
  BY DialingIs DEF StreamsInit
<1> QED
  BY <1>2, <1>3, <1>4 DEF StreamsInv, Disposed, Owned, Owns

-----------------------------------------------------------------------------
(* What every step on a stream does: the stream becomes x, of which k bytes are read *)

Descriptors(u, id) ==
  \/ /\ fdOwner' = fdOwner /\ robbers' = robbers
     /\ id = -1 \/ id = stream[u].id \/ u \in closed'
  \/ Given(u, LowestFree) /\ id = LowestFree /\ robbers' = robbers
  \/ KernelCloses(u, stream[u].id) /\ (id = -1 \/ u \in closed')

Moves(u, x, k) ==
  /\ Becomes(u, x) /\ taken' = [taken EXCEPT ![u] = k] /\ Sound(x, k)
  /\ closed \subseteq closed' /\ (x.life = "disposed" => u \in closed')
  /\ Descriptors(u, x.id)

Ending == \A w \in Streams : w \in ended' \ ended => taken'[w] = SentTo(w)

Steps(u) == (\E x, k : Moves(u, x, k)) /\ Ending

\* A step on one stream leaves the others as they were.
LEMMA StepsKeepSound ==
  ASSUME StreamsSound, Disposed, NEW u \in Streams, NEW x, NEW k, Moves(u, x, k)
  PROVE  StreamsSound' /\ Disposed' /\ stream'[u] = x
         /\ \A w \in Streams \ {u} : stream'[w] = stream[w]
<1>1. /\ stream' = [stream EXCEPT ![u] = x] /\ taken' = [taken EXCEPT ![u] = k]
      /\ stream = [w \in Streams |-> stream[w]] /\ taken = [w \in Streams |-> taken[w]]
  BY DEF Moves, Becomes, StreamsSound
<1>2. /\ stream' = [w \in Streams |-> IF w = u THEN x ELSE stream[w]]
      /\ taken' = [w \in Streams |-> IF w = u THEN k ELSE taken[w]]
  BY <1>1
<1>3. /\ stream' = [w \in Streams |-> stream'[w]] /\ taken' = [w \in Streams |-> taken'[w]]
  BY <1>2
<1>4. /\ stream'[u] = x /\ taken'[u] = k
      /\ \A w \in Streams \ {u} : stream'[w] = stream[w] /\ taken'[w] = taken[w]
  BY <1>2
<1>5. ASSUME NEW w \in Streams PROVE Sound(stream'[w], taken'[w])
  <2>1. CASE w = u
    BY <1>4, <2>1 DEF Moves
  <2>2. CASE w # u
    BY <1>4, <2>2 DEF StreamsSound
  <2> QED
    BY <2>1, <2>2
<1>6. ASSUME NEW w \in Streams, stream'[w].life = "disposed" PROVE w \in closed'
  <2>1. CASE w = u
    BY <1>4, <1>6, <2>1 DEF Moves
  <2>2. CASE w # u
    BY <1>4, <1>6, <2>2 DEF Moves, Disposed
  <2> QED
    BY <2>1, <2>2
<1> QED
  BY <1>3, <1>4, <1>5, <1>6 DEF StreamsSound, Disposed

\* Who has not been closed owns its descriptor after the step, and robs nobody in it.
LEMMA StepsKeepOwned ==
  ASSUME StreamsInv, NEW u \in Streams, NEW x, NEW k, Moves(u, x, k)
  PROVE  Table(fdOwner') /\ Owned' /\ (robbers = {} => robbers' \ robbers \subseteq closed)
<1>1. /\ stream'[u] = x /\ closed \subseteq closed' /\ Descriptors(u, x.id)
      /\ \A w \in Streams \ {u} : stream'[w] = stream[w]
  BY StepsKeepSound DEF StreamsInv, Moves
<1>2. Table(fdOwner) /\ Owned
  BY DEF StreamsInv
<1>3. CASE fdOwner' = fdOwner /\ robbers' = robbers
           /\ (x.id = -1 \/ x.id = stream[u].id \/ u \in closed')
  <2>1. ASSUME robbers' = {}, NEW w \in Streams \ closed' PROVE Owns(fdOwner', w, stream'[w].id)
    <3>1. Owns(fdOwner, w, stream[w].id)
      BY <1>1, <1>2, <1>3, <2>1 DEF Owned
    <3>2. stream'[w].id = -1 \/ stream'[w].id = stream[w].id
      BY <1>1, <1>3, <2>1
    <3> QED
      BY <1>3, <3>1, <3>2 DEF Owns
  <2> QED
    BY <1>2, <1>3, <2>1 DEF Owned
<1>4. CASE Given(u, LowestFree) /\ x.id = LowestFree /\ robbers' = robbers
  <2>1. /\ Table(fdOwner') /\ fdOwner'[x.id] = u /\ x.id \in DOMAIN fdOwner'
        /\ \A i \in DOMAIN fdOwner : i \in DOMAIN fdOwner' /\ fdOwner'[i] = fdOwner[i]
    BY <1>2, <1>4, GivenKeeps
  <2>2. ASSUME robbers' = {}, NEW w \in Streams \ closed' PROVE Owns(fdOwner', w, stream'[w].id)
    <3>1. CASE w = u
      BY <1>1, <2>1, <3>1 DEF Owns
    <3>2. CASE w # u
      <4>1. Owns(fdOwner, w, stream[w].id)
        BY <1>1, <1>2, <1>4, <2>2 DEF Owned
      <4>2. stream'[w].id = stream[w].id
        BY <1>1, <2>2, <3>2
      <4> QED
        BY <2>1, <4>1, <4>2 DEF Owns
    <3> QED
      BY <3>1, <3>2
  <2> QED
    BY <1>4, <2>1, <2>2 DEF Owned
<1>5. CASE KernelCloses(u, stream[u].id) /\ (x.id = -1 \/ u \in closed')
  <2>0. PICK i : i = stream[u].id
    OBVIOUS
  <2>1. /\ Table(fdOwner')
        /\ \A j \in DOMAIN fdOwner \ {i} : j \in DOMAIN fdOwner' /\ fdOwner'[j] = fdOwner[j]
        /\ i \in DOMAIN fdOwner /\ robbers' = {} => fdOwner[i] = u
    BY <1>2, <1>5, <2>0, KernelCloseKeeps
  <2>a. robbers' = robbers \cup {w \in {u} : i \in DOMAIN fdOwner /\ fdOwner[i] # u}
    BY <1>5, <2>0 DEF KernelCloses
  <2>2. ASSUME robbers' = {}, NEW w \in Streams \ closed' PROVE Owns(fdOwner', w, stream'[w].id)
    <3>1. CASE w = u
      BY <1>1, <1>5, <2>2, <3>1 DEF Owns
    <3>2. CASE w # u
      <4>1. Owns(fdOwner, w, stream[w].id)
        BY <1>1, <1>2, <2>a, <2>2 DEF Owned
      <4>2. stream'[w].id = stream[w].id
        BY <1>1, <2>2, <3>2
      <4>3. stream[w].id \in DOMAIN fdOwner => stream[w].id # i \/ fdOwner[stream[w].id] = u
        BY <2>1, <2>2
      <4> QED
        BY <2>1, <3>2, <4>1, <4>2, <4>3 DEF Owns
    <3> QED
      BY <3>1, <3>2
  <2>3. ASSUME robbers = {} PROVE robbers' \ robbers \subseteq closed
    <3>1. CASE u \in closed
      BY <2>a, <2>3, <3>1
    <3>2. CASE u \notin closed
      <4>1. i = -1 \/ (i \in DOMAIN fdOwner /\ fdOwner[i] = u)
        BY <1>2, <2>0, <2>3, <3>2 DEF Owned, Owns
      <4>2. -1 \notin DOMAIN fdOwner
        BY <1>2 DEF Table
      <4> QED
        BY <2>a, <4>1, <4>2
    <3> QED
      BY <3>1, <3>2
  <2> QED
    BY <2>1, <2>2, <2>3 DEF Owned
<1> QED
  BY <1>1, <1>3, <1>4, <1>5 DEF Descriptors

\* The invariant after a step on one stream.
LEMMA StepsKeep ==
  ASSUME StreamsInv, NEW u \in Streams, Steps(u)
  PROVE  StreamsInv' /\ (robbers = {} => robbers' \ robbers \subseteq closed)
<1>1. PICK x, k : Moves(u, x, k)
  BY DEF Steps
<1> QED
  BY <1>1, StepsKeepSound, StepsKeepOwned DEF StreamsInv

-----------------------------------------------------------------------------
(* Every action is such a step *)

\* What is known of a stream.
LEMMA StreamIs ==
  ASSUME StreamsInv, NEW u \in Streams
  PROVE  /\ Sound(stream[u], taken[u]) /\ stream[u] \in StreamRecord
         /\ stream[u].c \in SConn /\ stream[u].id \in Int /\ taken[u] \in Nat
<1>1. Sound(stream[u], taken[u])
  BY DEF StreamsInv, StreamsSound
<1> QED
  BY <1>1 DEF Sound, StreamRecord

\* A step after which Lua has read what it had.
LEMMA QuietStep ==
  ASSUME StreamsInv, NEW u \in Streams, NEW x, Becomes(u, x), taken' = taken, ended' = ended,
         Sound(x, taken[u]), closed \subseteq closed', x.life = "disposed" => u \in closed',
         Descriptors(u, x.id)
  PROVE  Steps(u)
<1>1. taken' = [taken EXCEPT ![u] = taken[u]]
  <2>1. taken = [w \in Streams |-> taken[w]]
    BY DEF StreamsInv, StreamsSound
  <2> QED
    BY <2>1
<1>2. Moves(u, x, taken[u])
  BY <1>1 DEF Moves
<1>3. Ending
  BY DEF Ending
<1> QED
  BY <1>2, <1>3 DEF Steps

IsStream(x, life, d, n) == x \in StreamRecord /\ x.life = life /\ x.c = d /\ x.id = n

\* A stream with another connection and descriptor.
LEMMA RecordBecomes ==
  ASSUME NEW s \in StreamRecord, NEW life \in {"none", "open", "disposed", "gone"},
         NEW d \in SConn, NEW n \in Int
  PROVE  IsStream([s EXCEPT !.life = life, !.c = d, !.id = n], life, d, n)
BY DEF StreamRecord, IsStream

\* A connection that is new, open, or closed.
LEMMA ConnChanges ==
  ASSUME NEW e \in SConn
  PROVE  /\ Close(e) \in SConn /\ Close(e).state = "Closed"
         /\ OpenFailed(e) \in SConn /\ OpenFailed(e).state = "Failed"
         /\ Opened(e) \in SConn /\ Opened(e).state = "Ready"
         /\ Opened(e).buffer = e.buffer /\ Opened(e).wire = e.wire
BY DEF SConn, ConnectionState, Close, OpenFailed, Opened

\* connect is such a step.
LEMMA connectSteps ==
  ASSUME StreamsInv, NEW u \in Streams, connect(u)
  PROVE  Steps(u)
<1>1. PICK x : x = [NoStream EXCEPT !.life = "open"]
  OBVIOUS
<1>2. /\ x \in StreamRecord /\ x.life = "open" /\ x.c = Dialing /\ x.id = -1
  BY <1>1, DialingIs DEF StreamRecord
<1>3. taken[u] = 0
  BY StreamIs DEF connect, Sound
<1>4. Sound(x, taken[u])
  BY <1>2, <1>3, DialingIs DEF Sound
<1>5. Becomes(u, x) /\ UNCHANGED <<fdOwner, robbers, streamHistory>>
  BY <1>1 DEF connect
<1>6. taken' = taken /\ ended' = ended /\ closed' = closed /\ fdOwner' = fdOwner /\ robbers' = robbers
  BY <1>5 DEF streamHistory
<1>7. Descriptors(u, x.id)
  BY <1>2, <1>6 DEF Descriptors
<1> QED
  BY <1>2, <1>4, <1>5, <1>6, <1>7, QuietStep

\* Of a stream that becomes open with no bytes read and none come.
LEMMA OpenedSound ==
  ASSUME NEW x \in StreamRecord, x.life = "open", NEW e \in SConn, x.c = Opened(e),
         Len(e.buffer) = 0, Len(e.wire) = 0
  PROVE  Sound(x, 0)
<1>1. x.c.state = "Ready" /\ Len(x.c.buffer) = 0 /\ Len(x.c.wire) = 0
  BY ConnChanges
<1>2. InRow(x.c, 0)
  BY <1>1 DEF InRow
<1> QED
  BY <1>1, <1>2 DEF Sound

\* request gives the stream a descriptor that was free.
LEMMA requestSteps ==
  ASSUME StreamsInv, NEW u \in Streams, request(u)
  PROVE  Steps(u)
<1>0. PICK n : n = LowestFree /\ n \in Nat
  BY LowestIsFree DEF StreamsInv
<1>1. PICK x : x = [NoStream EXCEPT !.life = "open", !.c = Opened(@), !.id = LowestFree]
  OBVIOUS
<1>a. PICK d : d = Opened(Dialing)
  OBVIOUS
<1>2. x \in StreamRecord /\ x.life = "open" /\ x.c = d /\ x.id = n
  <2>1. NoStream.c = Dialing /\ d \in SConn /\ NoStream \in StreamRecord
    BY <1>a, DialingIs, ConnChanges
  <2>2. x = [NoStream EXCEPT !.life = "open", !.c = d, !.id = n]
    BY <1>0, <1>1, <1>a, <2>1
  <2>3. n \in Int
    BY <1>0
  <2>4. "open" \in {"none", "open", "disposed", "gone"}
    OBVIOUS
  <2>5. IsStream([NoStream EXCEPT !.life = "open", !.c = d, !.id = n], "open", d, n)
    BY <2>1, <2>3, <2>4, RecordBecomes
  <2> QED
    BY <2>2, <2>5 DEF IsStream
<1>3. taken[u] = 0
  BY StreamIs DEF request, Sound
<1>4. Sound(x, taken[u])
  BY <1>2, <1>3, <1>a, DialingIs, OpenedSound
<1>5. Becomes(u, x) /\ Given(u, LowestFree) /\ UNCHANGED <<robbers, streamHistory>>
  BY <1>1 DEF request
<1>6. taken' = taken /\ ended' = ended /\ closed' = closed /\ robbers' = robbers
  BY <1>5 DEF streamHistory
<1>7. Descriptors(u, x.id)
  BY <1>0, <1>2, <1>5, <1>6 DEF Descriptors
<1> QED
  BY <1>2, <1>4, <1>5, <1>6, <1>7, QuietStep

\* finishConnect only notes who waits.
LEMMA finishConnectSteps ==
  ASSUME StreamsInv, NEW u \in Streams, finishConnect(u)
  PROVE  Steps(u)
<1>0. PICK s : s = stream[u]
  OBVIOUS
<1>1. PICK b \in BOOLEAN : b = (StateOf(u) \in {"Starting", "Failed"})
  <2>1. (StateOf(u) \in {"Starting", "Failed"}) \in BOOLEAN
    OBVIOUS
  <2> QED
    BY <2>1, Zenon
<1>2. PICK x : x = [s EXCEPT !.needsConnection = b]
  OBVIOUS
<1>3. Sound(s, taken[u]) /\ s \in StreamRecord /\ s.life = "open"
  BY <1>0, StreamIs DEF finishConnect, Held
<1>4. x \in StreamRecord /\ x.life = s.life /\ x.c = s.c /\ x.id = s.id
  BY <1>2, <1>3 DEF StreamRecord
<1>5. Sound(x, taken[u])
  BY <1>3, <1>4 DEF Sound
<1>6. Becomes(u, x) /\ UNCHANGED <<fdOwner, robbers, streamHistory>>
  BY <1>0, <1>1, <1>2 DEF finishConnect
<1>7. taken' = taken /\ ended' = ended /\ closed' = closed /\ fdOwner' = fdOwner /\ robbers' = robbers
  BY <1>6 DEF streamHistory
<1>8. Descriptors(u, x.id)
  BY <1>0, <1>4, <1>7 DEF Descriptors
<1> QED
  BY <1>3, <1>4, <1>5, <1>6, <1>7, <1>8, QuietStep

\* The thread that has connected gives the stream a free descriptor.
LEMMA ThreadOpensSteps ==
  ASSUME StreamsInv, NEW u \in Streams, ThreadOpens(u)
  PROVE  Steps(u)
<1>0. PICK n : n = LowestFree /\ n \in Nat
  BY LowestIsFree DEF StreamsInv
<1>1. PICK s : s = stream[u]
  OBVIOUS
<1>2. /\ Sound(s, taken[u]) /\ s \in StreamRecord /\ s.life = "open" /\ s.c \in SConn
      /\ s.c.state = "Starting"
  BY <1>1, StreamIs DEF ThreadOpens, Held, StateOf
<1>a. PICK d : d = Opened(s.c)
  OBVIOUS
<1>3. PICK x : x = [s EXCEPT !.c = d, !.id = n]
  OBVIOUS
<1>4. x \in StreamRecord /\ x.life = "open" /\ x.c = d /\ x.id = n
  <2>1. d \in SConn
    BY <1>2, <1>a, ConnChanges
  <2>2. x = [s EXCEPT !.life = "open", !.c = d, !.id = n]
    BY <1>2, <1>3 DEF StreamRecord
  <2>3. n \in Int
    BY <1>0
  <2>4. "open" \in {"none", "open", "disposed", "gone"}
    OBVIOUS
  <2>5. IsStream([s EXCEPT !.life = "open", !.c = d, !.id = n], "open", d, n)
    BY <1>2, <2>1, <2>3, <2>4, RecordBecomes
  <2> QED
    BY <2>2, <2>5 DEF IsStream
<1>5. taken[u] = 0 /\ Len(s.c.buffer) = 0 /\ Len(s.c.wire) = 0
  BY <1>2 DEF Sound
<1>6. Sound(x, taken[u])
  BY <1>2, <1>4, <1>5, <1>a, OpenedSound
<1>7. Becomes(u, x) /\ Given(u, LowestFree) /\ UNCHANGED <<robbers, streamHistory>>
  BY <1>0, <1>1, <1>3, <1>a DEF ThreadOpens
<1>8. taken' = taken /\ ended' = ended /\ closed' = closed /\ robbers' = robbers
  BY <1>7 DEF streamHistory
<1>9. Descriptors(u, x.id)
  BY <1>0, <1>4, <1>7, <1>8 DEF Descriptors
<1> QED
  BY <1>4, <1>6, <1>7, <1>8, <1>9, QuietStep

\* The thread that has failed gives it none.
LEMMA ThreadFailsSteps ==
  ASSUME StreamsInv, NEW u \in Streams, ThreadFails(u)
  PROVE  Steps(u)
<1>1. PICK s : s = stream[u]
  OBVIOUS
<1>2. /\ Sound(s, taken[u]) /\ s \in StreamRecord /\ s.life = "open" /\ s.c \in SConn
  BY <1>1, StreamIs DEF ThreadFails, Held
<1>a. PICK d : d = OpenFailed(s.c)
  OBVIOUS
<1>3. PICK x : x = [s EXCEPT !.c = d]
  OBVIOUS
<1>b. d \in SConn /\ d.state = "Failed"
  BY <1>2, <1>a, ConnChanges
<1>4. x \in StreamRecord /\ x.life = "open" /\ x.c = d /\ x.id = s.id
  BY <1>2, <1>3, <1>b DEF StreamRecord
<1>5. Sound(x, taken[u])
  BY <1>2, <1>4, <1>b DEF Sound
<1>7. Becomes(u, x) /\ UNCHANGED <<fdOwner, robbers, streamHistory>>
  BY <1>1, <1>3, <1>a DEF ThreadFails
<1>8. taken' = taken /\ ended' = ended /\ closed' = closed /\ fdOwner' = fdOwner /\ robbers' = robbers
  BY <1>7 DEF streamHistory
<1>9. Descriptors(u, x.id)
  BY <1>1, <1>4, <1>8 DEF Descriptors
<1> QED
  BY <1>4, <1>5, <1>7, <1>8, <1>9, QuietStep

\* Nothing is said of the bytes of a connection that was closed or has failed.
LEMMA ClosedSound ==
  ASSUME NEW x \in StreamRecord, x.life # "none", x.c.state \in {"Closed", "Failed"},
         NEW t \in Nat
  PROVE  Sound(x, t)
BY DEF Sound

\* close and dispose mark the stream as closed, whatever its thread was at.
LEMMA ClosesSteps ==
  ASSUME StreamsInv, NEW u \in Streams, NEW life \in {"open", "disposed"}, Closes(u, life),
         closed' = closed \cup {u}, UNCHANGED <<taken, ended, unheard, reads>>
  PROVE  Steps(u)
<1>0. PICK n : n = LowestFree /\ n \in Nat
  BY LowestIsFree DEF StreamsInv
<1>1. PICK s : s = stream[u]
  OBVIOUS
<1>2. s \in StreamRecord /\ s.c \in SConn /\ s.id \in Int /\ taken[u] \in Nat
  BY <1>1, StreamIs
<1>3. PICK d : d = Close(s.c)
  OBVIOUS
<1>4. d \in SConn /\ d.state = "Closed"
  BY <1>2, <1>3, ConnChanges
<1>5. PICK y : y = [s EXCEPT !.life = life, !.c = d]
  OBVIOUS
<1>6. y \in StreamRecord /\ y.life = life /\ y.c = d /\ y.id = s.id
  BY <1>2, <1>4, <1>5 DEF StreamRecord
<1>7. ASSUME NEW x \in StreamRecord, x.life = life, x.c = d, Becomes(u, x),
             Descriptors(u, x.id)
      PROVE  Steps(u)
  <2>1. Sound(x, taken[u])
    BY <1>2, <1>4, <1>7, ClosedSound
  <2>2. taken' = taken /\ ended' = ended /\ closed \subseteq closed' /\ u \in closed'
    OBVIOUS
  <2> QED
    BY <1>7, <2>1, <2>2, QuietStep
<1>8. y = [stream[u] EXCEPT !.life = life, !.c = Close(@)]
  BY <1>1, <1>3, <1>5
<1>9. CASE StateOf(u) = "Starting"
  <2>1. PICK id \in {-1, LowestFree} : Becomes(u, [y EXCEPT !.id = id])
    BY <1>8, <1>9 DEF Closes
  <2>2. fdOwner' = fdOwner /\ robbers' = robbers
    BY <1>9 DEF Closes
  <2>3. PICK x : x = [y EXCEPT !.id = id]
    OBVIOUS
  <2>4. id \in Int
    BY <1>0
  <2>5. x \in StreamRecord /\ x.life = life /\ x.c = d /\ x.id = id
    BY <1>6, <2>3, <2>4 DEF StreamRecord
  <2>6. Descriptors(u, x.id)
    BY <2>2 DEF Descriptors
  <2> QED
    BY <1>7, <2>1, <2>3, <2>5, <2>6
<1>10. CASE StateOf(u) # "Starting"
  <2>1. Becomes(u, y) /\ KernelCloses(u, stream[u].id)
    BY <1>8, <1>10 DEF Closes
  <2>2. Descriptors(u, y.id)
    BY <2>1 DEF Descriptors
  <2> QED
    BY <1>6, <1>7, <2>1, <2>2
<1> QED
  BY <1>9, <1>10

\* Only who was closed is destroyed.
LEMMA DestroySteps ==
  ASSUME StreamsInv, NEW u \in Streams, Destroy(u)
  PROVE  Steps(u)
<1>1. PICK x : x = [NoStream EXCEPT !.life = "gone"]
  OBVIOUS
<1>2. /\ x \in StreamRecord /\ x.life = "gone" /\ x.c = Dialing /\ x.id = -1
  BY <1>1, DialingIs DEF StreamRecord
<1>3. taken[u] \in Nat
  BY StreamIs
<1>4. Sound(x, taken[u])
  BY <1>2, <1>3, DialingIs DEF Sound
<1>5. Becomes(u, x) /\ KernelCloses(u, stream[u].id) /\ UNCHANGED streamHistory
  BY <1>1 DEF Destroy
<1>6. taken' = taken /\ ended' = ended /\ closed' = closed
  BY <1>5 DEF streamHistory
<1>7. Descriptors(u, x.id)
  BY <1>2, <1>5 DEF Descriptors
<1> QED
  BY <1>2, <1>4, <1>5, <1>6, <1>7, QuietStep

\* Of an open stream that is still open, the bytes in a row.
LEMMA ReadySound ==
  ASSUME NEW x \in StreamRecord, x.c.state = "Ready", x.life = "open", NEW t \in Nat,
         InRow(x.c, t)
  PROVE  Sound(x, t)
BY DEF Sound

\* A connection that stays open changes and keeps its descriptor.
LEMMA ConnStep ==
  ASSUME StreamsInv, NEW u \in Streams, Held(u), StateOf(u) = "Ready",
         NEW d \in SConn, d.state = "Ready", InRow(d, taken[u]),
         Becomes(u, [stream[u] EXCEPT !.c = d]), UNCHANGED <<fdOwner, robbers>>,
         UNCHANGED <<taken, ended, unheard, closed, reads>>
  PROVE  Steps(u)
<1>1. PICK s : s = stream[u]
  OBVIOUS
<1>2. s \in StreamRecord /\ s.life = "open" /\ taken[u] \in Nat
  BY <1>1, StreamIs DEF Held
<1>3. PICK x : x = [s EXCEPT !.c = d]
  OBVIOUS
<1>4. x \in StreamRecord /\ x.life = "open" /\ x.c = d /\ x.id = s.id
  BY <1>2, <1>3 DEF StreamRecord
<1>5. Sound(x, taken[u])
  BY <1>2, <1>4, ReadySound
<1>6. Becomes(u, x) /\ Descriptors(u, x.id)
  BY <1>1, <1>3, <1>4 DEF Descriptors
<1> QED
  BY <1>4, <1>5, <1>6, QuietStep

\* The peer sends the next byte.
LEMMA SendingInRow ==
  ASSUME NEW e \in SConn, NEW t \in Nat, InRow(e, t)
  PROVE  LET d == [e EXCEPT !.wire = Append(@, (t + Len(e.buffer) + Len(e.wire)) + 1)]
         IN  d \in SConn /\ d.state = e.state /\ InRow(d, t)
<1>1. PICK w \in Seq(Nat), m \in Nat, b \in Nat : w = e.wire /\ m = Len(w) /\ b = Len(e.buffer)
  BY SConnIs
<1>2. PICK v : v = Append(w, (t + b + m) + 1)
  OBVIOUS
<1>3. /\ v \in Seq(Nat) /\ Len(v) = m + 1 /\ v[m + 1] = t + b + (m + 1)
      /\ \A i \in 1..m : v[i] = w[i]
  <2>0. m \in Nat /\ b \in Nat /\ w \in Seq(Nat) /\ Len(w) = m
    BY <1>1
  <2>1. PICK z \in Nat : z = (t + b + m) + 1
    OBVIOUS
  <2>2. z = t + b + (m + 1)
    BY <2>1
  <2>3. v = Append(w, z)
    BY <1>2, <2>1
  <2> QED
    BY <2>0, <2>2, <2>3
<1>4. PICK d : d = [e EXCEPT !.wire = v]
  OBVIOUS
<1>5. d \in SConn /\ d.state = e.state /\ d.buffer = e.buffer /\ d.wire = v
  BY <1>3, <1>4 DEF SConn
<1>6. \A i \in 1..m : w[i] = t + b + i
  BY <1>1 DEF InRow
<1>7. ASSUME NEW i \in 1..(m + 1) PROVE v[i] = t + b + i
  <2>1. CASE i \in 1..m
    BY <1>3, <1>6, <2>1
  <2>2. CASE i = m + 1
    BY <1>3, <2>2
  <2> QED
    BY <1>1, <2>1, <2>2
<1>8. InRow(d, t)
  BY <1>1, <1>3, <1>5, <1>7 DEF InRow
<1> QED
  BY <1>1, <1>2, <1>4, <1>5, <1>8

\* A byte more is on the wire.
LEMMA StreamSendsSteps ==
  ASSUME StreamsInv, NEW u \in Streams, StreamSends(u)
  PROVE  Steps(u)
<1>1. PICK e : e = stream[u].c
  OBVIOUS
<1>2. e \in SConn /\ e.state = "Ready" /\ taken[u] \in Nat /\ InRow(e, taken[u])
  BY <1>1, StreamIs DEF StreamSends, StateOf, Sound
<1>3. PICK d : d = [e EXCEPT !.wire = Append(@, (taken[u] + Len(e.buffer) + Len(e.wire)) + 1)]
  OBVIOUS
<1>4. d \in SConn /\ d.state = e.state /\ InRow(d, taken[u])
  BY <1>2, <1>3, SendingInRow
<1>5. PICK s : s = stream[u]
  OBVIOUS
<1>6. s \in StreamRecord /\ s.c = e
  BY <1>1, <1>5, StreamIs
<1>7. Becomes(u, [s EXCEPT !.c.wire = Append(@, SentTo(u) + 1)])
  BY <1>5 DEF StreamSends
<1>8. [s EXCEPT !.c.wire = Append(@, SentTo(u) + 1)] = [s EXCEPT !.c = d]
  <2>1. SentTo(u) = taken[u] + Len(e.buffer) + Len(e.wire)
    BY <1>1 DEF SentTo
  <2> QED
    BY <1>3, <1>6, <2>1 DEF StreamRecord
<1> QED
  BY <1>2, <1>4, <1>5, <1>7, <1>8, ConnStep DEF StreamSends, streamHistory

\* The peer ends the stream, and a reset may lose the last bytes.
LEMMA StreamEndsSteps ==
  ASSUME StreamsInv, NEW u \in Streams, StreamEnds(u)
  PROVE  Steps(u)
<1>1. PICK e : e = stream[u].c
  OBVIOUS
<1>2. e \in SConn /\ e.state = "Ready" /\ taken[u] \in Nat /\ InRow(e, taken[u])
  BY <1>1, StreamIs DEF StreamEnds, StateOf, Sound
<1>3. PICK s : s = stream[u]
  OBVIOUS
<1>4. s \in StreamRecord /\ s.c = e
  BY <1>1, <1>3, StreamIs
<1>5. /\ Held(u) /\ StateOf(u) = "Ready" /\ fdOwner' = fdOwner /\ robbers' = robbers
      /\ UNCHANGED <<taken, ended, unheard, closed, reads>>
  BY DEF StreamEnds
<1>6. CASE Becomes(u, [s EXCEPT !.c.peer = "closed"])
  <2>1. PICK d : d = [e EXCEPT !.peer = "closed"]
    OBVIOUS
  <2>2. d \in SConn /\ d.state = "Ready" /\ d.buffer = e.buffer /\ d.wire = e.wire
    BY <1>2, <2>1 DEF SConn
  <2>3. InRow(d, taken[u])
    BY <1>2, <2>2 DEF InRow
  <2>4. [s EXCEPT !.c.peer = "closed"] = [s EXCEPT !.c = d]
    BY <1>4, <2>1 DEF StreamRecord
  <2> QED
    BY <1>3, <1>5, <1>6, <2>2, <2>3, <2>4, ConnStep
<1>7. CASE \E k \in 0..Len(e.wire) :
             Becomes(u, [s EXCEPT !.c.peer = "reset", !.c.wire = SubSeq(@, 1, k)])
  <2>1. PICK k \in 0..Len(e.wire) :
          Becomes(u, [s EXCEPT !.c.peer = "reset", !.c.wire = SubSeq(@, 1, k)])
    BY <1>7
  <2>2. PICK w \in Seq(Nat) : w = e.wire
    BY <1>2, SConnIs
  <2>3. PICK v : v = SubSeq(w, 1, k)
    OBVIOUS
  <2>4. /\ v \in Seq(Nat) /\ Len(v) = k /\ k \in Nat /\ k <= Len(w)
        /\ \A i \in 1..k : v[i] = w[i]
    BY <2>2, <2>3
  <2>5. PICK d : d = [e EXCEPT !.peer = "reset", !.wire = v]
    OBVIOUS
  <2>6. d \in SConn /\ d.state = "Ready" /\ d.buffer = e.buffer /\ d.wire = v
    BY <1>2, <2>4, <2>5 DEF SConn
  <2>7. InRow(d, taken[u])
    <3>1. \A i \in 1..Len(w) : w[i] = taken[u] + Len(e.buffer) + i
      BY <1>2, <2>2 DEF InRow
    <3>2. \A i \in 1..k : i \in 1..Len(w)
      BY <2>2, <2>4
    <3>3. \A i \in 1..k : v[i] = taken[u] + Len(e.buffer) + i
      BY <2>4, <3>1, <3>2
    <3> QED
      BY <1>2, <2>4, <2>6, <3>3 DEF InRow
  <2>8. [s EXCEPT !.c.peer = "reset", !.c.wire = SubSeq(@, 1, k)] = [s EXCEPT !.c = d]
    BY <1>2, <1>4, <2>2, <2>3, <2>5 DEF StreamRecord, SConn
  <2> QED
    BY <1>3, <1>5, <2>1, <2>6, <2>7, <2>8, ConnStep
<1> QED
  BY <1>1, <1>3, <1>6, <1>7 DEF StreamEnds

\* What the descriptors do when preload may have found the end.
PreloadedTo(u, y, x) == /\ x \in StreamRecord /\ x.life = y.life /\ x.c = y.c
                        /\ Becomes(u, x) /\ Descriptors(u, x.id)

\* preload closes and forgets the descriptor at the end of the stream, or leaves it.
LEMMA PreloadedSteps ==
  ASSUME NEW u, NEW y \in StreamRecord, y.id = stream[u].id, Preloaded(u, y)
  PROVE  \E x : PreloadedTo(u, y, x)
<1>1. CASE StateOf(u) = "Ready" /\ y.c.state \in {"Finished", "Closed"}
  <2>1. PICK x : x = [y EXCEPT !.id = -1]
    OBVIOUS
  <2>2. x \in StreamRecord /\ x.life = y.life /\ x.c = y.c /\ x.id = -1
    BY <2>1 DEF StreamRecord
  <2>3. Becomes(u, x) /\ KernelCloses(u, stream[u].id)
    BY <1>1, <2>1 DEF Preloaded
  <2> QED
    BY <2>2, <2>3 DEF PreloadedTo, Descriptors
<1>2. CASE ~ (StateOf(u) = "Ready" /\ y.c.state \in {"Finished", "Closed"})
  <2>1. Becomes(u, y) /\ fdOwner' = fdOwner /\ robbers' = robbers
    BY <1>2 DEF Preloaded
  <2> QED
    BY <2>1 DEF PreloadedTo, Descriptors
<1> QED
  BY <1>1, <1>2

\* The pass of the main thread looks for one more byte at most.
LEMMA UpdateSteps ==
  ASSUME StreamsInv, NEW u \in Streams, NEW r \in OneMore(u), Update(u, r)
  PROVE  Steps(u)
<1>1. PICK s : s = stream[u]
  OBVIOUS
<1>2. /\ Sound(s, taken[u]) /\ s \in StreamRecord /\ s.c \in SConn /\ s.life = "open"
      /\ taken[u] \in Nat
  BY <1>1, StreamIs DEF Update, Held
<1>3. PICK a \in BOOLEAN : a = (s.needsConnection /\ ~ (s.needsConnection
                                  /\ StateOf(u) \in {"Ready", "Finished", "Closed"}))
  BY Zenon
<1>4. PICK b \in BOOLEAN : b = (s.needsData /\ ~ ((s.needsData /\ StateOf(u) = "Ready") /\ r.ok))
  BY Zenon
<1>5. PICK d : d = IF s.needsData /\ StateOf(u) = "Ready" THEN r.c ELSE s.c
  OBVIOUS
<1>6. PICK y : y = [s EXCEPT !.needsConnection = a, !.needsData = b, !.c = d]
  OBVIOUS
<1>7. Preloaded(u, y)
  <2>1. y = [s EXCEPT !.needsConnection = @ /\ ~ (s.needsConnection
                                  /\ StateOf(u) \in {"Ready", "Finished", "Closed"}),
                      !.needsData = @ /\ ~ ((s.needsData /\ StateOf(u) = "Ready") /\ r.ok),
                      !.c = IF s.needsData /\ StateOf(u) = "Ready" THEN r.c ELSE @]
    BY <1>2, <1>3, <1>4, <1>5, <1>6 DEF StreamRecord
  <2> QED
    BY <1>1, <2>1 DEF Update
<1>8. \/ d = s.c
      \/ Preloads(r, s.c, Len(s.c.buffer) + 1) /\ d = r.c /\ s.c.state = "Ready"
  <2>1. CASE s.needsData /\ StateOf(u) = "Ready"
    <3>1. s.c.state = "Ready" /\ Len(s.c.buffer) + 1 \in Int
      BY <1>1, <1>2, <2>1, SConnIs DEF StateOf
    <3>2. r \in preload(s.c, Len(s.c.buffer) + 1)
      BY <1>1 DEF OneMore
    <3>3. Preloads(r, s.c, Len(s.c.buffer) + 1)
      BY <1>2, <3>1, <3>2, PreloadShifts
    <3> QED
      BY <1>5, <2>1, <3>1, <3>3
  <2> QED
    BY <1>5, <2>1
<1>9. d \in SConn
  BY <1>2, <1>8 DEF Preloads, Shifts
<1>10. y \in StreamRecord /\ y.life = "open" /\ y.c = d /\ y.id = s.id
  BY <1>2, <1>6, <1>9 DEF StreamRecord
<1>11. PICK x : PreloadedTo(u, y, x)
  BY <1>1, <1>7, <1>10, PreloadedSteps
<1>12. x \in StreamRecord /\ x.life = "open" /\ x.c = d
  BY <1>10, <1>11 DEF PreloadedTo
<1>13. Sound(x, taken[u])
  <2>1. CASE d = s.c
    BY <1>2, <1>12, <2>1 DEF Sound
  <2>2. CASE Preloads(r, s.c, Len(s.c.buffer) + 1) /\ d = r.c /\ s.c.state = "Ready"
    <3>1. InRow(s.c, taken[u])
      BY <1>2, <2>2 DEF Sound
    <3>2. InRow(d, taken[u])
      BY <1>2, <2>2, <3>1 DEF Preloads, Shifts
    <3>3. d.state \in {"Ready", "Failed"} \/ (d.state = "Finished" /\ Len(d.wire) = 0)
      BY <2>2 DEF Preloads
    <3> QED
      BY <1>2, <1>12, <3>2, <3>3 DEF Sound
  <2> QED
    BY <1>8, <2>1, <2>2
<1>14. taken' = taken /\ ended' = ended /\ closed' = closed
  BY DEF Update
<1>15. Becomes(u, x) /\ Descriptors(u, x.id)
  BY <1>11 DEF PreloadedTo
<1> QED
  BY <1>12, <1>13, <1>14, <1>15, QuietStep

\* A read gives the next bytes, and closes the stream at its end.
LEMMA ReadStreamSteps ==
  ASSUME StreamsInv, NEW u \in Streams, NEW n \in Amounts, ReadStream(u, n)
  PROVE  Steps(u)
<1>0. n \in Int
  BY StreamAssumption
<1>1. PICK e : e = stream[u]
  OBVIOUS
<1>2. /\ Sound(e, taken[u]) /\ e \in StreamRecord /\ e.c \in SConn /\ e.life = "open"
      /\ taken[u] \in Nat
  BY <1>1, StreamIs DEF ReadStream, Held
<1>3. PICK s : s = [e EXCEPT !.needsData = TRUE]
  OBVIOUS
<1>4. s \in StreamRecord /\ s.life = "open" /\ s.c = e.c /\ s.id = e.id
  BY <1>2, <1>3 DEF StreamRecord
<1>5. CASE StateOf(u) \notin {"Ready", "Finished"}
  <2>1. /\ Becomes(u, s) /\ fdOwner' = fdOwner /\ robbers' = robbers
        /\ taken' = taken /\ ended' = ended /\ closed' = closed
    BY <1>1, <1>3, <1>5 DEF ReadStream
  <2>2. Sound(s, taken[u])
    BY <1>2, <1>4 DEF Sound
  <2>3. Descriptors(u, s.id)
    BY <1>1, <1>4, <2>1 DEF Descriptors
  <2> QED
    BY <1>4, <2>1, <2>2, <2>3, QuietStep
<1>6. CASE StateOf(u) \in {"Ready", "Finished"}
  <2>1. PICK r \in Results(s.c, n) :
          LET atEnd == r.out = <<>> /\ r.c.state = "Finished"
          IN  /\ Preloaded(u, [s EXCEPT !.c = IF atEnd THEN Close(r.c) ELSE r.c])
              /\ taken' = [taken EXCEPT ![u] = @ + Len(r.out)]
              /\ ended' = IF atEnd /\ n > 0 THEN ended \cup {u} ELSE ended
    BY <1>1, <1>3, <1>6 DEF ReadStream
  <2>2. e.c.state \in {"Ready", "Finished"} /\ InRow(e.c, taken[u])
        /\ (e.c.state = "Finished" => Len(e.c.wire) = 0)
    BY <1>1, <1>2, <1>6 DEF StateOf, Sound
  <2>3. Gives(r, e.c, n)
    BY <1>0, <1>2, <1>4, <2>1, <2>2, ResultsGive
  <2>4. PICK k \in Nat : k = Len(r.out)
    BY <2>3 DEF Gives
  <2>5. PICK d : d = IF r.out = <<>> /\ r.c.state = "Finished" THEN Close(r.c) ELSE r.c
    OBVIOUS
  <2>6. d \in SConn
    BY <2>3, <2>5, ConnChanges DEF Gives
  <2>7. PICK y : y = [s EXCEPT !.c = d]
    OBVIOUS
  <2>8. y \in StreamRecord /\ y.life = "open" /\ y.c = d /\ y.id = stream[u].id
    BY <1>1, <1>4, <2>6, <2>7 DEF StreamRecord
  <2>9. Preloaded(u, y)
    BY <2>1, <2>5, <2>7
  <2>10. PICK x : PreloadedTo(u, y, x)
    BY <2>8, <2>9, PreloadedSteps
  <2>11. x \in StreamRecord /\ x.life = "open" /\ x.c = d /\ Becomes(u, x) /\ Descriptors(u, x.id)
    BY <2>8, <2>10 DEF PreloadedTo
  <2>12. PICK t \in Nat : t = taken[u] + k
    BY <1>2
  <2>13. Sound(x, t)
    <3>1. CASE r.out = <<>> /\ r.c.state = "Finished"
      <4>1. d.state = "Closed"
        BY <2>3, <2>5, <3>1, ConnChanges DEF Gives
      <4> QED
        BY <2>11, <4>1, ClosedSound
    <3>2. CASE ~ (r.out = <<>> /\ r.c.state = "Finished")
      <4>1. d = r.c
        BY <2>5, <3>2
      <4>2. /\ InRow(d, t) /\ d.state # "Starting"
            /\ (d.state = "Finished" => Len(d.wire) = 0)
        BY <1>2, <2>2, <2>3, <2>4, <2>12, <4>1 DEF Gives
      <4> QED
        BY <2>11, <4>2 DEF Sound
    <3> QED
      BY <3>1, <3>2
  <2>14. taken' = [taken EXCEPT ![u] = t]
    BY <2>1, <2>4, <2>12
  <2>15. closed' = closed
    BY DEF ReadStream
  <2>16. Moves(u, x, t)
    BY <2>11, <2>13, <2>14, <2>15 DEF Moves
  <2>17. Ending
    <3> SUFFICES ASSUME NEW w \in Streams, w \in ended' \ ended PROVE taken'[w] = SentTo(w)
      BY DEF Ending
    <3>1. w = u /\ r.out = <<>> /\ r.c.state = "Finished" /\ n > 0
      BY <2>1
    <3>2. Len(e.c.buffer) = 0 /\ Len(e.c.wire) = 0
      BY <2>3, <3>1 DEF Gives
    <3>3. k = 0 /\ t = taken[u]
      BY <1>2, <2>4, <2>12, <3>1
    <3>4. SentTo(u) = taken[u]
      BY <1>1, <1>2, <3>2 DEF SentTo
    <3>5. taken'[u] = t
      <4>1. taken = [v \in Streams |-> taken[v]]
        BY DEF StreamsInv, StreamsSound
      <4> QED
        BY <2>14, <4>1
    <3> QED
      BY <3>1, <3>3, <3>4, <3>5
  <2> QED
    BY <2>16, <2>17 DEF Steps
<1> QED
  BY <1>5, <1>6

-----------------------------------------------------------------------------
(* The theorems *)

\* Every step of the streams is a step on one.
LEMMA NextSteps ==
  ASSUME StreamsInv, StreamsNext
  PROVE  robbers = {} /\ \E u \in Streams : Steps(u)
<1>1. robbers = {}
  BY DEF StreamsNext
<1>2. PICK u \in Streams :
       \/ connect(u) \/ request(u) \/ finishConnect(u) \/ \E n \in Amounts : ReadStream(u, n)
       \/ LuaCloses(u) \/ Dispose(u) \/ Destroy(u)
       \/ \E r \in OneMore(u) : Update(u, r)
       \/ ThreadOpens(u) \/ ThreadFails(u) \/ StreamSends(u) \/ StreamEnds(u)
  BY DEF StreamsNext
<1>3. ASSUME LuaCloses(u) PROVE Steps(u)
  <2>1. "open" \in {"open", "disposed"} /\ Closes(u, "open") /\ closed' = closed \cup {u}
        /\ UNCHANGED <<taken, ended, unheard, reads>>
    BY <1>3 DEF LuaCloses
  <2> QED
    BY <2>1, ClosesSteps
<1>4. ASSUME Dispose(u) PROVE Steps(u)
  <2>1. "disposed" \in {"open", "disposed"} /\ Closes(u, "disposed") /\ closed' = closed \cup {u}
        /\ UNCHANGED <<taken, ended, unheard, reads>>
    BY <1>4 DEF Dispose
  <2> QED
    BY <2>1, ClosesSteps
<1>5. ASSUME NEW n \in Amounts, ReadStream(u, n) PROVE Steps(u)
  BY <1>5, ReadStreamSteps
<1>6. ASSUME NEW r \in OneMore(u), Update(u, r) PROVE Steps(u)
  BY <1>6, UpdateSteps
<1>7. connect(u) \/ request(u) \/ finishConnect(u) \/ Destroy(u) => Steps(u)
  BY connectSteps, requestSteps, finishConnectSteps, DestroySteps
<1>8. ThreadOpens(u) \/ ThreadFails(u) \/ StreamSends(u) \/ StreamEnds(u) => Steps(u)
  BY ThreadOpensSteps, ThreadFailsSteps, StreamSendsSteps, StreamEndsSteps
<1> QED
  BY <1>1, <1>2, <1>3, <1>4, <1>5, <1>6, <1>7, <1>8, Zenon

\* The invariant is inductive.
LEMMA StreamsInvStays == StreamsInv /\ [StreamsNext]_streamVars => StreamsInv'
<1> SUFFICES ASSUME StreamsInv, [StreamsNext]_streamVars PROVE StreamsInv'
  OBVIOUS
<1>1. CASE StreamsNext
  BY <1>1, NextSteps, StepsKeep
<1>2. CASE UNCHANGED streamVars
  BY <1>2 DEF streamVars, StreamsInv, StreamsSound, Disposed, Owned, Table
<1> QED
  BY <1>1, <1>2

\* However streams are opened, read to their end, closed and collected, a connection that
\* closes the descriptor of another was closed before its destructor (connection.cpp:98).
THEOREM OnlyTheClosedRob == StreamsSpec => ClosesItsOwn
<1>1. StreamsInv /\ [StreamsNext]_streamVars
        => [robbers' \ robbers \subseteq closed]_streamVars
  <2> SUFFICES ASSUME StreamsInv, StreamsNext PROVE robbers' \ robbers \subseteq closed
    OBVIOUS
  <2> QED
    BY NextSteps, StepsKeep
<1> QED
  BY <1>1, StreamsStart, StreamsInvStays, PTL DEF StreamsSpec, ClosesItsOwn

\* The bytes that a connection holds or will receive follow those that Lua has read.
LEMMA BytesFollow ==
  ASSUME StreamsInv, NEW u \in Streams, StateOf(u) \in {"Ready", "Finished"}
  PROVE  \A i \in DOMAIN Bytes(u) : Bytes(u)[i] = taken[u] + i
<1>1. PICK t \in Nat : t = taken[u]
  BY StreamIs
<1>2. PICK b \in Seq(Nat) : b = stream[u].c.buffer
  BY StreamIs, SConnIs
<1>3. PICK w \in Seq(Nat) : w = stream[u].c.wire
  BY StreamIs, SConnIs
<1>4. /\ \A i \in 1..Len(b) : b[i] = t + i
      /\ \A i \in 1..Len(w) : w[i] = t + Len(b) + i
  BY <1>1, <1>2, <1>3, StreamIs DEF StateOf, Sound, InRow
<1>5. PICK m \in Nat, l \in Nat : m = Len(b) /\ l = Len(w)
  OBVIOUS
<1>6. PICK a : a = b \o w
  OBVIOUS
<1>7. /\ a \in Seq(Nat) /\ Len(a) = m + l
      /\ \A i \in 1..m : a[i] = b[i]
      /\ \A i \in 1..l : a[m + i] = w[i]
  BY <1>5, <1>6
<1>8. ASSUME NEW i \in 1..(m + l) PROVE a[i] = t + i
  <2>1. CASE i <= m
    <3>1. i \in 1..m
      BY <2>1
    <3> QED
      BY <1>4, <1>5, <1>7, <3>1
  <2>2. CASE i > m
    <3>1. PICK j \in 1..l : i = m + j
      <4>1. i - m \in 1..l /\ i = m + (i - m)
        BY <2>2
      <4> QED
        BY <4>1
    <3>2. a[i] = w[j] /\ w[j] = t + m + j
      BY <1>4, <1>5, <1>7, <3>1
    <3> QED
      BY <3>1, <3>2
  <2> QED
    BY <2>1, <2>2
<1>9. DOMAIN a = 1..(m + l)
  BY <1>7
<1> QED
  BY <1>1, <1>2, <1>3, <1>6, <1>8, <1>9 DEF Bytes

\* Bytes come to Lua in their order, none lost or doubled, and a read that asked for some
\* tells the end only when Lua has all that had come or would (connection.cpp:112).
THEOREM ReadsInOrderToTheEnd == StreamsSpec => EndOnlyAtEnd
<1> DEFINE A == \A u \in Streams :
       /\ Held(u) /\ StateOf(u) \in {"Ready", "Finished"} =>
            \A i \in DOMAIN Bytes(u) : Bytes(u)[i] = taken[u] + i
       /\ u \in ended' \ ended => taken'[u] = SentTo(u)
<1>1. StreamsInv /\ [StreamsNext]_streamVars => [A]_streamVars
  <2> SUFFICES ASSUME StreamsInv, StreamsNext PROVE A
    OBVIOUS
  <2>1. Ending
    BY NextSteps DEF Steps
  <2>2. \A u \in Streams : StateOf(u) \in {"Ready", "Finished"} =>
            \A i \in DOMAIN Bytes(u) : Bytes(u)[i] = taken[u] + i
    BY BytesFollow
  <2> QED
    BY <2>1, <2>2 DEF Ending
<1> HIDE DEF A
<1>2. StreamsSpec => [][A]_streamVars
  BY <1>1, StreamsStart, StreamsInvStays, PTL DEF StreamsSpec
<1> QED
  BY <1>2 DEF A, EndOnlyAtEnd

-----------------------------------------------------------------------------
(* HttpResponse *)

\* Concatenations that are equal, as one fact each.
Associative(f, g, r)   == (f \o g) \o r = f \o (g \o r)
Regrouped(f, g, r, w)  == f \o ((g \o r) \o w) = (f \o g) \o (r \o w)

\* What is in the middle may be counted to either side.
LEMMA ConcatAssociates ==
  ASSUME NEW S, NEW f \in Seq(S), NEW g \in Seq(S), NEW r \in Seq(S)
  PROVE  Associative(f, g, r)
BY ConcatAssociative DEF Associative

\* The same of four parts.
LEMMA ConcatRegrouped ==
  ASSUME NEW S, NEW f \in Seq(S), NEW g \in Seq(S), NEW r \in Seq(S), NEW w \in Seq(S)
  PROVE  Regrouped(f, g, r, w)
<1>1. r \o w \in Seq(S)
  BY ConcatProperties
<1>2. Associative(g, r, w) /\ Associative(f, g, r \o w)
  BY <1>1, ConcatAssociates
<1> QED
  BY <1>2, Zenon DEF Associative, Regrouped

\* What has been cut of a text.
CutState == [lines : Seq(Seq(Byte)), rest : Seq(Byte)]
Uncut    == [lines |-> <<>>, rest |-> <<>>]

\* A byte more leaves such a state.
LEMMA NextByteType ==
  ASSUME NEW cut \in CutState, NEW e \in Byte
  PROVE  NextByte(cut, e) \in CutState
<1>1. cut.lines \in Seq(Seq(Byte)) /\ cut.rest \in Seq(Byte)
  BY DEF CutState
<1>2. Append(cut.lines, cut.rest) \in Seq(Seq(Byte)) /\ Append(cut.rest, e) \in Seq(Byte)
  BY <1>1, AppendProperties
<1> QED
  BY <1>1, <1>2 DEF NextByte, CutState

\* The recursion, place by place.
LEMMA CutsStep ==
  ASSUME NEW b \in Seq(Byte)
  PROVE  /\ Cuts(b)[0] = Uncut
         /\ \A i \in 1..Len(b) : Cuts(b)[i] = NextByte(Cuts(b)[i - 1], b[i])
         /\ \A i \in 0..Len(b) : Cuts(b)[i] \in CutState
<1> DEFINE F == [x \in Nat \X CutState |-> IF x[1] \in 1..Len(b) THEN NextByte(x[2], b[x[1]]) ELSE x[2]]
           Is(f) == f = [i \in 0..Len(b) |-> IF i = 0 THEN Uncut ELSE NextByte(f[i - 1], b[i])]
<1>0. Len(b) \in Nat /\ Uncut \in CutState
  BY DEF Uncut, CutState
<1>1. F \in [Nat \X CutState -> CutState]
  <2>1. \A n \in Nat, u \in CutState :
           (IF n \in 1..Len(b) THEN NextByte(u, b[n]) ELSE u) \in CutState
    BY NextByteType
  <2> QED
    BY <2>1
<1>2. \A i \in 1..Len(b), u \in CutState : F[<<i, u>>] = NextByte(u, b[i])
  OBVIOUS
<1> HIDE DEF F
<1>c. PICK g \in [0..Len(b) -> CutState] : Follows(g, Uncut, Len(b), F)
  BY <1>0, <1>1, StepsExist
<1>3. g[0] = Uncut /\ \A i \in 1..Len(b) : g[i] = F[<<i, g[i - 1]>>]
  BY <1>c DEF Follows
<1>4. ASSUME NEW i \in 0..Len(b), i # 0 PROVE g[i] = NextByte(g[i - 1], b[i])
  <2>1. i \in 1..Len(b) /\ i - 1 \in 0..Len(b)
    BY <1>0, <1>4
  <2>2. g[i - 1] \in CutState
    BY <2>1
  <2> QED
    BY <1>2, <1>3, <2>1, <2>2
<1>5. Is(g)
  BY <1>3, <1>4
<1>6. PICK f : f = Cuts(b)
  OBVIOUS
<1>7. f = CHOOSE h : Is(h)
  BY <1>6 DEF Cuts, Uncut
<1>8. Is(f)
  BY <1>5, <1>7
<1>9. f[0] = Uncut /\ \A i \in 1..Len(b) : f[i] = NextByte(f[i - 1], b[i])
  <2>1. \A i \in 0..Len(b) : f[i] = IF i = 0 THEN Uncut ELSE NextByte(f[i - 1], b[i])
    BY <1>8
  <2>2. 0 \in 0..Len(b) /\ \A i \in 1..Len(b) : i \in 0..Len(b) /\ i # 0
    BY <1>0
  <2> QED
    BY <2>1, <2>2
<1>10. \A i \in 0..Len(b) : f[i] \in CutState
  <2> DEFINE Good == {i \in Nat : i <= Len(b) => f[i] \in CutState}
  <2>1. 0 \in Good
    BY <1>0, <1>9
  <2>2. ASSUME NEW i \in Nat, i \in Good PROVE i + 1 \in Good
    <3> SUFFICES ASSUME i + 1 <= Len(b) PROVE f[i + 1] \in CutState
      OBVIOUS
    <3>1. f[i] \in CutState /\ i + 1 \in 1..Len(b) /\ (i + 1) - 1 = i
      BY <1>0, <2>2
    <3>2. b[i + 1] \in Byte
      BY <3>1, ElementOfSeq
    <3>3. f[i + 1] = NextByte(f[i], b[i + 1])
      BY <1>9, <3>1
    <3> QED
      BY <3>1, <3>2, <3>3, NextByteType
  <2> HIDE DEF Good
  <2>3. Nat \subseteq Good
    BY <2>1, <2>2, SetInduction
  <2> QED
    BY <1>0, <2>3 DEF Good
<1> QED
  BY <1>6, <1>9, <1>10

\* What is cut of a text are lines and a rest.
LEMMA CutType ==
  ASSUME NEW b \in Seq(Byte)
  PROVE  /\ Cut(b) \in CutState /\ Cut(b).lines \in Seq(Seq(Byte)) /\ Cut(b).rest \in Seq(Byte)
         /\ Cut(b) = [lines |-> Cut(b).lines, rest |-> Cut(b).rest]
<1>1. Len(b) \in 0..Len(b)
  OBVIOUS
<1>2. Cut(b) \in CutState
  BY <1>1, CutsStep DEF Cut
<1> QED
  BY <1>2 DEF CutState

\* Nothing is cut of nothing.
LEMMA CutEmpty == Cut(<<>>) = Uncut
<1>1. <<>> \in Seq(Byte) /\ Len(<<>>) = 0
  OBVIOUS
<1> QED
  BY <1>1, CutsStep DEF Cut

\* What follows does not change what was cut before it.
LEMMA CutAppend ==
  ASSUME NEW b \in Seq(Byte), NEW e \in Byte
  PROVE  Cut(Append(b, e)) = NextByte(Cut(b), e)
<1>1. PICK t \in Seq(Byte) : /\ t = Append(b, e) /\ Len(t) = Len(b) + 1 /\ t[Len(b) + 1] = e
                             /\ \A i \in 1..Len(b) : t[i] = b[i]
  <2>1. /\ Append(b, e) \in Seq(Byte) /\ Len(Append(b, e)) = Len(b) + 1 /\ Append(b, e)[Len(b) + 1] = e
        /\ \A i \in 1..Len(b) : Append(b, e)[i] = b[i]
    BY AppendProperties
  <2> QED
    BY <2>1
<1>2. PICK n \in Nat : n = Len(b)
  OBVIOUS
<1> DEFINE f == Cuts(b)
           g == Cuts(t)
<1>3. f[0] = Uncut /\ \A i \in 1..n : f[i] = NextByte(f[i - 1], b[i])
  BY <1>2, CutsStep
<1>4. g[0] = Uncut /\ \A i \in 1..(n + 1) : g[i] = NextByte(g[i - 1], t[i])
  BY <1>1, <1>2, CutsStep
<1> HIDE DEF f, g
<1> DEFINE Good == {i \in Nat : i <= n => f[i] = g[i]}
<1>5. 0 \in Good
  BY <1>3, <1>4
<1>6. ASSUME NEW i \in Nat, i \in Good PROVE i + 1 \in Good
  <2> SUFFICES ASSUME i + 1 <= n PROVE f[i + 1] = g[i + 1]
    OBVIOUS
  <2>1. f[i] = g[i] /\ i + 1 \in 1..n /\ i + 1 \in 1..(n + 1) /\ (i + 1) - 1 = i
    BY <1>6
  <2>2. t[i + 1] = b[i + 1]
    BY <1>1, <1>2, <2>1
  <2>3. f[i + 1] = NextByte(f[i], b[i + 1]) /\ g[i + 1] = NextByte(g[i], t[i + 1])
    BY <1>3, <1>4, <2>1
  <2> QED
    BY <2>1, <2>2, <2>3
<1> HIDE DEF Good
<1>7. Nat \subseteq Good
  BY <1>5, <1>6, SetInduction
<1>8. f[n] = g[n]
  BY <1>7 DEF Good
<1>9. n + 1 \in 1..(n + 1) /\ (n + 1) - 1 = n /\ t[n + 1] = e
  BY <1>1, <1>2
<1>10. g[n + 1] = NextByte(f[n], e)
  BY <1>4, <1>8, <1>9
<1>11. Cut(b) = f[n] /\ Cut(t) = g[n + 1]
  BY <1>1, <1>2 DEF Cut, f, g
<1> QED
  BY <1>1, <1>10, <1>11

\* The lines of f are the first ones of f and u.
CutsJoin(f, u) == Cut(f \o u) = [lines |-> Cut(f).lines \o Cut(u).lines, rest |-> Cut(u).rest]

\* A text that follows a newline is cut as it would be alone.
LEMMA CutConcat ==
  ASSUME NEW f \in Seq(Byte), Cut(f).rest = <<>>, NEW u \in Seq(Byte)
  PROVE  CutsJoin(f, u)
<1> DEFINE Good == {n \in Nat : \A v \in Seq(Byte) : Len(v) = n => CutsJoin(f, v)}
<1>0. PICK L \in Seq(Seq(Byte)) : L = Cut(f).lines /\ Cut(f) = [lines |-> L, rest |-> <<>>]
  BY CutType
<1>1. 0 \in Good
  <2> SUFFICES ASSUME NEW v \in Seq(Byte), Len(v) = 0 PROVE CutsJoin(f, v)
    OBVIOUS
  <2>1. v = <<>>
    BY EmptySeq
  <2>2. f \o v = f
    BY <2>1, ConcatEmptySeq
  <2>3. Cut(v).lines = <<>> /\ Cut(v).rest = <<>>
    BY <2>1, CutEmpty DEF Uncut
  <2>4. L \o Cut(v).lines = L
    BY <2>3, ConcatEmptySeq
  <2> QED
    BY <1>0, <2>2, <2>3, <2>4 DEF CutsJoin
<1>2. ASSUME NEW n \in Nat, n \in Good PROVE n + 1 \in Good
  <2> SUFFICES ASSUME NEW v \in Seq(Byte), Len(v) = n + 1 PROVE CutsJoin(f, v)
    OBVIOUS
  <2>1. PICK w \in Seq(Byte), e \in Byte : v = Append(w, e) /\ Len(w) = n
    BY LastApart
  <2>2. CutsJoin(f, w)
    BY <1>2, <2>1
  <2>3. f \o w \in Seq(Byte) /\ f \o v = Append(f \o w, e)
    BY <2>1, ConcatAppend
  <2>4. PICK M \in Seq(Seq(Byte)), r \in Seq(Byte) :
          M = Cut(w).lines /\ r = Cut(w).rest /\ Cut(w) = [lines |-> M, rest |-> r]
    BY CutType
  <2>5. Cut(f \o w) = [lines |-> L \o M, rest |-> r]
    BY <1>0, <2>2, <2>4 DEF CutsJoin
  <2>6. Cut(f \o v) = NextByte(Cut(f \o w), e) /\ Cut(v) = NextByte(Cut(w), e)
    BY <2>1, <2>3, CutAppend
  <2>7. L \o Append(M, r) = Append(L \o M, r)
    <3> DEFINE T == Seq(Byte)
    <3>1. L \in Seq(T) /\ M \in Seq(T) /\ r \in T
      BY <1>0, <2>4
    <3> HIDE DEF T
    <3> QED
      BY <3>1, ConcatAppend, SMTT(30)
  <2>8. CASE e = Newline
    <3>1. Cut(f \o v) = [lines |-> Append(L \o M, r), rest |-> <<>>]
      BY <2>5, <2>6, <2>8 DEF NextByte
    <3>2. Cut(v) = [lines |-> Append(M, r), rest |-> <<>>]
      BY <2>4, <2>6, <2>8 DEF NextByte
    <3>3. Cut(v).lines = Append(M, r) /\ Cut(v).rest = <<>>
      BY <3>2
    <3> QED
      BY <1>0, <2>7, <3>1, <3>2, <3>3 DEF CutsJoin
  <2>9. CASE e # Newline
    <3>1. Cut(f \o v) = [lines |-> L \o M, rest |-> Append(r, e)]
      BY <2>5, <2>6, <2>9 DEF NextByte
    <3>2. Cut(v) = [lines |-> M, rest |-> Append(r, e)]
      BY <2>4, <2>6, <2>9 DEF NextByte
    <3> QED
      BY <1>0, <2>4, <3>1, <3>2 DEF CutsJoin
  <2> QED
    BY <2>8, <2>9
<1> HIDE DEF Good
<1>3. Nat \subseteq Good
  BY <1>1, <1>2, SetInduction
<1> QED
  <2>1. Len(u) \in Nat
    OBVIOUS
  <2>2. Len(u) \in Good
    BY <1>3, <2>1
  <2> QED
    BY <2>2 DEF Good

\* g is the lines of b with their newlines.
Splits(b, g) == /\ b = g \o Cut(b).rest
                /\ Cut(g) = [lines |-> Cut(b).lines, rest |-> <<>>]
                /\ Cut(Cut(b).rest) = [lines |-> <<>>, rest |-> Cut(b).rest]

\* What is left of a text has no newline, and what is in front of it ends with one.
LEMMA CutSplits ==
  ASSUME NEW b \in Seq(Byte)
  PROVE  \E g \in Seq(Byte) : Splits(b, g)
<1> DEFINE Good == {n \in Nat : \A v \in Seq(Byte) : Len(v) = n => \E g \in Seq(Byte) : Splits(v, g)}
<1>1. 0 \in Good
  <2> SUFFICES ASSUME NEW v \in Seq(Byte), Len(v) = 0 PROVE \E g \in Seq(Byte) : Splits(v, g)
    OBVIOUS
  <2>1. v = <<>>
    BY EmptySeq
  <2>2. Cut(v) = [lines |-> <<>>, rest |-> <<>>]
    BY <2>1, CutEmpty DEF Uncut
  <2>3. v = v \o <<>>
    BY ConcatEmptySeq
  <2>4. Splits(v, v)
    BY <2>1, <2>2, <2>3 DEF Splits
  <2> QED
    BY <2>4
<1>2. ASSUME NEW n \in Nat, n \in Good PROVE n + 1 \in Good
  <2> SUFFICES ASSUME NEW v \in Seq(Byte), Len(v) = n + 1 PROVE \E g \in Seq(Byte) : Splits(v, g)
    OBVIOUS
  <2>1. PICK w \in Seq(Byte), e \in Byte : v = Append(w, e) /\ Len(w) = n
    BY LastApart
  <2>2. PICK g \in Seq(Byte) : Splits(w, g)
    BY <1>2, <2>1
  <2>3. PICK M \in Seq(Seq(Byte)), r \in Seq(Byte) :
          M = Cut(w).lines /\ r = Cut(w).rest /\ Cut(w) = [lines |-> M, rest |-> r]
    BY CutType
  <2>4. /\ w = g \o r /\ Cut(g) = [lines |-> M, rest |-> <<>>]
        /\ Cut(r) = [lines |-> <<>>, rest |-> r]
    BY <2>2, <2>3 DEF Splits
  <2>5. Cut(v) = NextByte(Cut(w), e)
    BY <2>1, CutAppend
  <2>6. CASE e = Newline
    <3>1. Cut(v) = [lines |-> Append(M, r), rest |-> <<>>]
      BY <2>3, <2>5, <2>6 DEF NextByte
    <3>2. v = v \o <<>>
      BY ConcatEmptySeq
    <3>3. Cut(<<>>) = [lines |-> <<>>, rest |-> <<>>]
      BY CutEmpty DEF Uncut
    <3>4. Splits(v, v)
      BY <3>1, <3>2, <3>3 DEF Splits
    <3> QED
      BY <3>4
  <2>7. CASE e # Newline
    <3>1. Cut(v) = [lines |-> M, rest |-> Append(r, e)]
      BY <2>3, <2>5, <2>7 DEF NextByte
    <3>2. v = g \o Append(r, e)
      BY <2>1, <2>4, ConcatAppend
    <3>3. Cut(Append(r, e)) = [lines |-> <<>>, rest |-> Append(r, e)]
      BY <2>4, <2>7, CutAppend DEF NextByte
    <3>4. Splits(v, g)
      BY <2>4, <3>1, <3>2, <3>3 DEF Splits
    <3> QED
      BY <3>4
  <2> QED
    BY <2>6, <2>7
<1> HIDE DEF Good
<1>3. Nat \subseteq Good
  BY <1>1, <1>2, SetInduction
<1> QED
  <2>1. Len(b) \in Nat
    OBVIOUS
  <2>2. Len(b) \in Good
    BY <1>3, <2>1
  <2> QED
    BY <2>2 DEF Good

-----------------------------------------------------------------------------
(* The bytes that the child wrote, on their way *)

\* The bytes of e, of which some may have gone from the wire to the buffer.
BytesKept(d, e) == d \in Conn /\ d.peer = e.peer /\ d.buffer \o d.wire = e.buffer \o e.wire

\* Received keeps the bytes in their order.
LEMMA ReceivedKeeps ==
  ASSUME NEW e \in Conn, NEW k \in 0..Len(e.wire)
  PROVE  /\ BytesKept(Received(e, k), e) /\ Received(e, k).state = e.state
         /\ k = Len(e.wire) => Received(e, k).wire = <<>>
<1>1. PICK b \in Seq(Byte), w \in Seq(Byte) : b = e.buffer /\ w = e.wire
  BY DEF Conn
<1>2. k \in Nat /\ k <= Len(w) /\ Len(w) \in Nat
  BY <1>1
<1>a. PICK f : f = SubSeq(w, 1, k)
  OBVIOUS
<1>b. PICK v : v = SubSeq(w, k + 1, Len(w))
  OBVIOUS
<1>3. f \in Seq(Byte) /\ f = SubSeq(w, 1, k)
  BY <1>2, <1>a
<1>4. v \in Seq(Byte) /\ v = SubSeq(w, k + 1, Len(w)) /\ Len(v) = Len(w) - k
  BY <1>2, <1>b
<1>5. f \o v = w
  <2>1. 1 \in 1..(Len(w) + 1) /\ k \in (1 - 1)..Len(w) /\ Len(w) \in k..Len(w)
    BY <1>2
  <2>2. SubSeq(w, 1, k) \o SubSeq(w, k + 1, Len(w)) = SubSeq(w, 1, Len(w))
    BY <2>1, ConcatAdjacentSubSeq
  <2>3. SubSeq(w, 1, Len(w)) = w
    OBVIOUS
  <2> QED
    BY <1>3, <1>4, <2>2, <2>3
<1>6. b \o f \in Seq(Byte) /\ (b \o f) \o v = b \o w
  <2>1. f \in Seq(Byte) /\ v \in Seq(Byte)
    BY <1>3, <1>4
  <2>2. Associative(b, f, v)
    BY <2>1, ConcatAssociates
  <2>3. b \o f \in Seq(Byte)
    BY <2>1, ConcatProperties
  <2>4. (b \o f) \o v = b \o w
    BY <1>5, <2>2, Zenon DEF Associative
  <2> QED
    BY <2>3, <2>4
<1>7. PICK d : d = Received(e, k)
  OBVIOUS
<1>8. d = [e EXCEPT !.buffer = b \o f, !.wire = v]
  BY <1>1, <1>3, <1>4, <1>7 DEF Received, Skip
<1>c. PICK bf \in Seq(Byte) : bf = b \o f
  BY <1>6
<1>9. d \in Conn /\ d.peer = e.peer /\ d.state = e.state /\ d.buffer = b \o f /\ d.wire = v
  <2>1. d = [e EXCEPT !.buffer = bf, !.wire = v]
    BY <1>8, <1>c
  <2> QED
    BY <1>4, <1>c, <2>1 DEF Conn
<1>10. k = Len(w) => v = <<>>
  BY <1>4
<1> QED
  BY <1>1, <1>6, <1>7, <1>9, <1>10 DEF BytesKept

\* What preload makes of a connection that can be read.
Loaded(d, e) ==
  /\ BytesKept(d, e)
  /\ e.state = "Finished" => d = e
  /\ d.state \in {"Ready", "Failed", "Finished"}
  /\ e.state = "Ready" /\ d.state = "Finished" => d.wire = <<>> /\ e.peer # "open"

\* preload keeps them too, and finds the end only behind all of them.
LEMMA PreloadLoads ==
  ASSUME NEW e \in Conn, e.state \in {"Ready", "Finished"}, NEW n \in Int, NEW p \in preload(e, n)
  PROVE  Loaded(p.c, e)
<1>0. MaxBuffer \in Nat /\ Len(e.wire) \in Nat /\ Len(e.buffer) \in Nat
  BY ConnectionAssumption DEF Conn
<1>1. CASE p.c = e
  BY <1>1 DEF Loaded, BytesKept
<1>2. CASE p.c = [e EXCEPT !.state = "Failed"] /\ e.state = "Ready"
  <2>1. /\ p.c \in Conn /\ p.c.state = "Failed" /\ p.c.peer = e.peer /\ p.c.buffer = e.buffer
        /\ p.c.wire = e.wire
    BY <1>2 DEF Conn, ConnectionState
  <2> QED
    BY <1>2, <2>1 DEF Loaded, BytesKept
<1>3. ASSUME NEW k \in 0..Len(e.wire), p.c = Received(e, k), e.state = "Ready"
      PROVE  Loaded(p.c, e)
  BY <1>3, ReceivedKeeps DEF Loaded
<1>4. CASE /\ e.state = "Ready" /\ e.peer # "open"
           /\ p.c = [Received(e, Len(e.wire)) EXCEPT !.state = "Finished"]
  <2>1. PICK d : d = Received(e, Len(e.wire))
    OBVIOUS
  <2>2. Len(e.wire) \in 0..Len(e.wire)
    BY <1>0
  <2>3. BytesKept(d, e) /\ d.wire = <<>>
    BY <2>1, <2>2, ReceivedKeeps
  <2>4. d \in Conn /\ p.c = [d EXCEPT !.state = "Finished"]
    BY <1>4, <2>1, <2>3 DEF BytesKept
  <2>5. /\ p.c \in Conn /\ p.c.state = "Finished" /\ p.c.peer = d.peer /\ p.c.buffer = d.buffer
        /\ p.c.wire = d.wire
    BY <2>4 DEF Conn, ConnectionState
  <2> QED
    BY <1>4, <2>3, <2>5 DEF Loaded, BytesKept
<1>5. CASE e.state # "Ready"
  <2>1. p.c = e
    BY <1>5 DEF preload
  <2> QED
    BY <1>1, <2>1
<1>6. CASE e.state = "Ready"
  <2>1. PICK m \in Int : m = Min({n, MaxBuffer})
    BY <1>0, SmallerOf
  <2>2. p.c = [e EXCEPT !.state = "Failed"] \/ p \in ReadLoop(e, m)
    BY <1>6, <2>1 DEF preload
  <2>3. PICK need \in Int : need = Max({0, m - Len(e.buffer)})
    BY <1>0, LargerOf
  <2>4. PICK least \in Int : least = Min({need - 1, Len(e.wire)}) /\ least <= Len(e.wire)
    BY <1>0, SmallerOf
  <2>5. CASE p \in ReadLoop(e, m)
    <3>1. \/ p \in {[ok |-> TRUE, c |-> Received(e, k)] : k \in {need} \cap 0..Len(e.wire)}
          \/ p \in {[ok |-> FALSE, c |-> Received(e, k)] : k \in 0..least}
          \/ p \in {[ok |-> FALSE, c |-> [Received(e, k) EXCEPT !.state = "Finished"]] :
                     k \in {j \in {Len(e.wire)} : need > j /\ e.peer # "open"}}
      BY <2>3, <2>4, <2>5 DEF ReadLoop
    <3>2. 0..least \subseteq 0..Len(e.wire)
      BY <1>0, <2>4
    <3>3. \/ \E k \in 0..Len(e.wire) : p.c = Received(e, k)
          \/ e.peer # "open" /\ p.c = [Received(e, Len(e.wire)) EXCEPT !.state = "Finished"]
      BY <3>1, <3>2
    <3> QED
      BY <1>3, <1>4, <1>6, <3>3
  <2> QED
    BY <1>2, <1>6, <2>2, <2>5
<1> QED
  BY <1>5, <1>6

\* move leaves a connection.
LEMMA MoveType ==
  ASSUME NEW d \in Conn, NEW n \in Nat
  PROVE  move(d, n) \in Conn
<1>1. PICK b \in Seq(Byte) : b = d.buffer
  BY DEF Conn
<1>2. CASE n <= Len(b)
  <2>1. SubSeq(b, n + 1, Len(b)) \in Seq(Byte)
    BY <1>2
  <2>2. move(d, n) = [d EXCEPT !.buffer = SubSeq(b, n + 1, Len(b))]
    BY <1>1, <1>2 DEF move, Skip
  <2> QED
    BY <2>1, <2>2 DEF Conn
<1>3. CASE ~(n <= Len(b))
  BY <1>1, <1>3 DEF move
<1> QED
  BY <1>2, <1>3

\* What is moved are the lines and their newlines.
LEMMA WithoutLines ==
  ASSUME NEW d \in Conn, NEW g \in Seq(Byte), Splits(d.buffer, g)
  PROVE  Without(d) = [d EXCEPT !.buffer = Cut(d.buffer).rest]
<1>1. PICK b \in Seq(Byte), r \in Seq(Byte) : b = d.buffer /\ r = Cut(d.buffer).rest
  BY CutType DEF Conn
<1>2. b = g \o r
  BY <1>1 DEF Splits
<1>3. /\ Len(g) \in Nat /\ Len(r) \in Nat /\ Len(b) = Len(g) + Len(r)
      /\ \A i \in 1..Len(r) : b[Len(g) + i] = r[i]
  BY <1>2
<1>4. Len(b) - Len(r) = Len(g) /\ Len(g) <= Len(b)
  BY <1>3
<1>5. SubSeq(b, Len(g) + 1, Len(b)) = r
  <2>1. PICK s \in Seq(Byte) : s = SubSeq(b, Len(g) + 1, Len(b))
    BY <1>3
  <2>2. Len(s) = Len(r) /\ \A i \in 1..Len(r) : s[i] = b[Len(g) + i]
    BY <1>3, <2>1
  <2> QED
    BY <1>3, <2>1, <2>2, SeqEqual
<1> QED
  BY <1>1, <1>4, <1>5 DEF Without, move, Skip

-----------------------------------------------------------------------------
\* The beginning of a concatenation is its first part,
LEMMA BeginningOfConcat ==
  ASSUME NEW S, NEW t \in Seq(S), NEW r \in Seq(S)
  PROVE  Len(t) \in 0..Len(t \o r) /\ SubSeq(t \o r, 1, Len(t)) = t
<1> DEFINE c == t \o r
<1>1. /\ c \in Seq(S) /\ Len(c) = Len(t) + Len(r) /\ Len(t) \in Nat /\ Len(r) \in Nat
      /\ \A i \in 1..(Len(t) + Len(r)) : c[i] = IF i <= Len(t) THEN t[i] ELSE r[i - Len(t)]
  BY ConcatProperties
<1> HIDE DEF c
<1>2. \A i \in 1..Len(t) : c[i] = t[i] /\ c[i] \in S
  BY <1>1
<1> DEFINE p == SubSeq(c, 1, Len(t))
<1>3. p \in Seq(S) /\ Len(p) = Len(t) /\ \A i \in 1..Len(t) : p[i] = c[i]
  BY <1>1, <1>2
<1> HIDE DEF p
<1>4. p = t
  BY <1>2, <1>3, SeqEqual
<1> QED
  BY <1>1, <1>4 DEF c, p

\* and behind its first element the rest of that goes on with the second part.
LEMMA TailOfConcat ==
  ASSUME NEW S, NEW a \in Seq(S), NEW b \in Seq(S), a # <<>>
  PROVE  /\ a \o b # <<>> /\ (a \o b)[1] = a[1] /\ Tail(a \o b) = Tail(a) \o b
         /\ Tail(a) \in Seq(S)
<1> DEFINE c == a \o b
           t == Tail(a)
<1>1. /\ c \in Seq(S) /\ Len(c) = Len(a) + Len(b) /\ Len(a) \in Nat /\ Len(b) \in Nat
      /\ \A i \in 1..(Len(a) + Len(b)) : c[i] = IF i <= Len(a) THEN a[i] ELSE b[i - Len(a)]
  BY ConcatProperties
<1>2. t \in Seq(S) /\ Len(t) = Len(a) - 1 /\ Len(a) > 0 /\ \A i \in 1..Len(t) : t[i] = a[i + 1]
  BY HeadTailProperties
<1> HIDE DEF c, t
<1> DEFINE x == Tail(c)
           y == t \o b
<1>3. /\ c # <<>>
      /\ x \in Seq(S) /\ Len(x) = Len(c) - 1 /\ \A i \in 1..Len(x) : x[i] = c[i + 1]
  <2>1. c # <<>>
    BY <1>1, <1>2
  <2> QED
    BY <1>1, <2>1, HeadTailProperties
<1>4. /\ y \in Seq(S) /\ Len(y) = Len(t) + Len(b)
      /\ \A i \in 1..(Len(t) + Len(b)) : y[i] = IF i <= Len(t) THEN t[i] ELSE b[i - Len(t)]
  BY <1>2, ConcatProperties
<1> HIDE DEF x, y
<1>5. ASSUME NEW i \in 1..Len(x) PROVE x[i] = y[i]
  <2>1. i + 1 \in 1..(Len(a) + Len(b)) /\ i \in 1..(Len(t) + Len(b))
    BY <1>1, <1>2, <1>3, <1>5
  <2>2. CASE i <= Len(t)
    BY <1>1, <1>2, <1>3, <1>4, <2>1, <2>2
  <2>3. CASE ~ (i <= Len(t))
    <3>1. i - Len(t) = i + 1 - Len(a) /\ ~ (i + 1 <= Len(a))
      BY <1>1, <1>2, <2>3
    <3>2. c[i + 1] = b[i + 1 - Len(a)]
      BY <1>1, <2>1, <3>1
    <3>3. y[i] = b[i - Len(t)]
      BY <1>4, <2>1, <2>3
    <3> QED
      BY <1>3, <3>1, <3>2, <3>3
  <2> QED
    BY <2>2, <2>3
<1>6. x = y
  <2>1. Len(x) = Len(y)
    BY <1>1, <1>2, <1>3, <1>4
  <2> QED
    BY <1>3, <1>4, <1>5, <2>1, SeqEqual
<1>7. c[1] = a[1]
  BY <1>1, <1>2
<1> QED
  BY <1>2, <1>3, <1>6, <1>7 DEF c, t, x, y

\* The ends of a set of places.
LEMMA PlacesEnd ==
  ASSUME NEW n \in Nat, NEW T \in SUBSET (1..n), T # {}
  PROVE  /\ Min(T) \in T /\ \A y \in T : Min(T) <= y
         /\ Max(T) \in T /\ \A y \in T : Max(T) >= y
<1>1. Min(T) \in T /\ \A y \in T : Min(T) <= y
  <2>1. T \in SUBSET Nat
    OBVIOUS
  <2> QED
    BY <2>1, LeastExists
<1>2. \E x \in T : \A y \in T : x >= y
  <2> DEFINE U == {n - t : t \in T}
  <2>0. \A t \in T : n - t \in Nat
    OBVIOUS
  <2>1. U \in SUBSET Nat /\ U # {}
    BY <2>0
  <2>2. PICK m \in U : \A y \in U : m <= y
    BY <2>1, LeastExists
  <2>3. PICK t \in T : m = n - t
    BY <2>2
  <2>4. \A y \in T : n - t <= n - y
    BY <2>2, <2>3
  <2>5. \A y \in T : t >= y
    BY <2>4
  <2> QED
    BY <2>5
<1>3. Max(T) \in T /\ \A y \in T : Max(T) >= y
  BY <1>2 DEF Max
<1> QED
  BY <1>1, <1>3

\* A part of a text is a text, also without its blanks,
LEMMA TrimmedType ==
  ASSUME NEW text \in Seq(Byte)
  PROVE  Trimmed(text) \in Seq(Byte)
<1> DEFINE solid == {i \in DOMAIN text : text[i] \notin Blanks}
<1>1. Trimmed(text) = IF solid = {} THEN text ELSE SubSeq(text, Min(solid), Max(solid))
  BY DEF Trimmed
<1>2. CASE solid # {}
  <2>1. solid \in SUBSET (1..Len(text)) /\ Len(text) \in Nat
    OBVIOUS
  <2> HIDE DEF solid
  <2>2. Min(solid) \in 1..Len(text) /\ Max(solid) \in 1..Len(text)
    BY <1>2, <2>1, PlacesEnd
  <2>3. SubSeq(text, Min(solid), Max(solid)) \in Seq(Byte)
    <3>1. \A i \in Min(solid)..Max(solid) : text[i] \in Byte
      BY <2>2
    <3> QED
      BY <2>2, <3>1, SubSeqProperties
  <2> QED
    BY <1>1, <1>2, <2>3
<1> QED
  BY <1>1, <1>2

\* and so are the name and the value of a line.
LEMMA HeaderType ==
  ASSUME NEW line \in Seq(Byte)
  PROVE  Key(line) \in Seq(Byte) /\ Content(line) \in Seq(Byte)
<1> DEFINE cs == Colons(line)
<1>1. cs \in SUBSET (1..Len(line)) /\ Len(line) \in Nat
  BY DEF Colons
<1> HIDE DEF cs
<1>2. /\ cs = {} => Key(line) = Trimmed(line) /\ Content(line) = <<>>
      /\ cs # {} => /\ Key(line) = Trimmed(SubSeq(line, 1, Min(cs) - 1))
                    /\ Content(line) = Trimmed(SubSeq(line, Min(cs) + 1, Len(line)))
  BY DEF Key, Content, cs
<1>3. CASE cs = {}
  <2>1. <<>> \in Seq(Byte)
    OBVIOUS
  <2> QED
    BY <1>2, <1>3, <2>1, TrimmedType
<1>4. CASE cs # {}
  <2>1. Min(cs) \in 1..Len(line)
    BY <1>1, <1>4, PlacesEnd
  <2>2. SubSeq(line, 1, Min(cs) - 1) \in Seq(Byte)
    <3>1. \A i \in 1..(Min(cs) - 1) : line[i] \in Byte
      BY <1>1, <2>1
    <3> QED
      BY <2>1, <3>1, SubSeqProperties
  <2>3. SubSeq(line, Min(cs) + 1, Len(line)) \in Seq(Byte)
    <3>1. \A i \in (Min(cs) + 1)..Len(line) : line[i] \in Byte
      BY <1>1, <2>1
    <3> QED
      BY <1>1, <2>1, <3>1, SubSeqProperties
  <2> QED
    BY <1>2, <1>4, <2>2, <2>3, TrimmedType
<1> QED
  BY <1>3, <1>4

\* The tables of headers: names and values are texts.
Tables == UNION {[K -> Seq(Byte)] : K \in SUBSET Seq(Byte)}

LEMMA PlacesOf ==
  ASSUME NEW lines \in Seq(Seq(Byte)), NEW name, Places(lines, name) # {}
  PROVE  /\ Max(Places(lines, name)) \in 1..Len(lines)
         /\ Key(lines[Max(Places(lines, name))]) = name
         /\ \A j \in 1..Len(lines) : Key(lines[j]) = name => j <= Max(Places(lines, name))
<1> DEFINE T == Places(lines, name)
<1>1. T \in SUBSET (1..Len(lines)) /\ Len(lines) \in Nat
  BY DEF Places
<1>2. Max(T) \in T /\ \A y \in T : Max(T) >= y
  BY <1>1, PlacesEnd
<1>3. \A j : j \in T <=> j \in 1..Len(lines) /\ Key(lines[j]) = name
  BY DEF Places
<1> HIDE DEF T
<1>4. \A j \in 1..Len(lines) : Key(lines[j]) = name => j <= Max(T)
  BY <1>1, <1>2, <1>3
<1> QED
  BY <1>2, <1>3, <1>4 DEF T

\* A table stays one,
LEMMA WithLinesType ==
  ASSUME NEW table \in Tables, NEW lines \in Seq(Seq(Byte))
  PROVE  WithLines(table, lines) \in Tables
<1> DEFINE W == WithLines(table, lines)
           K == DOMAIN table \cup Names(lines)
<1>1. PICK D \in SUBSET Seq(Byte) : table \in [D -> Seq(Byte)]
  BY DEF Tables
<1>2. \A i \in DOMAIN lines : lines[i] \in Seq(Byte)
  OBVIOUS
<1>3. K \in SUBSET Seq(Byte)
  BY <1>1, <1>2, HeaderType DEF Names
<1>4. W = [name \in K |-> Value(table, lines, name)]
  BY DEF WithLines
<1> HIDE DEF W
<1>5. ASSUME NEW name \in K PROVE Value(table, lines, name) \in Seq(Byte)
  <2>1. CASE name \notin Names(lines)
    BY <1>1, <2>1 DEF Value
  <2>2. CASE name \in Names(lines)
    <3>1. Places(lines, name) # {}
      BY <2>2 DEF Names, Places
    <3>2. Max(Places(lines, name)) \in DOMAIN lines
      BY <3>1, PlacesOf
    <3> QED
      BY <1>2, <2>2, <3>2, HeaderType DEF Value
  <2> QED
    BY <2>1, <2>2
<1> HIDE DEF K
<1>6. W \in [K -> Seq(Byte)]
  BY <1>4, <1>5
<1> QED
  BY <1>3, <1>6 DEF Tables, W

\* Lines one after the other.
Follow(c, a, b) ==
  /\ Len(a) \in Nat /\ Len(b) \in Nat /\ DOMAIN a = 1..Len(a) /\ DOMAIN b = 1..Len(b)
  /\ Len(c) = Len(a) + Len(b) /\ DOMAIN c = 1..Len(c)
  /\ \A i \in 1..Len(a) : i \in 1..Len(c) /\ c[i] = a[i]
  /\ \A i \in 1..Len(b) : Len(a) + i \in 1..Len(c) /\ c[Len(a) + i] = b[i]
  /\ \A i \in 1..Len(c) : i \in 1..Len(a) \/ (i - Len(a) \in 1..Len(b) /\ c[i] = b[i - Len(a)])

LEMMA ConcatFollows ==
  ASSUME NEW S, NEW a \in Seq(S), NEW b \in Seq(S)
  PROVE  Follow(a \o b, a, b)
<1> DEFINE c == a \o b
<1>1. Len(a) \in Nat /\ Len(b) \in Nat /\ DOMAIN a = 1..Len(a) /\ DOMAIN b = 1..Len(b)
  OBVIOUS
<1>2. /\ c \in Seq(S) /\ Len(c) = Len(a) + Len(b)
      /\ \A i \in 1..(Len(a) + Len(b)) : c[i] = IF i <= Len(a) THEN a[i] ELSE b[i - Len(a)]
  BY ConcatProperties
<1> HIDE DEF c
<1>3. DOMAIN c = 1..Len(c)
  BY <1>2
<1>4. \A i \in 1..Len(a) : i \in 1..Len(c) /\ c[i] = a[i]
  BY <1>1, <1>2
<1>5. ASSUME NEW i \in 1..Len(b) PROVE Len(a) + i \in 1..Len(c) /\ c[Len(a) + i] = b[i]
  <2>1. /\ Len(a) + i \in 1..(Len(a) + Len(b)) /\ ~ (Len(a) + i <= Len(a))
        /\ Len(a) + i - Len(a) = i
    BY <1>1
  <2> QED
    BY <1>2, <2>1
<1>6. \A i \in 1..Len(c) : i \in 1..Len(a) \/ (i - Len(a) \in 1..Len(b) /\ c[i] = b[i - Len(a)])
  BY <1>1, <1>2
<1>7. Follow(c, a, b)
  BY <1>1, <1>2, <1>3, <1>4, <1>5, <1>6 DEF Follow
<1> QED
  BY <1>7 DEF c

LEMMA Between ==
  ASSUME NEW x \in Int, NEW y \in Int, x <= y, y <= x
  PROVE  x = y
<1> QED
  OBVIOUS

\* and one of all the lines it was made of.
LEMMA TableGrows ==
  ASSUME NEW table, NEW a \in Seq(Seq(Byte)), NEW b \in Seq(Seq(Byte)), IsTable(table, a)
  PROVE  IsTable(WithLines(table, b), a \o b)
<1>1. PICK c : c = a \o b /\ Follow(c, a, b)
  BY ConcatFollows
<1>2. /\ Len(a) \in Nat /\ Len(b) \in Nat /\ DOMAIN a = 1..Len(a) /\ DOMAIN b = 1..Len(b)
      /\ Len(c) = Len(a) + Len(b) /\ DOMAIN c = 1..Len(c)
  BY <1>1 DEF Follow
<1>3. \A i \in 1..Len(a) : i \in 1..Len(c) /\ c[i] = a[i]
  BY <1>1 DEF Follow
<1>4. \A i \in 1..Len(b) : Len(a) + i \in 1..Len(c) /\ c[Len(a) + i] = b[i]
  BY <1>1 DEF Follow
<1>5. \A i \in 1..Len(c) : i \in 1..Len(a) \/ (i - Len(a) \in 1..Len(b) /\ c[i] = b[i - Len(a)])
  BY <1>1 DEF Follow
<1>6. DOMAIN table = Names(a)
  BY DEF IsTable
<1>7. PICK W : W = WithLines(table, b)
  OBVIOUS
<1>8. /\ DOMAIN W = Names(a) \cup Names(b)
      /\ \A name \in DOMAIN W : W[name] = Value(table, b, name)
  BY <1>6, <1>7 DEF WithLines
<1>9. Names(c) = Names(a) \cup Names(b)
  <2>1. ASSUME NEW i \in DOMAIN a PROVE Key(a[i]) \in Names(c)
    BY <1>2, <1>3 DEF Names
  <2>2. ASSUME NEW i \in DOMAIN b PROVE Key(b[i]) \in Names(c)
    BY <1>2, <1>4 DEF Names
  <2>3. ASSUME NEW i \in DOMAIN c PROVE Key(c[i]) \in Names(a) \cup Names(b)
    <3>1. CASE i \in 1..Len(a)
      BY <1>2, <1>3, <3>1 DEF Names
    <3>2. CASE i - Len(a) \in 1..Len(b) /\ c[i] = b[i - Len(a)]
      BY <1>2, <3>2 DEF Names
    <3> QED
      BY <1>2, <1>5, <3>1, <3>2
  <2> QED
    BY <2>1, <2>2, <2>3 DEF Names
<1>10. ASSUME NEW i \in DOMAIN c, IsLastOf(c, i)
       PROVE  W[Key(c[i])] = Content(c[i])
  <2>1. PICK name : name = Key(c[i])
    OBVIOUS
  <2>2. name \in DOMAIN W
    BY <1>8, <1>9, <2>1 DEF Names
  <2>3. CASE name \notin Names(b)
    <3>1. i \in 1..Len(a) /\ c[i] = a[i]
      <4>1. CASE i - Len(a) \in 1..Len(b) /\ c[i] = b[i - Len(a)]
        BY <1>2, <2>1, <2>3, <4>1 DEF Names
      <4> QED
        BY <1>2, <1>3, <1>5, <4>1
    <3>2. IsLastOf(a, i)
      BY <1>2, <1>3, <1>10, <3>1 DEF IsLastOf
    <3>3. table[Key(a[i])] = Content(a[i])
      BY <1>2, <3>1, <3>2, Zenon DEF IsTable
    <3> QED
      BY <1>8, <2>1, <2>2, <2>3, <3>1, <3>3 DEF Value
  <2>4. CASE name \in Names(b)
    <3>0. Places(b, name) # {}
      BY <2>4 DEF Names, Places
    <3>1. PICK m \in 1..Len(b) : /\ m = Max(Places(b, name)) /\ Key(b[m]) = name
                                 /\ \A j \in 1..Len(b) : Key(b[j]) = name => j <= m
      BY <3>0, PlacesOf
    <3>2. Len(a) + m \in 1..Len(c) /\ c[Len(a) + m] = b[m]
      BY <1>4, <3>1
    <3>3. ~ (Len(a) + m > i)
      BY <1>2, <1>10, <2>1, <3>1, <3>2 DEF IsLastOf
    <3>4. i = Len(a) + m
      <4>1. i \in Int /\ m \in Int /\ m > 0
        BY <1>2, <3>1
      <4>2. i \notin 1..Len(a)
        BY <1>2, <3>3, <4>1
      <4>3. i - Len(a) \in 1..Len(b) /\ c[i] = b[i - Len(a)]
        BY <1>2, <1>5, <4>2
      <4>4. i - Len(a) <= m
        BY <2>1, <3>1, <4>3
      <4>5. Len(a) \in Int
        BY <1>2
      <4>6. i <= Len(a) + m /\ Len(a) + m <= i /\ Len(a) + m \in Int
        BY <3>3, <4>1, <4>4, <4>5
      <4> QED
        BY <4>1, <4>6, Between
    <3>5. W[name] = Content(b[m])
      BY <1>8, <2>2, <2>4, <3>1 DEF Value
    <3> QED
      BY <2>1, <3>2, <3>4, <3>5
  <2> QED
    BY <2>3, <2>4
<1>11. DOMAIN W = Names(c)
  BY <1>8, <1>9
<1>12. IsTable(W, c)
  BY <1>10, <1>11, Zenon DEF IsTable
<1> QED
  BY <1>1, <1>7, <1>12

\* The answers HttpObject gives, and which of them come before the status.
Answers == [ready : BOOLEAN, status : {<<>>} \cup (Int \X Seq(Byte)), headers : Tables,
            error : {"none", "connectioned closed", "failed to parse"}]

Fits(answer, lines) == Tells(answer, lines) /\ (answer.status = <<>> <=> lines = <<>>)

\* A status is there when it was read.
LEMMA StatusRead ==
  ASSUME HttpAssumption, NEW line \in StatusLines
  PROVE  StatusOf[line] \in Int \X Seq(Byte) /\ StatusOf[line] # <<>>
<1>1. StatusOf[line] \in Int \X Seq(Byte)
  BY DEF HttpAssumption
<1>2. PICK code \in Int, message \in Seq(Byte) : StatusOf[line] = <<code, message>>
  BY <1>1
<1> QED
  BY <1>1, <1>2

\* More lines are told with those before.
LEMMA AnswerGrows ==
  ASSUME HttpAssumption, NEW answer \in Answers, NEW a \in Seq(Seq(Byte)), NEW b \in Seq(Seq(Byte)),
         Fits(answer, a), answer.status = <<>> /\ b # <<>> => b[1] \in StatusLines
  PROVE  /\ WithAnswer(answer, b) \in Answers
         /\ WithAnswer(answer, b).error = answer.error
         /\ Fits(WithAnswer(answer, b), a \o b)
<1> DEFINE w == WithAnswer(answer, b)
<1>0. answer.headers \in Tables
  BY DEF Answers
<1>1. CASE answer.status # <<>>
  <2>1. a # <<>> /\ answer.status = StatusOf[a[1]] /\ IsTable(answer.headers, Tail(a))
    BY <1>1 DEF Fits, Tells
  <2>2. w = [answer EXCEPT !.headers = WithLines(answer.headers, b)]
    BY <1>1 DEF WithAnswer
  <2>3. WithLines(answer.headers, b) \in Tables
    BY <1>0, WithLinesType
  <2>4. w \in Answers /\ w.error = answer.error /\ w.status = answer.status
        /\ w.headers = WithLines(answer.headers, b)
    BY <2>2, <2>3 DEF Answers
  <2>5. /\ a \o b # <<>> /\ (a \o b)[1] = a[1] /\ Tail(a \o b) = Tail(a) \o b
        /\ Tail(a) \in Seq(Seq(Byte))
    BY <2>1, TailOfConcat
  <2>6. IsTable(w.headers, Tail(a \o b))
    BY <2>1, <2>4, <2>5, TableGrows
  <2> HIDE DEF w
  <2> QED
    BY <1>1, <2>1, <2>4, <2>5, <2>6 DEF Fits, Tells, w
<1>2. CASE answer.status = <<>> /\ b = <<>>
  <2>1. a = <<>> /\ a \o b = <<>> /\ w = answer
    BY <1>2 DEF Fits, WithAnswer
  <2> QED
    BY <2>1
<1>3. CASE answer.status = <<>> /\ b # <<>>
  <2>1. a = <<>> /\ DOMAIN answer.headers = {}
    BY <1>3 DEF Fits, Tells
  <2>2. w = [answer EXCEPT !.status = StatusOf[b[1]], !.headers = WithLines(answer.headers, Tail(b))]
    BY <1>3 DEF WithAnswer
  <2>3. StatusOf[b[1]] \in Int \X Seq(Byte) /\ StatusOf[b[1]] # <<>>
    BY <1>3, StatusRead
  <2>4. Tail(b) \in Seq(Seq(Byte))
    BY <1>3, HeadTailProperties
  <2>5. WithLines(answer.headers, Tail(b)) \in Tables
    BY <1>0, <2>4, WithLinesType
  <2>6. w \in Answers /\ w.error = answer.error /\ w.status = StatusOf[b[1]]
        /\ w.headers = WithLines(answer.headers, Tail(b))
    BY <2>2, <2>3, <2>5 DEF Answers
  <2>7. <<>> \o b = b /\ <<>> \o Tail(b) = Tail(b)
    BY <2>4, ConcatEmptySeq
  <2>8. IsTable(answer.headers, <<>>)
    BY <2>1 DEF IsTable, Names
  <2>9. <<>> \in Seq(Seq(Byte))
    OBVIOUS
  <2>10. IsTable(w.headers, Tail(b))
    BY <2>4, <2>6, <2>7, <2>8, <2>9, TableGrows
  <2> HIDE DEF w
  <2> QED
    BY <1>3, <2>1, <2>3, <2>6, <2>7, <2>10 DEF Fits, Tells, w
<1> QED
  BY <1>1, <1>2, <1>3

-----------------------------------------------------------------------------
\* What HttpObject keeps.
HttpTypeOK ==
  /\ resp \in Conn
  /\ response \in Answers
  /\ took \in Seq(Seq(Byte))
  /\ wrote \in Seq(Byte) /\ outputs \in Nat

\* Of what was written, f is in the lines, and the rest in d.
Answered(w, d, lines, f) == /\ w = f \o (d.buffer \o d.wire)
                            /\ Cut(f) = [lines |-> lines, rest |-> <<>>]

\* A response that has not failed has all that the connection has not.
Answering(w, d, lines, ready) ==
  /\ d.state \in {"Ready", "Failed", "Finished"}
  /\ \E f \in Seq(Byte) : Answered(w, d, lines, f)
  /\ d.state = "Finished" => d.wire = <<>> /\ d.peer # "open"
  /\ ready => d.state = "Finished" /\ Cut(d.buffer).lines = <<>>

HttpInv == /\ HttpTypeOK
           /\ response.error = "none" =>
                Answering(wrote, resp, took, response.ready) /\ Fits(response, took)
           /\ response.error # "none" => response.ready

LEMMA NoHeadersType == NoHeaders \in Tables /\ DOMAIN NoHeaders = {}
<1>1. NoHeaders \in [{} -> Seq(Byte)] /\ DOMAIN NoHeaders = {} /\ {} \in SUBSET Seq(Byte)
  BY DEF NoHeaders
<1> QED
  BY <1>1 DEF Tables

\* The inductive invariant: at first,
LEMMA HttpStarts == HttpInit => HttpInv
<1> SUFFICES ASSUME HttpInit PROVE HttpInv
  OBVIOUS
<1>0. <<>> \in Seq(Byte) /\ <<>> \in Seq(Seq(Byte)) /\ <<>> \o (<<>> \o <<>>) = <<>>
  OBVIOUS
<1>1. /\ resp \in Conn /\ resp.state = "Ready" /\ resp.buffer = <<>> /\ resp.wire = <<>>
  BY <1>0 DEF HttpInit, Opened, Dialing, Conn, ConnectionState
<1>2. /\ response = [ready |-> FALSE, status |-> <<>>, headers |-> NoHeaders, error |-> "none"]
      /\ took = <<>> /\ wrote = <<>> /\ outputs = 0
  BY DEF HttpInit
<1>3. NoHeaders \in Tables /\ DOMAIN NoHeaders = {}
  BY NoHeadersType
<1>4. response \in Answers
  BY <1>2, <1>3 DEF Answers
<1>5. HttpTypeOK
  BY <1>0, <1>1, <1>2, <1>4 DEF HttpTypeOK
<1>6. Answered(wrote, resp, took, <<>>)
  BY <1>0, <1>1, <1>2, CutEmpty DEF Answered, Uncut
<1>7. Fits(response, took)
  BY <1>2, <1>3 DEF Fits, Tells
<1> QED
  BY <1>0, <1>1, <1>2, <1>5, <1>6, <1>7 DEF HttpInv, Answering

\* What the child writes goes behind all that it wrote.
LEMMA ChildWritesKeeps ==
  ASSUME HttpInv, NEW b \in Seq(Byte), ChildWrites(b)
  PROVE  HttpInv'
<1>1. /\ resp.peer = "open" /\ outputs' = outputs + 1 /\ wrote' = wrote \o b
      /\ response' = response /\ took' = took
      /\ resp' = IF resp.state \in {"Ready", "Failed"} THEN [resp EXCEPT !.wire = @ \o b] ELSE resp
  BY DEF ChildWrites
<1>2. HttpTypeOK
  BY DEF HttpInv
<1>3. PICK B \in Seq(Byte), w \in Seq(Byte) : B = resp.buffer /\ w = resp.wire
  BY <1>2 DEF HttpTypeOK, Conn
<1>4. PICK v \in Seq(Byte) : v = w \o b
  BY ConcatProperties
<1>5. wrote' \in Seq(Byte) /\ outputs' \in Nat
  <2>1. wrote \in Seq(Byte) /\ outputs \in Nat
    BY <1>2 DEF HttpTypeOK
  <2>2. wrote \o b \in Seq(Byte)
    BY <2>1, ConcatProperties
  <2> QED
    BY <1>1, <2>1, <2>2
<1>6. CASE resp.state \in {"Ready", "Failed"}
  <2>1. resp' = [resp EXCEPT !.wire = v]
    BY <1>1, <1>3, <1>4, <1>6
  <2>2. /\ resp' \in Conn /\ resp'.state = resp.state /\ resp'.peer = resp.peer
        /\ resp'.buffer = B /\ resp'.wire = v
    BY <1>2, <1>3, <2>1 DEF HttpTypeOK, Conn
  <2>3. HttpTypeOK'
    BY <1>1, <1>2, <1>5, <2>2 DEF HttpTypeOK
  <2>4. ASSUME response.error = "none" PROVE Answering(wrote', resp', took, response.ready)
    <3>1. Answering(wrote, resp, took, response.ready)
      BY <2>4 DEF HttpInv
    <3>2. PICK f \in Seq(Byte) : Answered(wrote, resp, took, f)
      BY <3>1 DEF Answering
    <3>3. wrote = f \o (B \o w) /\ Cut(f) = [lines |-> took, rest |-> <<>>]
      BY <1>3, <3>2 DEF Answered
    <3>4. (f \o (B \o w)) \o b = f \o (B \o v)
      <4>1. f \in Seq(Byte) /\ B \o w \in Seq(Byte)
        BY <3>2, ConcatProperties
      <4>2. Associative(f, B \o w, b) /\ Associative(B, w, b)
        BY <4>1, ConcatAssociates
      <4> QED
        BY <1>4, <4>2, Zenon DEF Associative
    <3>5. Answered(wrote', resp', took, f)
      BY <1>1, <2>2, <3>3, <3>4 DEF Answered
    <3> QED
      BY <1>6, <2>2, <3>1, <3>5 DEF Answering
  <2> QED
    BY <1>1, <2>3, <2>4 DEF HttpInv
<1>7. CASE resp.state \notin {"Ready", "Failed"}
  <2>1. response.error # "none"
    BY <1>1, <1>7 DEF HttpInv, Answering
  <2> QED
    BY <1>1, <1>2, <1>5, <1>7, <2>1 DEF HttpInv, HttpTypeOK
<1> QED
  BY <1>6, <1>7

\* The child's end leaves its bytes.
LEMMA ChildExitsKeeps ==
  ASSUME HttpInv, ChildExits
  PROVE  HttpInv'
<1>1. /\ resp' = [resp EXCEPT !.peer = "closed"] /\ UNCHANGED <<response, took, wrote, outputs>>
  BY DEF ChildExits
<1>2. HttpTypeOK
  BY DEF HttpInv
<1>3. /\ resp' \in Conn /\ resp'.state = resp.state /\ resp'.peer = "closed"
      /\ resp'.buffer = resp.buffer /\ resp'.wire = resp.wire
  BY <1>1, <1>2 DEF HttpTypeOK, Conn
<1>4. Answering(wrote, resp, took, response.ready) => Answering(wrote, resp', took, response.ready)
  BY <1>3 DEF Answering, Answered
<1> QED
  BY <1>1, <1>2, <1>3, <1>4 DEF HttpInv, HttpTypeOK

\* A pass that found no fault took the lines that had ended, whole.
LEMMA LinesTaken ==
  ASSUME HttpInv, response.error = "none", NEW d, Loaded(d, resp), resp.state \in {"Ready", "Finished"},
         NEW done \in BOOLEAN, done => resp.state = "Finished"
  PROVE  /\ Without(d) \in Conn /\ took \o Lines(d.buffer) \in Seq(Seq(Byte))
         /\ Answering(wrote, Without(d), took \o Lines(d.buffer), done)
<1>1. HttpTypeOK /\ Answering(wrote, resp, took, response.ready)
  BY DEF HttpInv
<1>2. d \in Conn /\ d.peer = resp.peer /\ d.buffer \o d.wire = resp.buffer \o resp.wire
  BY DEF Loaded, BytesKept
<1>3. PICK b \in Seq(Byte), w \in Seq(Byte) : b = d.buffer /\ w = d.wire
  BY <1>2 DEF Conn
<1>4. PICK g \in Seq(Byte) : Splits(b, g)
  BY CutSplits
<1>5. PICK L \in Seq(Seq(Byte)), r \in Seq(Byte) : L = Cut(b).lines /\ r = Cut(b).rest
  BY CutType
<1>6. b = g \o r /\ Cut(g) = [lines |-> L, rest |-> <<>>] /\ Cut(r) = [lines |-> <<>>, rest |-> r]
  BY <1>4, <1>5 DEF Splits
<1>7. PICK e : e = Without(d)
  OBVIOUS
<1>8. e = [d EXCEPT !.buffer = r]
  BY <1>2, <1>3, <1>4, <1>5, <1>7, WithoutLines
<1>9. e \in Conn /\ e.state = d.state /\ e.peer = d.peer /\ e.buffer = r /\ e.wire = w
  BY <1>2, <1>3, <1>8 DEF Conn
<1>10. PICK f \in Seq(Byte) : Answered(wrote, resp, took, f)
  BY <1>1 DEF Answering
<1>11. wrote = f \o (b \o w) /\ Cut(f) = [lines |-> took, rest |-> <<>>]
  BY <1>2, <1>3, <1>10 DEF Answered
<1>12. f \o (b \o w) = (f \o g) \o (r \o w)
  <2>1. f \in Seq(Byte) /\ g \in Seq(Byte) /\ r \in Seq(Byte) /\ w \in Seq(Byte)
    BY <1>3, <1>4, <1>5, <1>10
  <2>2. Regrouped(f, g, r, w)
    BY <2>1, ConcatRegrouped
  <2> QED
    BY <1>6, <2>2, Zenon DEF Regrouped
<1>13. f \o g \in Seq(Byte) /\ Cut(f \o g) = [lines |-> took \o L, rest |-> <<>>]
  <2>1. Cut(f).rest = <<>> /\ Cut(f).lines = took /\ Cut(g).lines = L /\ Cut(g).rest = <<>>
    BY <1>6, <1>11
  <2>2. CutsJoin(f, g)
    BY <2>1, CutConcat
  <2>3. f \o g \in Seq(Byte)
    BY ConcatProperties
  <2> QED
    BY <2>1, <2>2, <2>3 DEF CutsJoin
<1>14. took \o L \in Seq(Seq(Byte))
  <2>1. took \in Seq(Seq(Byte))
    BY <1>1 DEF HttpTypeOK
  <2> QED
    BY <2>1, ConcatProperties
<1>15. Answered(wrote, e, took \o L, f \o g)
  BY <1>9, <1>11, <1>12, <1>13 DEF Answered
<1>18. e.state \in {"Ready", "Failed", "Finished"}
  BY <1>9 DEF Loaded
<1>19. e.state = "Finished" => e.wire = <<>> /\ e.peer # "open"
  BY <1>1, <1>2, <1>3, <1>9 DEF Loaded, Answering
<1>20. done => e.state = "Finished" /\ Cut(e.buffer).lines = <<>>
  BY <1>6, <1>9 DEF Loaded
<1>21. Answering(wrote, e, took \o L, done)
  BY <1>13, <1>15, <1>18, <1>19, <1>20 DEF Answering
<1>22. Lines(d.buffer) = L
  BY <1>3, <1>5 DEF Lines
<1> QED
  BY <1>7, <1>9, <1>14, <1>21, <1>22

\* A pass keeps the invariant, whatever it finds,
LEMMA UpdateKeeps ==
  ASSUME HttpInv, HttpAssumption, httpUpdate
  PROVE  HttpInv'
<1>1. HttpTypeOK /\ ~response.ready /\ wrote' = wrote /\ outputs' = outputs /\ response.error = "none"
  BY DEF HttpInv, httpUpdate
<1>2. CASE resp.state \notin {"Ready", "Finished"}
  <2>1. /\ response' = [ready |-> TRUE, status |-> <<>>, headers |-> NoHeaders,
                        error |-> "connectioned closed"]
        /\ resp' = resp /\ took' = took
    BY <1>2 DEF httpUpdate
  <2>2. response' \in Answers
    BY <2>1, NoHeadersType DEF Answers
  <2> QED
    BY <1>1, <2>1, <2>2 DEF HttpInv, HttpTypeOK
<1>3. CASE resp.state \in {"Ready", "Finished"}
  <2>1. PICK p, done, lines :
          /\ p \in preload(resp, Len(resp.buffer) + Chunk) /\ done \in BOOLEAN
          /\ lines = Lines(p.c.buffer)
          /\ done => resp.state = "Finished"
          /\ \/ /\ lines # <<>>
                /\ response' = [response EXCEPT !.ready = TRUE, !.error = "failed to parse"]
                /\ resp' = Close(move(p.c, Len(lines[1]) + 1))
                /\ took' = took
             \/ /\ response.status = <<>> /\ lines # <<>> => lines[1] \in StatusLines
                /\ response' = [WithAnswer(response, lines) EXCEPT !.ready = done]
                /\ resp' = Without(p.c)
                /\ took' = took \o lines
    <3>1. PICK p, lines, done :
            /\ p \in preload(resp, Len(resp.buffer) + Chunk)
            /\ lines = Lines(p.c.buffer)
            /\ done = (resp.state = "Finished" /\ Len(p.c.buffer) = Len(resp.buffer))
            /\ \/ /\ lines # <<>>
                  /\ response' = [response EXCEPT !.ready = TRUE, !.error = "failed to parse"]
                  /\ resp' = Close(move(p.c, Len(lines[1]) + 1))
                  /\ took' = took
               \/ /\ response.status = <<>> /\ lines # <<>> => lines[1] \in StatusLines
                  /\ response' = [WithAnswer(response, lines) EXCEPT !.ready = done]
                  /\ resp' = Without(p.c)
                  /\ took' = took \o lines
      BY <1>3, Zenon DEF httpUpdate
    <3>2. done \in BOOLEAN /\ (done => resp.state = "Finished")
      BY <3>1, Zenon
    <3> QED
      BY <3>1, <3>2, Zenon
  <2>2. Len(resp.buffer) + Chunk \in Int /\ resp \in Conn
    <3>1. resp.buffer \in Seq(Byte) /\ resp \in Conn
      BY <1>1 DEF HttpTypeOK, Conn
    <3> QED
      BY <3>1, HttpAssumption DEF HttpAssumption
  <2>3. PICK d : d = p.c
    OBVIOUS
  <2>4. Loaded(d, resp)
    BY <1>3, <2>1, <2>2, <2>3, PreloadLoads
  <2>5. d \in Conn /\ d.buffer \in Seq(Byte)
    BY <2>4 DEF Loaded, BytesKept, Conn
  <2>6. lines \in Seq(Seq(Byte))
    BY <2>1, <2>3, <2>5, CutType DEF Lines
  <2>7. CASE /\ lines # <<>>
             /\ response' = [response EXCEPT !.ready = TRUE, !.error = "failed to parse"]
             /\ resp' = Close(move(d, Len(lines[1]) + 1))
             /\ took' = took
    <3>1. Len(lines[1]) + 1 \in Nat
      <4>1. lines[1] \in Seq(Byte)
        BY <2>6, <2>7, EmptySeq, ElementOfSeq
      <4> QED
        BY <4>1
    <3>2. PICK e \in Conn : e = move(d, Len(lines[1]) + 1)
      BY <2>5, <3>1, MoveType
    <3>3. resp' \in Conn
      BY <2>7, <3>2 DEF Close, Conn, ConnectionState
    <3>4. response' \in Answers /\ response'.ready /\ response'.error # "none"
      BY <1>1, <2>7 DEF HttpTypeOK, Answers
    <3> QED
      BY <1>1, <2>7, <3>3, <3>4 DEF HttpInv, HttpTypeOK
  <2>8. CASE /\ response.status = <<>> /\ lines # <<>> => lines[1] \in StatusLines
             /\ response' = [WithAnswer(response, lines) EXCEPT !.ready = done]
             /\ resp' = Without(d)
             /\ took' = took \o lines
    <3>1. PICK a : a = WithAnswer(response, lines)
      OBVIOUS
    <3>2. response \in Answers /\ took \in Seq(Seq(Byte)) /\ Fits(response, took)
      BY <1>1 DEF HttpInv, HttpTypeOK
    <3>3. a \in Answers /\ a.error = "none" /\ Fits(a, took \o lines)
      BY <1>1, <2>6, <2>8, <3>1, <3>2, AnswerGrows
    <3>4. response' = [a EXCEPT !.ready = done]
      BY <2>8, <3>1
    <3>5. /\ response' \in Answers /\ response'.error = "none" /\ response'.ready = done
          /\ response'.status = a.status /\ response'.headers = a.headers
      BY <2>1, <3>3, <3>4 DEF Answers
    <3>6. Fits(response', took')
      BY <2>8, <3>3, <3>5 DEF Fits, Tells
    <3>7. /\ Without(d) \in Conn /\ took \o Lines(d.buffer) \in Seq(Seq(Byte))
          /\ Answering(wrote, Without(d), took \o Lines(d.buffer), done)
      BY <1>1, <1>3, <2>1, <2>4, LinesTaken
    <3>8. Answering(wrote', resp', took', response'.ready)
      BY <1>1, <2>1, <2>3, <2>8, <3>5, <3>7
    <3> QED
      BY <1>1, <2>1, <2>3, <2>8, <3>5, <3>6, <3>7, <3>8 DEF HttpInv, HttpTypeOK
  <2> QED
    BY <2>1, <2>3, <2>7, <2>8
<1> QED
  BY <1>2, <1>3

\* and so does every step.
LEMMA HttpSteps == HttpInv /\ [HttpNext]_httpVars => HttpInv'
<1> SUFFICES ASSUME HttpInv, [HttpNext]_httpVars PROVE HttpInv'
  OBVIOUS
<1>1. ASSUME NEW b \in HttpOutputs, ChildWrites(b) PROVE HttpInv'
  BY <1>1, HttpAssumption, ChildWritesKeeps
<1>2. CASE ChildExits
  BY <1>2, ChildExitsKeeps
<1>3. CASE httpUpdate
  BY <1>3, HttpAssumption, UpdateKeeps
<1>4. CASE UNCHANGED httpVars
  BY <1>4 DEF httpVars, HttpInv, HttpTypeOK, Fits, Tells
<1> QED
  BY <1>1, <1>2, <1>3, <1>4 DEF HttpNext

\* HttpObject keeps a connection, a status, a table of headers and the reason of a failure,
\* whatever the child writes.
THEOREM HttpTyped == HttpSpec => []HttpTypeOK
<1>1. HttpInv => HttpTypeOK
  BY DEF HttpInv
<1> QED
  BY <1>1, HttpStarts, HttpSteps, PTL DEF HttpSpec

\* HttpObject::update answers with the status and the headers of whole lines of the child's
\* stderr, the last value of each name, and in the end with those of all of its lines.
THEOREM ResponsesAreWhole == HttpSpec => []ResponseComplete
<1>1. HttpInv => ResponseComplete
  <2> SUFFICES ASSUME HttpInv, response.error = "none"
               PROVE  \E n \in 0..Len(Lines(wrote)) :
                        /\ Tells(response, SubSeq(Lines(wrote), 1, n))
                        /\ response.ready => n = Len(Lines(wrote)) /\ resp.peer # "open"
    BY DEF ResponseComplete
  <2>1. HttpTypeOK /\ Answering(wrote, resp, took, response.ready) /\ Tells(response, took)
    BY DEF HttpInv, Fits
  <2>2. PICK f \in Seq(Byte) : Answered(wrote, resp, took, f)
    BY <2>1 DEF Answering
  <2>3. PICK b \in Seq(Byte), w \in Seq(Byte) : b = resp.buffer /\ w = resp.wire
    BY <2>1 DEF HttpTypeOK, Conn
  <2>4. PICK u \in Seq(Byte) : u = b \o w
    BY ConcatProperties
  <2>5. Cut(f).lines = took /\ Cut(f).rest = <<>> /\ wrote = f \o u
    BY <2>2, <2>3, <2>4 DEF Answered
  <2>6. CutsJoin(f, u)
    BY <2>5, CutConcat
  <2>7. Lines(wrote) = took \o Cut(u).lines
    <3>1. Cut(f \o u).lines = Cut(f).lines \o Cut(u).lines
      <4>1. \A x, y, z : x = [lines |-> y, rest |-> z] => x.lines = y
        OBVIOUS
      <4> QED
        BY <2>6, <4>1, Zenon DEF CutsJoin
    <3> QED
      BY <2>5, <3>1 DEF Lines
  <2>8. PICK t \in Seq(Seq(Byte)), r \in Seq(Seq(Byte)) : t = took /\ r = Cut(u).lines
    BY <2>1, CutType DEF HttpTypeOK
  <2>9. PICK all \in Seq(Seq(Byte)) : all = t \o r /\ all = Lines(wrote)
    <3>1. t \o r \in Seq(Seq(Byte))
      BY ConcatProperties
    <3> QED
      BY <2>7, <2>8, <3>1
  <2>10. Len(t) \in 0..Len(all) /\ SubSeq(all, 1, Len(t)) = t
    <3>1. Len(t) \in 0..Len(t \o r) /\ SubSeq(t \o r, 1, Len(t)) = t
      BY BeginningOfConcat
    <3> QED
      BY <2>9, <3>1
  <2>11. ASSUME response.ready PROVE Len(t) = Len(all) /\ resp.peer # "open"
    <3>1. w = <<>> /\ resp.peer # "open" /\ Cut(b).lines = <<>>
      BY <2>1, <2>3, <2>11 DEF Answering
    <3>2. u = b
      BY <2>4, <3>1, ConcatEmptySeq
    <3>3. t \o <<>> = t
      BY ConcatEmptySeq
    <3> QED
      BY <2>8, <2>9, <3>1, <3>2, <3>3
  <2> QED
    BY <2>1, <2>8, <2>9, <2>10, <2>11
<1> QED
  BY <1>1, HttpStarts, HttpSteps, PTL DEF HttpSpec

-----------------------------------------------------------------------------
(* Modems: what is read of a packet *)

\* The fields of the first parts of a message, as pack makes them.
Packing(f, parts) ==
  f = [n \in 0..Len(parts) |-> IF n = 0 THEN <<>> ELSE f[n - 1] \o Typed(parts[n])]
Fields(parts) == CHOOSE f : Packing(f, parts)
Field(parts) == {[type |-> parts[n].type] : n \in 1..Len(parts)} \cup {[value |-> parts[n].value] : n \in 1..Len(parts)}

LEMMA TypedIs ==
  ASSUME NEW parts, NEW n \in 1..Len(parts)
  PROVE  LET t == Typed(parts[n])
         IN  /\ t \in Seq(Field(parts)) /\ Len(t) = (IF parts[n].type = "nil" THEN 1 ELSE 2)
             /\ t[1].type = parts[n].type
             /\ parts[n].type # "nil" => t[2].value = parts[n].value
<1>1. PICK a, b \in Field(parts) : a = [type |-> parts[n].type] /\ b = [value |-> parts[n].value]
  <2>1. [type |-> parts[n].type] \in Field(parts)
    <3>1. [type |-> parts[n].type] \in {[type |-> parts[i].type] : i \in 1..Len(parts)}
      OBVIOUS
    <3> QED
      BY <3>1 DEF Field
  <2>2. [value |-> parts[n].value] \in Field(parts)
    <3>1. [value |-> parts[n].value] \in {[value |-> parts[i].value] : i \in 1..Len(parts)}
      OBVIOUS
    <3> QED
      BY <3>1 DEF Field
  <2> QED
    BY <2>1, <2>2
<1>2. a.type = parts[n].type /\ b.value = parts[n].value
  BY <1>1
<1>3. Typed(parts[n]) = IF parts[n].type = "nil" THEN <<a>> ELSE <<a, b>>
  BY <1>1 DEF Typed
<1> QED
  BY <1>2, <1>3

LEMMA FieldsStep ==
  ASSUME NEW S, NEW parts \in Seq(S)
  PROVE  /\ Fields(parts)[0] = <<>>
         /\ \A n \in 1..Len(parts) : Fields(parts)[n] = Fields(parts)[n - 1] \o Typed(parts[n])
         /\ \A n \in 0..Len(parts) : Fields(parts)[n] \in Seq(Field(parts))
<1> DEFINE V == Seq(Field(parts))
           N == Len(parts)
           Step(n, v) == v \o Typed(parts[n])
           F == [x \in Nat \X V |-> IF x[1] \in 1..N THEN Step(x[1], x[2]) ELSE x[2]]
<1>0. N \in Nat
  OBVIOUS
<1>1. \A n \in 1..N : Typed(parts[n]) \in V
  BY TypedIs
<1>2. \A n \in 1..N, v \in V : Step(n, v) \in V
  BY <1>1, ConcatProperties
<1>4. <<>> \in V
  OBVIOUS
<1> HIDE DEF V, Step
<1>3. F \in [Nat \X V -> V]
  <2>1. \A x \in Nat \X V : (IF x[1] \in 1..N THEN Step(x[1], x[2]) ELSE x[2]) \in V
    BY <1>2
  <2> QED
    BY <2>1
<1>5. \A n \in 1..N, v \in V : F[<<n, v>>] = Step(n, v)
  <2> HIDE DEF N
  <2> QED
    BY <1>0
<1> HIDE DEF V, F, N
<1>6. PICK g \in [0..N -> V] : Follows(g, <<>>, N, F)
  BY <1>0, <1>3, <1>4, StepsExist
<1>7. g[0] = <<>> /\ \A n \in 1..N : g[n] = F[<<n, g[n - 1]>>]
  BY <1>6 DEF Follows
<1>8. \A n \in 1..N : g[n - 1] \in V /\ g[n] = g[n - 1] \o Typed(parts[n])
  <2> SUFFICES ASSUME NEW n \in 1..N PROVE g[n - 1] \in V /\ g[n] = Step(n, g[n - 1])
    BY DEF Step
  <2>1. n - 1 \in 0..N
    BY <1>0
  <2>2. g[n - 1] \in V
    BY <1>6, <2>1
  <2> QED
    BY <1>5, <1>7, <2>2
<1>9. Packing(g, parts)
  <2>1. ASSUME NEW n \in 0..N PROVE g[n] = IF n = 0 THEN <<>> ELSE g[n - 1] \o Typed(parts[n])
    <3>1. CASE n = 0
      BY <1>7, <3>1
    <3>2. CASE n # 0
      <4>1. n \in 1..N
        BY <1>0, <3>2
      <4> QED
        BY <1>8, <3>2, <4>1
    <3> QED
      BY <3>1, <3>2
  <2> QED
    BY <1>6, <2>1 DEF Packing, N
<1>10. Packing(Fields(parts), parts)
  BY <1>9 DEF Fields
<1> DEFINE f == Fields(parts)
<1> HIDE DEF f
<1>11. \A n \in 0..N : f[n] = IF n = 0 THEN <<>> ELSE f[n - 1] \o Typed(parts[n])
  BY <1>10 DEF Packing, N, f
<1>12. f[0] = <<>> /\ \A n \in 1..N : f[n] = f[n - 1] \o Typed(parts[n])
  <2>1. 0 \in 0..N
    BY <1>0
  <2>2. ASSUME NEW n \in 1..N PROVE n \in 0..N /\ n # 0
    BY <1>0
  <2> QED
    BY <1>11, <2>1, <2>2, Zenon
<1> DEFINE Good == {n \in Nat : n <= N => f[n] \in V}
<1>13. 0 \in Good
  <2>1. f[0] \in V
    BY <1>4, <1>12
  <2> QED
    BY <2>1
<1>14. ASSUME NEW n \in Nat, n \in Good PROVE n + 1 \in Good
  <2>1. ASSUME n + 1 <= N PROVE f[n + 1] \in V
    <3>1. n <= N /\ n + 1 \in 1..N /\ (n + 1) - 1 = n
      BY <1>0, <2>1
    <3>2. f[n + 1] = f[n] \o Typed(parts[n + 1]) /\ f[n] \in V
      BY <1>12, <1>14, <3>1
    <3>3. f[n] \o Typed(parts[n + 1]) \in V
      BY <1>2, <3>1, <3>2 DEF Step
    <3> QED
      BY <3>2, <3>3
  <2> QED
    BY <2>1
<1> HIDE DEF Good
<1>15. Nat \subseteq Good
  BY <1>13, <1>14, SetInduction
<1>16. \A n \in 0..N : f[n] \in V
  BY <1>0, <1>15 DEF Good
<1> QED
  BY <1>12, <1>16 DEF f, V, N

\* The fields of the first parts begin those of more.
Begins(s, t) == Len(s) <= Len(t) /\ \A k \in 1..Len(s) : t[k] = s[k]

LEMMA FieldsGrow ==
  ASSUME NEW S, NEW parts \in Seq(S), NEW n \in 0..Len(parts)
  PROVE  Begins(Fields(parts)[n], Fields(parts)[Len(parts)])
<1> DEFINE f == Fields(parts)
           N == Len(parts)
           V == Seq(Field(parts))
<1>0. N \in Nat /\ n \in Nat /\ n <= N
  OBVIOUS
<1>1. /\ \A i \in 1..N : f[i] = f[i - 1] \o Typed(parts[i])
      /\ \A i \in 0..N : f[i] \in V
      /\ \A i \in 1..N : Typed(parts[i]) \in V
  BY FieldsStep, TypedIs
<1> HIDE DEF f, N, V
<1> DEFINE Good == {d \in Nat : n + d <= N => Begins(f[n], f[n + d])}
<1>2. 0 \in Good
  <2>1. f[n] \in V /\ n + 0 = n
    BY <1>0, <1>1
  <2> QED
    BY <2>1 DEF Begins, V
<1>3. ASSUME NEW d \in Nat, d \in Good PROVE d + 1 \in Good
  <2>1. ASSUME n + (d + 1) <= N PROVE Begins(f[n], f[n + (d + 1)])
    <3>1. n + d <= N /\ n + (d + 1) \in 1..N /\ (n + (d + 1)) - 1 = n + d /\ n + d \in 0..N
      BY <1>0, <2>1
    <3>2. Begins(f[n], f[n + d])
      BY <1>3, <3>1
    <3>3. PICK u, t, v \in V : u = f[n + d] /\ t = Typed(parts[n + (d + 1)]) /\ v = f[n]
      BY <1>0, <1>1, <3>1
    <3>4. f[n + (d + 1)] = u \o t
      BY <1>1, <3>1, <3>3
    <3>5. Len(u \o t) = Len(u) + Len(t) /\ \A k \in 1..Len(u) : (u \o t)[k] = u[k]
      <4>1. u \in Seq(Field(parts)) /\ t \in Seq(Field(parts))
        BY <3>3 DEF V
      <4> QED
        BY <4>1, ConcatProperties
    <3>6. Len(u) \in Nat /\ Len(t) \in Nat /\ Len(v) \in Nat
      BY <3>3 DEF V
    <3>7. Begins(v, u)
      BY <3>2, <3>3
    <3>8. Begins(v, u \o t)
      BY <3>5, <3>6, <3>7 DEF Begins
    <3> QED
      BY <3>3, <3>4, <3>8
  <2> QED
    BY <2>1
<1> HIDE DEF Good
<1>4. N - n \in Nat
  BY <1>0
<1>5. N - n \in Good
  BY <1>2, <1>3, <1>4, SetInduction
<1>6. n + (N - n) = N
  BY <1>0
<1> QED
  BY <1>0, <1>4, <1>5, <1>6 DEF Good, f, N

\* What is at the places of a packet.
ReadsAs(packet, msg, fields) ==
  /\ packet[1].sender = msg.sender
  /\ HasTarget(packet) = (msg.target # NoTarget)
  /\ HasTarget(packet) => packet[3].addr = msg.target
  /\ packet[PortAt(packet)].port = msg.port /\ packet[PortAt(packet) + 1].num = Len(msg.parts)
  /\ PortAt(packet) \in Nat
  /\ \A k \in 1..Len(fields) : packet[PortAt(packet) + 1 + k] = fields[k]

Joins(U, s, t, n, k) ==
  /\ s \o t \in Seq(U) /\ Len(s \o t) = n + k
  /\ \A i \in 1..n : (s \o t)[i] = s[i]
  /\ \A i \in 1..k : (s \o t)[n + i] = t[i]
LEMMA JoinedAs ==
  ASSUME NEW U, NEW s \in Seq(U), NEW t \in Seq(U), NEW n \in Nat, NEW k \in Nat, n = Len(s), k = Len(t)
  PROVE  Joins(U, s, t, n, k)
<1>1. \A i \in 1..k : n + i \in 1..(Len(s) + Len(t)) /\ ~(n + i <= Len(s)) /\ (n + i) - Len(s) = i
  OBVIOUS
<1> QED
  BY <1>1, ConcatProperties DEF Joins

\* The header of a packet, with an address and without.
LEMMA HeaderAt ==
  ASSUME NEW U, NEW a \in U, NEW b \in U, NEW c \in U, NEW d \in U, NEW e \in U
  PROVE  LET h == <<a, b>> \o <<c>> \o <<d, e>>
             g == <<a, b>> \o <<>> \o <<d, e>>
         IN  /\ h \in Seq(U) /\ Len(h) = 5 /\ h[1] = a /\ h[2] = b /\ h[3] = c /\ h[4] = d /\ h[5] = e
             /\ g \in Seq(U) /\ Len(g) = 4 /\ g[1] = a /\ g[2] = b /\ g[3] = d /\ g[4] = e
<1> DEFINE s == <<a, b>>
           t == <<d, e>>
           u == <<c>>
           v == s \o u
           h == v \o t
           g == s \o t
<1>1. s \in Seq(U) /\ t \in Seq(U) /\ u \in Seq(U) /\ 2 = Len(s) /\ 2 = Len(t) /\ 1 = Len(u)
  OBVIOUS
<1>2. s[1] = a /\ s[2] = b /\ t[1] = d /\ t[2] = e /\ u[1] = c
  OBVIOUS
<1>5. s \o <<>> = s
  BY ConcatEmptySeq
<1> HIDE DEF s, t, u
<1>3. Joins(U, s, u, 2, 1) /\ Joins(U, s, t, 2, 2)
  BY <1>1, JoinedAs
<1>4. v \in Seq(U) /\ 3 = Len(v)
  BY <1>3 DEF Joins
<1>6. Joins(U, v, t, 3, 2)
  <2> HIDE DEF v
  <2> QED
    BY <1>1, <1>4, JoinedAs
<1>7. v[1] = s[1] /\ v[2] = s[2] /\ v[3] = u[1]
  BY <1>3 DEF Joins
<1>8. h \in Seq(U) /\ Len(h) = 5 /\ h[1] = v[1] /\ h[2] = v[2] /\ h[3] = v[3] /\ h[4] = t[1] /\ h[5] = t[2]
  <2> HIDE DEF v
  <2> QED
    BY <1>6 DEF Joins
<1>9. g \in Seq(U) /\ Len(g) = 4 /\ g[1] = s[1] /\ g[2] = s[2] /\ g[3] = t[1] /\ g[4] = t[2]
  BY <1>3 DEF Joins
<1> HIDE DEF v, h, g
<1>10. /\ h \in Seq(U) /\ Len(h) = 5 /\ h[1] = a /\ h[2] = b /\ h[3] = c /\ h[4] = d /\ h[5] = e
      /\ g \in Seq(U) /\ Len(g) = 4 /\ g[1] = a /\ g[2] = b /\ g[3] = d /\ g[4] = e
  BY <1>2, <1>7, <1>8, <1>9
<1>11. h = <<a, b>> \o <<c>> \o <<d, e>> /\ g = <<a, b>> \o <<>> \o <<d, e>>
  BY <1>5 DEF h, v, s, u, t, g
<1> QED
  BY <1>10, <1>11

LEMMA PackedAs ==
  ASSUME NEW msg \in Messages
  PROVE  ReadsAs(pack(msg), msg, Fields(msg.parts)[Len(msg.parts)])
<1> DEFINE F == Fields(msg.parts)[Len(msg.parts)]
           H == Header(msg)
           P == pack(msg)
           a == [sender |-> msg.sender]
           b == [target |-> msg.target # NoTarget]
           c == [addr |-> msg.target]
           d == [port |-> msg.port]
           e == [num |-> Len(msg.parts)]
           U == {a, b, c, d, e} \cup Field(msg.parts)
<1>1. P = H \o F
  BY DEF pack, Fields, Packing
<1>2. msg.parts \in Seq(Part) /\ Len(msg.parts) \in 0..Len(msg.parts)
  BY ModemAssumption DEF Messages
<1>3. F \in Seq(Field(msg.parts))
  BY <1>2, FieldsStep
<1>4. F \in Seq(U) /\ Len(F) \in Nat /\ a \in U /\ b \in U /\ c \in U /\ d \in U /\ e \in U
  <2> HIDE DEF F, a, b, c, d, e
  <2> QED
    BY <1>3
<1>5. H = <<a, b>> \o (IF msg.target # NoTarget THEN <<c>> ELSE <<>>) \o <<d, e>>
  BY DEF Header
<1>6. a.sender = msg.sender /\ c.addr = msg.target /\ d.port = msg.port /\ e.num = Len(msg.parts)
  OBVIOUS
<1>7. b.target = (msg.target # NoTarget)
  OBVIOUS
<1> HIDE DEF F, H, P, a, b, c, d, e, U
<1>8. CASE msg.target # NoTarget
  <2>1. H \in Seq(U) /\ 5 = Len(H) /\ H[1] = a /\ H[2] = b /\ H[3] = c /\ H[4] = d /\ H[5] = e
    <3>1. H = <<a, b>> \o <<c>> \o <<d, e>>
      BY <1>5, <1>8
    <3> QED
      BY <1>4, <3>1, HeaderAt
  <2>2. Joins(U, H, F, 5, Len(F))
    BY <1>4, <2>1, JoinedAs
  <2>3. P[1] = a /\ P[2] = b /\ P[3] = c /\ P[4] = d /\ P[5] = e /\ \A k \in 1..Len(F) : P[5 + k] = F[k]
    BY <1>1, <2>1, <2>2 DEF Joins
  <2>4. HasTarget(P) = (msg.target # NoTarget)
    BY <1>7, <2>3 DEF HasTarget
  <2>5. PortAt(P) = 4
    BY <1>8, <2>4 DEF PortAt
  <2>6. \A k \in 1..Len(F) : P[4 + 1 + k] = F[k]
    BY <1>4, <2>3
  <2> QED
    BY <1>6, <2>3, <2>4, <2>5, <2>6 DEF ReadsAs, F, P
<1>9. CASE msg.target = NoTarget
  <2>1. H \in Seq(U) /\ 4 = Len(H) /\ H[1] = a /\ H[2] = b /\ H[3] = d /\ H[4] = e
    <3>1. H = <<a, b>> \o <<>> \o <<d, e>>
      BY <1>5, <1>9
    <3> QED
      BY <1>4, <3>1, HeaderAt
  <2>2. Joins(U, H, F, 4, Len(F))
    BY <1>4, <2>1, JoinedAs
  <2>3. P[1] = a /\ P[2] = b /\ P[3] = d /\ P[4] = e /\ \A k \in 1..Len(F) : P[4 + k] = F[k]
    BY <1>1, <2>1, <2>2 DEF Joins
  <2>4. HasTarget(P) = (msg.target # NoTarget)
    BY <1>7, <2>3 DEF HasTarget
  <2>5. PortAt(P) = 3 /\ ~HasTarget(P)
    BY <1>9, <2>4 DEF PortAt
  <2>6. \A k \in 1..Len(F) : P[3 + 1 + k] = F[k]
    BY <1>4, <2>3
  <2> QED
    BY <1>6, <2>3, <2>4, <2>5, <2>6 DEF ReadsAs, F, P
<1> QED
  BY <1>8, <1>9

\* Reading goes through the fields, argument by argument.
ReadOne(packet, r) ==
  IF packet[r.next].type = "nil"
  THEN [next |-> r.next + 1, parts |-> Append(r.parts, <<"nil">>)]
  ELSE [next |-> r.next + 2, parts |-> Append(r.parts, <<packet[r.next].type, packet[r.next + 1].value>>)]
Reading(f, packet, N) ==
  f = [n \in 0..N |-> IF n = 0 THEN [next |-> PortAt(packet) + 2, parts |-> <<>>] ELSE ReadOne(packet, f[n - 1])]

LEMMA ReadingSteps ==
  ASSUME NEW packet, PortAt(packet) \in Nat, NEW N \in Nat, packet[PortAt(packet) + 1].num = N
  PROVE  \E f : /\ f[0] = [next |-> PortAt(packet) + 2, parts |-> <<>>]
                /\ \A n \in 1..N : f[n] = ReadOne(packet, f[n - 1])
                /\ Arguments(packet) = f[N].parts
<1> DEFINE Y == {<<"nil">>} \cup {<<packet[k].type, packet[k + 1].value>> : k \in Nat}
           V == [next : Nat, parts : Seq(Y)]
           a == [next |-> PortAt(packet) + 2, parts |-> <<>>]
           F == [x \in Nat \X V |-> ReadOne(packet, x[2])]
<1>1. a \in V
  OBVIOUS
<1>2. ASSUME NEW r \in V PROVE ReadOne(packet, r) \in V
  <2>1. r.next \in Nat /\ r.parts \in Seq(Y)
    OBVIOUS
  <2>2. <<"nil">> \in Y /\ <<packet[r.next].type, packet[r.next + 1].value>> \in Y
    BY <2>1
  <2> HIDE DEF Y
  <2>3. Append(r.parts, <<"nil">>) \in Seq(Y) /\ Append(r.parts, <<packet[r.next].type, packet[r.next + 1].value>>) \in Seq(Y)
    BY <2>1, <2>2, AppendProperties
  <2> QED
    BY <2>1, <2>3 DEF ReadOne
<1> HIDE DEF V, a
<1>3. F \in [Nat \X V -> V] /\ \A n \in Nat, v \in V : F[<<n, v>>] = ReadOne(packet, v)
  BY <1>2
<1> HIDE DEF F
<1>4. PICK g \in [0..N -> V] : Follows(g, a, N, F)
  BY <1>1, <1>3, StepsExist
<1>5. g[0] = a /\ \A n \in 1..N : g[n] = F[<<n, g[n - 1]>>]
  BY <1>4 DEF Follows
<1>6. ASSUME NEW n \in 1..N PROVE g[n] = ReadOne(packet, g[n - 1])
  <2>1. n - 1 \in 0..N /\ n \in Nat
    OBVIOUS
  <2>2. g[n - 1] \in V
    BY <1>4, <2>1
  <2> QED
    BY <1>3, <1>5, <2>1, <2>2
<1>7. Reading(g, packet, N)
  <2>1. ASSUME NEW n \in 0..N PROVE g[n] = IF n = 0 THEN a ELSE ReadOne(packet, g[n - 1])
    <3>1. n = 0 \/ n \in 1..N
      OBVIOUS
    <3> QED
      BY <1>5, <1>6, <3>1
  <2> QED
    BY <1>4, <2>1 DEF Reading, a
<1> DEFINE f == CHOOSE f : Reading(f, packet, N)
<1>8. Reading(f, packet, N)
  BY <1>7
<1>9. Arguments(packet) = f[N].parts
  BY DEF Arguments, Reading, ReadOne
<1> HIDE DEF f
<1>10. \A n \in 0..N : f[n] = IF n = 0 THEN a ELSE ReadOne(packet, f[n - 1])
  BY <1>8 DEF Reading, a
<1>11. f[0] = a /\ \A n \in 1..N : f[n] = ReadOne(packet, f[n - 1])
  BY <1>10
<1> QED
  BY <1>9, <1>11 DEF a
\* Where the fields of an argument are among those of all.
LiesAt(parts, n) ==
  LET F == Fields(parts)[Len(parts)]
      l == Len(Fields(parts)[n - 1])
      t == Typed(parts[n])
  IN  /\ l \in Nat /\ Len(Fields(parts)[n]) = l + Len(t) /\ l + Len(t) <= Len(F) /\ Len(F) \in Nat
      /\ \A k \in 1..Len(t) : F[l + k] = t[k]

LEMMA FieldsAt ==
  ASSUME NEW S, NEW parts \in Seq(S), NEW n \in 1..Len(parts)
  PROVE  LiesAt(parts, n)
<1> DEFINE V == Seq(Field(parts))
<1>1. PICK u \in V, v \in V, t \in V, w \in V :
        u = Fields(parts)[n - 1] /\ v = Fields(parts)[n] /\ t = Typed(parts[n]) /\ w = Fields(parts)[Len(parts)]
  <2>1. n - 1 \in 0..Len(parts) /\ n \in 0..Len(parts) /\ Len(parts) \in 0..Len(parts)
    OBVIOUS
  <2> QED
    BY <2>1, FieldsStep, TypedIs
<1>2. v = u \o t
  BY <1>1, FieldsStep
<1>3. Begins(v, w)
  <2>1. n \in 0..Len(parts)
    OBVIOUS
  <2>2. Begins(Fields(parts)[n], Fields(parts)[Len(parts)])
    BY <2>1, FieldsGrow
  <2> QED
    BY <1>1, <2>2
<1>4. PICK l \in Nat, k \in Nat, m \in Nat : l = Len(u) /\ k = Len(t) /\ m = Len(w)
  OBVIOUS
<1>5. Joins(Field(parts), u, t, l, k)
  BY <1>4, JoinedAs
<1>6. Len(v) = l + k /\ \A i \in 1..k : v[l + i] = t[i]
  BY <1>2, <1>5 DEF Joins
<1>7. l + k <= m /\ \A i \in 1..k : w[l + i] = t[i]
  BY <1>3, <1>4, <1>6 DEF Begins
<1> QED
  BY <1>1, <1>4, <1>6, <1>7 DEF LiesAt

\* What a program is told of an argument.
Argument(part) == IF part.type = "nil" THEN <<"nil">> ELSE <<part.type, part.value>>

\* The reader comes to the fields of each argument in turn.
LEMMA ReadsOne ==
  ASSUME NEW S, NEW msg, msg.parts \in Seq(S), NEW packet, NEW n \in 1..Len(msg.parts), NEW r,
         ReadsAs(packet, msg, Fields(msg.parts)[Len(msg.parts)]),
         r.next = PortAt(packet) + 2 + Len(Fields(msg.parts)[n - 1])
  PROVE  LET q == ReadOne(packet, r)
         IN  /\ q.next = PortAt(packet) + 2 + Len(Fields(msg.parts)[n])
             /\ q.parts = Append(r.parts, Argument(msg.parts[n]))
<1> DEFINE parts == msg.parts
           t == Typed(parts[n])
<1>1. PICK l \in Nat, m \in Nat, c \in Nat :
        l = Len(Fields(parts)[n - 1]) /\ m = Len(Fields(parts)[Len(parts)]) /\ c = PortAt(packet)
  BY FieldsAt DEF LiesAt, ReadsAs
<1>2. /\ Len(t) = IF parts[n].type = "nil" THEN 1 ELSE 2
      /\ t[1].type = parts[n].type /\ (parts[n].type # "nil" => t[2].value = parts[n].value)
  BY TypedIs
<1> HIDE DEF t
<1>3. /\ Len(Fields(parts)[n]) = l + Len(t) /\ l + Len(t) <= m
      /\ \A k \in 1..Len(t) : Fields(parts)[Len(parts)][l + k] = t[k]
  BY <1>1, FieldsAt DEF LiesAt, t
<1>4. \A k \in 1..Len(t) : packet[c + 1 + (l + k)] = t[k]
  <2> SUFFICES ASSUME NEW k \in 1..Len(t) PROVE packet[c + 1 + (l + k)] = t[k]
    OBVIOUS
  <2>1. Len(t) \in Nat /\ l + k \in 1..m
    BY <1>2, <1>3
  <2>2. packet[c + 1 + (l + k)] = Fields(parts)[Len(parts)][l + k]
    BY <1>1, <2>1 DEF ReadsAs
  <2> QED
    BY <1>3, <2>2
<1>5. r.next = c + 1 + (l + 1) /\ r.next + 1 = c + 1 + (l + 2)
  <2>1. r.next = c + 2 + l
    BY <1>1
  <2>2. PICK x \in Nat : x = r.next
    BY <2>1
  <2>3. x = c + 1 + (l + 1) /\ x + 1 = c + 1 + (l + 2)
    BY <2>1, <2>2
  <2> QED
    BY <2>2, <2>3
<1>6. CASE parts[n].type = "nil"
  <2>0. 1 \in 1..Len(t)
    BY <1>2, <1>6
  <2>a. packet[r.next] = t[1]
    BY <1>4, <1>5, <2>0
  <2>1. packet[r.next].type = "nil"
    BY <1>2, <1>6, <2>a
  <2>2. ReadOne(packet, r) = [next |-> r.next + 1, parts |-> Append(r.parts, <<"nil">>)]
    BY <2>1 DEF ReadOne
  <2>3. r.next + 1 = c + 2 + Len(Fields(parts)[n])
    BY <1>2, <1>3, <1>5, <1>6
  <2>4. ReadOne(packet, r).next = r.next + 1 /\ ReadOne(packet, r).parts = Append(r.parts, <<"nil">>)
    BY ONLY <2>2
  <2>5. Argument(msg.parts[n]) = <<"nil">>
    BY <1>6 DEF Argument
  <2> QED
    BY <1>1, <2>3, <2>4, <2>5
<1>7. CASE parts[n].type # "nil"
  <2>0. 1 \in 1..Len(t) /\ 2 \in 1..Len(t)
    BY <1>2, <1>7
  <2>a. packet[r.next] = t[1] /\ packet[r.next + 1] = t[2]
    BY <1>4, <1>5, <2>0
  <2>1. packet[r.next].type = parts[n].type /\ packet[r.next + 1].value = parts[n].value
    BY <1>2, <1>7, <2>a
  <2>2. ReadOne(packet, r) = [next |-> r.next + 2, parts |-> Append(r.parts, <<parts[n].type, parts[n].value>>)]
    BY <1>7, <2>1 DEF ReadOne
  <2>3. r.next + 2 = c + 2 + Len(Fields(parts)[n])
    BY <1>2, <1>3, <1>5, <1>7
  <2>4. /\ ReadOne(packet, r).next = r.next + 2
        /\ ReadOne(packet, r).parts = Append(r.parts, <<parts[n].type, parts[n].value>>)
    BY ONLY <2>2
  <2>5. Argument(msg.parts[n]) = <<parts[n].type, parts[n].value>>
    BY <1>7 DEF Argument
  <2> QED
    BY <1>1, <2>3, <2>4, <2>5
<1> QED
  BY <1>6, <1>7
LEMMA ArgumentsRead ==
  ASSUME NEW msg \in Messages
  PROVE  Arguments(pack(msg)) = As(msg).parts
<1> DEFINE packet == pack(msg)
           N == Len(msg.parts)
           Y == {Argument(msg.parts[j]) : j \in 1..N}
           A == [j \in 1..N |-> Argument(msg.parts[j])]
<1>1. msg.parts \in Seq(Part) /\ N \in Nat /\ DOMAIN msg.parts = 1..N
  BY ModemAssumption DEF Messages
<1>2. ReadsAs(packet, msg, Fields(msg.parts)[N])
  BY PackedAs
<1>3. PortAt(packet) \in Nat /\ packet[PortAt(packet) + 1].num = N
  BY <1>2 DEF ReadsAs
<1>4. As(msg).parts = A
  BY <1>1 DEF As, Argument
<1>5. \A j \in 1..N : Argument(msg.parts[j]) \in Y
  OBVIOUS
<1>6. A \in Seq(Y) /\ Len(A) = N
  <2> HIDE DEF Y, N
  <2>1. A \in [1..N -> Y]
    BY <1>5
  <2> QED
    BY <1>1, <2>1
<1> HIDE DEF packet, N
<1>7. PICK f : /\ f[0] = [next |-> PortAt(packet) + 2, parts |-> <<>>]
               /\ \A n \in 1..N : f[n] = ReadOne(packet, f[n - 1])
               /\ Arguments(packet) = f[N].parts
  BY <1>1, <1>3, ReadingSteps
<1> DEFINE Told(n) == /\ f[n].next = PortAt(packet) + 2 + Len(Fields(msg.parts)[n])
                      /\ f[n].parts \in Seq(Y) /\ Len(f[n].parts) = n
                      /\ \A j \in 1..n : f[n].parts[j] = Argument(msg.parts[j])
           Good == {n \in Nat : n <= N => Told(n)}
<1> HIDE DEF Y
<1>8. 0 \in Good
  <2>1. Fields(msg.parts)[0] = <<>>
    BY <1>1, FieldsStep
  <2>2. f[0].next = PortAt(packet) + 2 /\ f[0].parts = <<>>
    BY <1>7
  <2>3. Len(<<>>) = 0 /\ <<>> \in Seq(Y)
    OBVIOUS
  <2>4. PortAt(packet) + 2 = PortAt(packet) + 2 + Len(Fields(msg.parts)[0])
    BY <1>3, <2>1, <2>3
  <2>5. Told(0)
    BY <2>2, <2>3, <2>4
  <2> QED
    BY <2>5
<1>9. ASSUME NEW n \in Nat, n \in Good PROVE n + 1 \in Good
  <2> SUFFICES ASSUME n + 1 <= N PROVE Told(n + 1)
    OBVIOUS
  <2>1. Told(n) /\ n + 1 \in 1..N /\ (n + 1) - 1 = n
    BY <1>1, <1>9
  <2>2. PICK r : r = f[n]
    OBVIOUS
  <2>3. r.next = PortAt(packet) + 2 + Len(Fields(msg.parts)[(n + 1) - 1])
    BY <2>1, <2>2
  <2>4. f[n + 1] = ReadOne(packet, r)
    BY <1>7, <2>1, <2>2
  <2>5. /\ f[n + 1].next = PortAt(packet) + 2 + Len(Fields(msg.parts)[n + 1])
        /\ f[n + 1].parts = Append(r.parts, Argument(msg.parts[n + 1]))
    <3>1. n + 1 \in 1..Len(msg.parts)
      BY <2>1 DEF N
    <3>2. ReadsAs(packet, msg, Fields(msg.parts)[Len(msg.parts)])
      BY <1>2 DEF N
    <3>3. PICK k \in 1..Len(msg.parts) : k = n + 1
      BY <3>1
    <3>4. r.next = PortAt(packet) + 2 + Len(Fields(msg.parts)[k - 1])
      BY <2>3, <3>3
    <3>5. LET q == ReadOne(packet, r)
          IN  /\ q.next = PortAt(packet) + 2 + Len(Fields(msg.parts)[k])
              /\ q.parts = Append(r.parts, Argument(msg.parts[k]))
      BY <1>1, <3>2, <3>4, ReadsOne
    <3> QED
      BY <2>4, <3>3, <3>5
  <2>6. r.parts \in Seq(Y) /\ Len(r.parts) = n /\ \A j \in 1..n : r.parts[j] = Argument(msg.parts[j])
    BY <2>1, <2>2
  <2>7. PICK s \in Seq(Y), e \in Y : s = r.parts /\ e = Argument(msg.parts[n + 1])
    BY <1>5, <2>1, <2>6
  <2>8. /\ Append(s, e) \in Seq(Y) /\ Len(Append(s, e)) = n + 1
        /\ (\A j \in 1..n : Append(s, e)[j] = s[j]) /\ Append(s, e)[n + 1] = e
    <3>1. Len(s) = n
      BY <2>6, <2>7
    <3> QED
      BY <3>1, AppendProperties
  <2>9. \A j \in 1..(n + 1) : Append(s, e)[j] = Argument(msg.parts[j])
    <3>1. \A j \in 1..(n + 1) : j \in 1..n \/ j = n + 1
      OBVIOUS
    <3> QED
      BY <2>6, <2>7, <2>8, <3>1
  <2> QED
    BY <2>5, <2>7, <2>8, <2>9
<1>10. Told(N)
  <2> HIDE DEF Told
  <2>1. Nat \subseteq Good
    <3> HIDE DEF Good
    <3> QED
      BY <1>8, <1>9, SetInduction
  <2> QED
    BY <1>1, <2>1
<1>11. f[N].parts = A
  <2>1. PICK s \in Seq(Y), t \in Seq(Y) : s = f[N].parts /\ t = A
    BY <1>6, <1>10
  <2>2. Len(s) = Len(t) /\ \A j \in 1..Len(s) : s[j] = t[j]
    BY <1>6, <1>10, <2>1
  <2> QED
    BY <2>1, <2>2, SeqEqual
<1> QED
  BY <1>4, <1>7, <1>11 DEF packet

\* A packet is told as the message it was made from, to whom the message was for.
LEMMA MessageRead ==
  ASSUME NEW msg \in Messages, NEW m \in Modems
  PROVE  /\ ModemMessage(pack(msg)) = As(msg)
         /\ isApplicable(m, pack(msg)) <=> msg.port \in ports[m] /\ msg.target \in {m, NoTarget}
<1> DEFINE packet == pack(msg)
<1>1. ReadsAs(packet, msg, Fields(msg.parts)[Len(msg.parts)])
  BY PackedAs
<1>2. Arguments(packet) = As(msg).parts
  BY ArgumentsRead
<1> HIDE DEF packet
<1>3. ModemMessage(packet) = As(msg)
  BY <1>1, <1>2 DEF ModemMessage, As, ReadsAs
<1>4. isApplicable(m, packet) <=> msg.port \in ports[m] /\ msg.target \in {m, NoTarget}
  BY <1>1, ModemAssumption DEF isApplicable, ReadsAs, Messages
<1> QED
  BY <1>3, <1>4 DEF packet
\* t is s and then what g has for the numbers of K, in order.
Lists(t, s, K, g) ==
  /\ Len(t) = Len(s) + Cardinality(K) /\ \A k \in 1..Len(s) : t[k] = s[k]
  /\ \A i \in K : t[Len(s) + Cardinality({j \in K : j <= i})] = g[i]

LEMMA ListsNone ==
  ASSUME NEW S, NEW s \in Seq(S), NEW g
  PROVE  Lists(s, s, {}, g)
<1>1. Cardinality({}) = 0 /\ Len(s) \in Nat
  BY FS_EmptySet
<1>2. Len(s) = Len(s) + Cardinality({})
  BY <1>1
<1> QED
  BY <1>2 DEF Lists

LEMMA RankIn ==
  ASSUME NEW K \in SUBSET Nat, IsFiniteSet(K), NEW i \in K
  PROVE  /\ IsFiniteSet({j \in K : j <= i}) /\ Cardinality(K) \in Nat
         /\ Cardinality({j \in K : j <= i}) \in 1..Cardinality(K)
<1> DEFINE R == {j \in K : j <= i}
<1>1. R \in SUBSET K /\ i \in R
  OBVIOUS
<1> HIDE DEF R
<1>2. IsFiniteSet(R) /\ Cardinality(R) <= Cardinality(K)
  BY <1>1, FS_Subset
<1>3. Cardinality(R) \in Nat /\ Cardinality(K) \in Nat
  BY <1>2, FS_CardinalityType
<1>4. Cardinality(R) # 0
  BY <1>1, <1>2, FS_EmptySet
<1> QED
  BY <1>2, <1>3, <1>4 DEF R

LEMMA ListsMore ==
  ASSUME NEW S, NEW s \in Seq(S), NEW t \in Seq(S), NEW K \in SUBSET Nat, IsFiniteSet(K), NEW g,
         NEW x \in Nat, \A j \in K : j < x, g[x] \in S, Lists(t, s, K, g)
  PROVE  Lists(Append(t, g[x]), s, K \cup {x}, g)
<1> DEFINE u == Append(t, g[x])
           M == K \cup {x}
<1>1. PICK l \in Nat, c \in Nat : l = Len(s) /\ c = Cardinality(K)
  BY FS_CardinalityType
<1>2. Len(t) = l + c /\ \A k \in 1..l : t[k] = s[k]
  BY <1>1 DEF Lists
<1>3. x \notin K
  OBVIOUS
<1>4. IsFiniteSet(M) /\ Cardinality(M) = c + 1
  BY <1>1, <1>3, FS_AddElement
<1>5. /\ Len(u) = (l + c) + 1 /\ u[(l + c) + 1] = g[x]
      /\ \A k \in 1..(l + c) : u[k] = t[k]
  BY <1>2, AppendProperties
<1> HIDE DEF u, M
<1>6. Len(u) = Len(s) + Cardinality(M)
  BY <1>1, <1>4, <1>5
<1>7. \A k \in 1..Len(s) : u[k] = s[k]
  BY <1>1, <1>2, <1>5
<1>8. ASSUME NEW i \in M PROVE u[Len(s) + Cardinality({j \in M : j <= i})] = g[i]
  <2>1. CASE i = x
    <3>1. {j \in M : j <= i} = M
      <4>1. \A j \in M : j <= x
        BY DEF M
      <4> QED
        BY <2>1, <4>1
    <3>2. Len(s) + Cardinality({j \in M : j <= i}) = (l + c) + 1
      <4>1. PICK r \in Nat : r = Cardinality(M) /\ r = c + 1
        BY <1>4
      <4>2. r = Cardinality({j \in M : j <= i})
        BY <3>1, <4>1
      <4> QED
        BY <1>1, <4>1, <4>2
    <3> QED
      BY <1>5, <2>1, <3>2
  <2>2. CASE i # x
    <3>1. i \in K /\ i < x /\ i \in Nat
      BY <2>2 DEF M
    <3>2. {j \in M : j <= i} = {j \in K : j <= i}
      BY <3>1 DEF M
    <3>3. PICK r \in 1..c : r = Cardinality({j \in K : j <= i})
      BY <1>1, <3>1, RankIn
    <3>4. t[l + r] = g[i]
      BY <1>1, <3>1, <3>3 DEF Lists
    <3>5. l + r \in 1..(l + c)
      BY <1>1, <3>3
    <3>6. u[l + r] = g[i]
      BY <1>5, <3>4, <3>5
    <3> QED
      BY <1>1, <3>2, <3>3, <3>6
  <2> QED
    BY <2>1, <2>2
<1> QED
  BY <1>6, <1>7, <1>8 DEF Lists, u, M
\* What is on the air, and what a program can be told of it.
OnAir   == {[packet |-> pack(msg), msg |-> msg] : msg \in Messages}
Tidings == {As(msg) : msg \in Messages}

ModemsTypeOK ==
  /\ ports \in [Modems -> SUBSET Ports] /\ air \in Seq(OnAir) /\ at \in [Modems -> Nat]
  /\ inbox \in [Modems -> Seq(Nat)] /\ signalled \in [Modems -> Seq(Tidings)]

\* A component has not handled events of packets its driver got, each once and in order.
HeardInTurn ==
  \A m \in Modems :
    /\ at[m] <= Len(air) /\ \A k \in 1..Len(inbox[m]) : inbox[m][k] \in 1..at[m]
    /\ \A k, l \in 1..Len(inbox[m]) : k < l => inbox[m][k] < inbox[m][l]

ModemsIInv == ModemsTypeOK /\ HeardInTurn

LEMMA AirIs ==
  ASSUME ModemsTypeOK, NEW i \in 1..Len(air)
  PROVE  air[i].msg \in Messages /\ air[i].packet = pack(air[i].msg)
<1>1. air[i] \in OnAir
  BY DEF ModemsTypeOK
<1>2. PICK msg \in Messages : air[i] = [packet |-> pack(msg), msg |-> msg]
  BY <1>1 DEF OnAir
<1> QED
  BY <1>2

\* The packets that the first events of a modem are of, and that are for it.
ForIt(m)      == {i \in DOMAIN air : air[i].msg.port \in ports[m] /\ air[i].msg.target \in {m, NoTarget}}
Among(m, n)   == {i \in ForIt(m) : \E k \in 1..n : inbox[m][k] = i}
Said          == [i \in DOMAIN air |-> As(air[i].msg)]
TellOne(m, n, v) == IF isApplicable(m, air[inbox[m][n]].packet)
                    THEN Append(v, ModemMessage(air[inbox[m][n]].packet)) ELSE v
Telling(f, m) == f = [n \in 0..Len(inbox[m]) |-> IF n = 0 THEN signalled[m] ELSE TellOne(m, n, f[n - 1])]

\* One event.
LEMMA TellOneIs ==
  ASSUME ModemsIInv, NEW m \in Modems, NEW n \in 1..Len(inbox[m]), NEW v \in Seq(Tidings)
  PROVE  /\ inbox[m][n] \in 1..Len(air) /\ Said[inbox[m][n]] \in Tidings
         /\ TellOne(m, n, v) = IF inbox[m][n] \in ForIt(m) THEN Append(v, Said[inbox[m][n]]) ELSE v
         /\ TellOne(m, n, v) \in Seq(Tidings)
<1>1. PICK i : i = inbox[m][n]
  OBVIOUS
<1>2. Len(air) \in Nat /\ DOMAIN air = 1..Len(air) /\ at[m] \in Nat
  BY DEF ModemsIInv, ModemsTypeOK
<1>3. i \in 1..Len(air)
  BY <1>1, <1>2 DEF ModemsIInv, HeardInTurn
<1>4. air[i].msg \in Messages /\ air[i].packet = pack(air[i].msg)
  BY <1>3, AirIs DEF ModemsIInv
<1>5. Said[i] = As(air[i].msg) /\ Said[i] \in Tidings
  BY <1>2, <1>3, <1>4 DEF Said, Tidings
<1>6. ModemMessage(air[i].packet) = Said[i]
  BY <1>4, <1>5, MessageRead
<1>7. isApplicable(m, air[i].packet) <=> i \in ForIt(m)
  BY <1>2, <1>3, <1>4, MessageRead DEF ForIt
<1>8. TellOne(m, n, v) = IF i \in ForIt(m) THEN Append(v, Said[i]) ELSE v
  BY <1>1, <1>6, <1>7 DEF TellOne
<1>9. Append(v, Said[i]) \in Seq(Tidings)
  BY <1>5, AppendProperties
<1> QED
  BY <1>1, <1>3, <1>5, <1>8, <1>9

\* The events of a pass, one after another.
LEMMA TellingSteps ==
  ASSUME ModemsIInv, NEW m \in Modems
  PROVE  \E f : /\ f[0] = signalled[m] /\ \A n \in 1..Len(inbox[m]) : f[n] = TellOne(m, n, f[n - 1])
                /\ ModemUpdate(m) => signalled'[m] = f[Len(inbox[m])]
<1> DEFINE V == Seq(Tidings)
           N == Len(inbox[m])
           a == signalled[m]
           F == [x \in Nat \X V |-> IF x[1] \in 1..N THEN TellOne(m, x[1], x[2]) ELSE x[2]]
<1>1. N \in Nat /\ a \in V
  BY DEF ModemsIInv, ModemsTypeOK
<1>2. \A n \in 1..N, v \in V : TellOne(m, n, v) \in V
  BY TellOneIs
<1> HIDE DEF V, N, a
<1>3. F \in [Nat \X V -> V]
  <2>1. \A x \in Nat \X V : (IF x[1] \in 1..N THEN TellOne(m, x[1], x[2]) ELSE x[2]) \in V
    BY <1>2
  <2> QED
    BY <2>1
<1>4. \A n \in 1..N, v \in V : F[<<n, v>>] = TellOne(m, n, v)
  BY <1>1
<1> HIDE DEF F
<1>5. PICK g \in [0..N -> V] : Follows(g, a, N, F)
  BY <1>1, <1>3, StepsExist
<1>6. g[0] = a /\ \A n \in 1..N : g[n] = F[<<n, g[n - 1]>>]
  BY <1>5 DEF Follows
<1>7. ASSUME NEW n \in 1..N PROVE g[n] = TellOne(m, n, g[n - 1])
  <2>1. n - 1 \in 0..N
    BY <1>1
  <2>2. g[n - 1] \in V
    BY <1>5, <2>1
  <2> QED
    BY <1>4, <1>6, <2>2
<1>8. Telling(g, m)
  <2>1. ASSUME NEW n \in 0..N PROVE g[n] = IF n = 0 THEN a ELSE TellOne(m, n, g[n - 1])
    <3>1. n = 0 \/ n \in 1..N
      BY <1>1
    <3> QED
      BY <1>6, <1>7, <3>1
  <2> QED
    BY <1>5, <2>1 DEF Telling, a, N
<1> DEFINE f == CHOOSE f : Telling(f, m)
<1>9. Telling(f, m)
  BY <1>8
<1>10. ModemUpdate(m) => signalled'[m] = f[N]
  <2>1. ModemUpdate(m) => signalled' = [signalled EXCEPT ![m] = f[N]]
    BY DEF ModemUpdate, Telling, TellOne, N
  <2> QED
    BY <2>1 DEF ModemsIInv, ModemsTypeOK
<1> HIDE DEF f
<1>11. \A n \in 0..N : f[n] = IF n = 0 THEN a ELSE TellOne(m, n, f[n - 1])
  BY <1>9 DEF Telling, a, N
<1>12. f[0] = a /\ \A n \in 1..N : f[n] = TellOne(m, n, f[n - 1])
  BY <1>1, <1>11
<1> QED
  BY <1>10, <1>12 DEF a, N
\* After a pass a component has signalled what it was to hear, after what it had signalled.
LEMMA UpdateLists ==
  ASSUME ModemsIInv, NEW m \in Modems, ModemUpdate(m)
  PROVE  /\ signalled'[m] \in Seq(Tidings)
         /\ Lists(signalled'[m], signalled[m], Among(m, Len(inbox[m])), Said)
<1> DEFINE V == Seq(Tidings)
           N == Len(inbox[m])
           a == signalled[m]
<1>1. N \in Nat /\ a \in V /\ Len(air) \in Nat /\ DOMAIN air = 1..Len(air)
  BY DEF ModemsIInv, ModemsTypeOK
<1>2. PICK f : /\ f[0] = a /\ \A n \in 1..N : f[n] = TellOne(m, n, f[n - 1])
               /\ signalled'[m] = f[N]
  BY TellingSteps
<1>3. \A n \in Nat : Among(m, n) \in SUBSET Nat /\ IsFiniteSet(Among(m, n))
  <2> SUFFICES ASSUME NEW n \in Nat PROVE Among(m, n) \in SUBSET Nat /\ IsFiniteSet(Among(m, n))
    OBVIOUS
  <2>1. Among(m, n) \in SUBSET (1..Len(air))
    BY <1>1 DEF Among, ForIt
  <2>2. IsFiniteSet(1..Len(air))
    BY <1>1, FS_Interval
  <2> QED
    BY <1>1, <2>1, <2>2, FS_Subset
<1> DEFINE Good == {n \in Nat : n <= N => f[n] \in V /\ Lists(f[n], a, Among(m, n), Said)}
<1>4. 0 \in Good
  <2>1. Among(m, 0) = {}
    BY DEF Among
  <2>2. Lists(a, a, {}, Said)
    BY <1>1, ListsNone
  <2> QED
    BY <1>1, <1>2, <2>1, <2>2
<1>5. ASSUME NEW n \in Nat, n \in Good PROVE n + 1 \in Good
  <2> SUFFICES ASSUME n + 1 <= N PROVE f[n + 1] \in V /\ Lists(f[n + 1], a, Among(m, n + 1), Said)
    OBVIOUS
  <2>1. PICK k \in 1..N : k = n + 1 /\ k - 1 = n
    BY <1>1
  <2>2. PICK t \in V : t = f[n]
    BY <1>1, <1>5
  <2>3. Lists(t, a, Among(m, n), Said)
    BY <1>1, <1>5, <2>2
  <2>4. PICK x : x = inbox[m][k]
    OBVIOUS
  <2>5. f[k] = TellOne(m, k, t)
    BY <1>2, <2>1, <2>2
  <2>6. /\ x \in 1..Len(air) /\ Said[x] \in Tidings /\ TellOne(m, k, t) \in V
        /\ TellOne(m, k, t) = IF x \in ForIt(m) THEN Append(t, Said[x]) ELSE t
    BY <2>4, TellOneIs
  <2>7. \A i : (\E l \in 1..(n + 1) : inbox[m][l] = i) <=> i = x \/ \E l \in 1..n : inbox[m][l] = i
    <3>1. \A l \in 1..(n + 1) : l \in 1..n \/ l = k
      BY <2>1
    <3>2. k \in 1..(n + 1) /\ \A l \in 1..n : l \in 1..(n + 1)
      BY <2>1
    <3> QED
      BY <2>4, <3>1, <3>2
  <2>8. CASE x \in ForIt(m)
    <3>1. Among(m, n + 1) = Among(m, n) \cup {x}
      BY <2>7, <2>8 DEF Among
    <3>2. \A j \in Among(m, n) : j < x
      <4> SUFFICES ASSUME NEW l \in 1..n PROVE inbox[m][l] < x
        BY DEF Among
      <4>1. l \in 1..N /\ k \in 1..N /\ l < k
        BY <1>1, <2>1
      <4> QED
        BY <2>4, <4>1 DEF ModemsIInv, HeardInTurn
    <3>3. x \in Nat /\ Among(m, n) \in SUBSET Nat /\ IsFiniteSet(Among(m, n))
      BY <1>1, <1>3, <2>6
    <3>4. Lists(Append(t, Said[x]), a, Among(m, n) \cup {x}, Said)
      <4> HIDE DEF a
      <4>1. a \in Seq(Tidings) /\ t \in Seq(Tidings)
        BY <1>1
      <4>2. Said[x] \in Tidings
        BY <2>6
      <4>3. PICK K \in SUBSET Nat : K = Among(m, n)
        BY <3>3
      <4>4. IsFiniteSet(K) /\ (\A j \in K : j < x) /\ Lists(t, a, K, Said)
        BY <2>3, <3>2, <3>3, <4>3
      <4>5. Lists(Append(t, Said[x]), a, K \cup {x}, Said)
        BY <3>3, <4>1, <4>2, <4>4, ListsMore
      <4> QED
        BY <4>3, <4>5
    <3> QED
      BY <2>1, <2>5, <2>6, <2>8, <3>1, <3>4
  <2>9. CASE x \notin ForIt(m)
    <3>1. Among(m, n + 1) = Among(m, n)
      BY <2>7, <2>9 DEF Among
    <3> QED
      BY <2>1, <2>3, <2>5, <2>6, <2>9, <3>1
  <2> QED
    BY <2>8, <2>9
<1>6. N \in Good
  <2> HIDE DEF Good
  <2> QED
    BY <1>1, <1>4, <1>5, SetInduction
<1> QED
  BY <1>1, <1>2, <1>6

LEMMA ModemsStart == ModemsInit => ModemsIInv
<1> SUFFICES ASSUME ModemsInit PROVE ModemsIInv
  OBVIOUS
<1>1. Len(<<>>) = 0 /\ <<>> \in Seq(OnAir) /\ <<>> \in Seq(Nat) /\ <<>> \in Seq(Tidings)
  OBVIOUS
<1>2. ModemsTypeOK
  BY <1>1 DEF ModemsInit, ModemsTypeOK
<1>3. HeardInTurn
  BY <1>1 DEF ModemsInit, HeardInTurn
<1> QED
  BY <1>2, <1>3 DEF ModemsIInv

LEMMA HearsKeeps ==
  ASSUME ModemsIInv, NEW m \in Modems, Hears(m)
  PROVE  ModemsIInv'
<1>1. /\ at \in [Modems -> Nat] /\ inbox \in [Modems -> Seq(Nat)] /\ at[m] < Len(air) /\ Len(air) \in Nat
      /\ at' = [at EXCEPT ![m] = @ + 1] /\ ports' = ports /\ air' = air /\ signalled' = signalled
      /\ inbox' = inbox \/ inbox' = [inbox EXCEPT ![m] = Append(@, at[m] + 1)]
  BY DEF Hears, ModemsIInv, ModemsTypeOK
<1>2. PICK s \in Seq(Nat), x \in Nat, N \in Nat : s = inbox[m] /\ x = at[m] /\ N = Len(s)
  BY <1>1
<1>3. PICK t \in Seq(Nat) : t = Append(s, x + 1)
  <2>1. x + 1 \in Nat
    OBVIOUS
  <2>2. Append(s, x + 1) \in Seq(Nat)
    BY <2>1, AppendProperties
  <2> QED
    BY <2>2
<1>4. Len(t) = N + 1 /\ (\A k \in 1..N : t[k] = s[k]) /\ t[N + 1] = x + 1
  <2>1. x + 1 \in Nat
    OBVIOUS
  <2> QED
    BY <1>2, <1>3, <2>1, AppendProperties
<1>5. /\ \A k \in 1..N : s[k] \in 1..x
      /\ \A k, l \in 1..N : k < l => s[k] < s[l]
  BY <1>2 DEF ModemsIInv, HeardInTurn
<1>6. /\ \A k \in 1..(N + 1) : t[k] \in 1..(x + 1)
      /\ \A k, l \in 1..(N + 1) : k < l => t[k] < t[l]
  <2>1. \A k \in 1..(N + 1) : k \in 1..N \/ k = N + 1
    OBVIOUS
  <2>2. ASSUME NEW k \in 1..(N + 1) PROVE t[k] \in 1..(x + 1)
    <3>1. CASE k \in 1..N
      <4>1. t[k] = s[k] /\ s[k] \in 1..x
        BY <1>4, <1>5, <3>1
      <4> QED
        BY <4>1
    <3>2. CASE k = N + 1
      BY <1>4, <3>2
    <3> QED
      BY <2>1, <3>1, <3>2
  <2>3. ASSUME NEW k \in 1..(N + 1), NEW l \in 1..(N + 1), k < l PROVE t[k] < t[l]
    <3>1. k \in 1..N
      BY <2>3
    <3>2. t[k] = s[k] /\ s[k] \in 1..x
      BY <1>4, <1>5, <3>1
    <3>3. CASE l \in 1..N
      BY <1>4, <1>5, <2>3, <3>1, <3>2, <3>3
    <3>4. CASE l = N + 1
      BY <1>4, <3>2, <3>4
    <3> QED
      BY <2>1, <3>3, <3>4
  <2> QED
    BY <2>2, <2>3
<1>7. ModemsTypeOK'
  <2>1. inbox' \in [Modems -> Seq(Nat)]
    BY <1>1, <1>2, <1>3
  <2>2. at' \in [Modems -> Nat]
    BY <1>1
  <2> QED
    BY <1>1, <2>1, <2>2 DEF ModemsIInv, ModemsTypeOK
<1>8. ASSUME NEW n \in Modems
      PROVE  /\ at'[n] <= Len(air') /\ \A k \in 1..Len(inbox'[n]) : inbox'[n][k] \in 1..at'[n]
             /\ \A k, l \in 1..Len(inbox'[n]) : k < l => inbox'[n][k] < inbox'[n][l]
  <2>1. CASE n # m
    <3>1. at'[n] = at[n] /\ inbox'[n] = inbox[n]
      BY <1>1, <2>1
    <3> QED
      BY <1>1, <3>1 DEF ModemsIInv, HeardInTurn
  <2>2. CASE n = m
    <3>1. at'[n] = x + 1 /\ (inbox'[n] = s \/ inbox'[n] = t)
      BY <1>1, <1>2, <1>3, <2>2
    <3>2. x + 1 <= Len(air')
      BY <1>1, <1>2
    <3>3. \A k \in 1..N : s[k] \in 1..(x + 1)
      BY <1>5
    <3>4. CASE inbox'[n] = s
      BY <1>2, <1>5, <3>1, <3>2, <3>3, <3>4
    <3>5. CASE inbox'[n] = t
      BY <1>4, <1>6, <3>1, <3>2, <3>5
    <3> QED
      BY <3>1, <3>4, <3>5
  <2> QED
    BY <2>1, <2>2
<1> QED
  BY <1>7, <1>8 DEF ModemsIInv, HeardInTurn
LEMMA TransmitKeeps ==
  ASSUME ModemsIInv, NEW msg \in Messages, Transmit(msg)
  PROVE  ModemsIInv'
<1> DEFINE sent == [packet |-> pack(msg), msg |-> msg]
<1>1. sent \in OnAir
  BY DEF OnAir
<1> HIDE DEF sent
<1>2. air \in Seq(OnAir) /\ air' = Append(air, sent) /\ UNCHANGED <<ports, at, inbox, signalled>>
  BY DEF Transmit, ModemsIInv, ModemsTypeOK, sent
<1>3. air' \in Seq(OnAir) /\ Len(air') = Len(air) + 1 /\ Len(air) \in Nat
  BY <1>1, <1>2, AppendProperties
<1>4. ModemsTypeOK'
  BY <1>2, <1>3 DEF ModemsIInv, ModemsTypeOK
<1>5. \A m \in Modems : at'[m] <= Len(air')
  BY <1>2, <1>3 DEF ModemsIInv, ModemsTypeOK, HeardInTurn
<1> QED
  BY <1>2, <1>4, <1>5 DEF ModemsIInv, HeardInTurn

LEMMA PassKeeps ==
  ASSUME ModemsIInv, NEW m \in Modems, ModemUpdate(m)
  PROVE  ModemsIInv'
<1>1. signalled'[m] \in Seq(Tidings)
  BY UpdateLists
<1>2. /\ inbox' = [inbox EXCEPT ![m] = <<>>] /\ UNCHANGED <<ports, air, at>>
      /\ \E s : signalled' = [signalled EXCEPT ![m] = s]
  BY DEF ModemUpdate
<1>3. ModemsTypeOK
  BY DEF ModemsIInv
<1>4. Len(<<>>) = 0 /\ <<>> \in Seq(Nat)
  OBVIOUS
<1>5. inbox' \in [Modems -> Seq(Nat)]
  BY <1>2, <1>3, <1>4 DEF ModemsTypeOK
<1>6. signalled' \in [Modems -> Seq(Tidings)]
  <2>1. PICK s : signalled' = [signalled EXCEPT ![m] = s]
    BY <1>2
  <2>2. s \in Seq(Tidings)
    BY <1>1, <1>3, <2>1 DEF ModemsTypeOK
  <2> QED
    BY <1>3, <2>1, <2>2 DEF ModemsTypeOK
<1>7. ModemsTypeOK'
  BY <1>2, <1>3, <1>5, <1>6 DEF ModemsTypeOK
<1>8. ASSUME NEW n \in Modems
      PROVE  /\ at'[n] <= Len(air') /\ \A k \in 1..Len(inbox'[n]) : inbox'[n][k] \in 1..at'[n]
             /\ \A k, l \in 1..Len(inbox'[n]) : k < l => inbox'[n][k] < inbox'[n][l]
  <2>1. CASE n = m
    <3>1. inbox'[n] = <<>>
      BY <1>2, <1>3, <2>1 DEF ModemsTypeOK
    <3>2. at'[n] <= Len(air')
      BY <1>2 DEF ModemsIInv, HeardInTurn
    <3> QED
      BY <1>4, <3>1, <3>2
  <2>2. CASE n # m
    <3>1. inbox'[n] = inbox[n]
      BY <1>2, <1>3, <2>2 DEF ModemsTypeOK
    <3> QED
      BY <1>2, <3>1 DEF ModemsIInv, HeardInTurn
  <2> QED
    BY <2>1, <2>2
<1> QED
  BY <1>7, <1>8 DEF ModemsIInv, HeardInTurn

LEMMA PortsKeep ==
  ASSUME ModemsIInv, NEW m \in Modems, NEW port \in Ports, OpenPort(m, port) \/ ClosePort(m, port)
  PROVE  ModemsIInv'
<1>1. UNCHANGED <<air, at, inbox, signalled>> /\ ports \in [Modems -> SUBSET Ports]
  BY DEF OpenPort, ClosePort, ModemsIInv, ModemsTypeOK
<1>2. ports' \in [Modems -> SUBSET Ports]
  <2>1. PICK P \in SUBSET Ports : ports' = [ports EXCEPT ![m] = P]
    BY <1>1 DEF OpenPort, ClosePort
  <2> QED
    BY <1>1, <2>1
<1> QED
  BY <1>1, <1>2 DEF ModemsIInv, ModemsTypeOK, HeardInTurn

LEMMA ModemsSteps == ModemsIInv /\ [ModemsNext]_modemVars => ModemsIInv'
<1> SUFFICES ASSUME ModemsIInv, [ModemsNext]_modemVars PROVE ModemsIInv'
  OBVIOUS
<1>1. CASE UNCHANGED modemVars
  BY <1>1 DEF modemVars, ModemsIInv, ModemsTypeOK, HeardInTurn
<1>2. ASSUME NEW m \in Modems, Hears(m) PROVE ModemsIInv'
  BY <1>2, HearsKeeps
<1>3. ASSUME NEW m \in Modems, ModemUpdate(m) PROVE ModemsIInv'
  BY <1>3, PassKeeps
<1>4. ASSUME NEW m \in Modems, NEW port \in Ports, OpenPort(m, port) \/ ClosePort(m, port) PROVE ModemsIInv'
  BY <1>4, PortsKeep
<1>5. ASSUME NEW msg \in Messages, Transmit(msg) PROVE ModemsIInv'
  BY <1>5, TransmitKeeps
<1> QED
  BY <1>1, <1>2, <1>3, <1>4, <1>5 DEF ModemsNext

\* Modems keep their types; what a component has yet to handle is of packets that its
\* driver got (modem_drv.cpp), each once and in the order they went over the network.
THEOREM ModemsTyped == ModemsSpec => []ModemsIInv
<1> QED
  BY ModemsStart, ModemsSteps, PTL DEF ModemsSpec

\* A modem's program is told of exactly the messages for it that the driver got since the
\* last pass, in the order sent, as they were sent (modem.cpp:48-149).
THEOREM HeardIsSent == ModemsSpec => HeardAsSent
<1> DEFINE Hearing(m) ==
       LET mine == {i \in DOMAIN air : /\ \E k \in DOMAIN inbox[m] : inbox[m][k] = i
                                      /\ air[i].msg.port \in ports[m] /\ air[i].msg.target \in {m, NoTarget}}
           rank(i) == Cardinality({j \in mine : j <= i})
           before  == signalled[m]
           after   == signalled'[m]
       IN  IF inbox'[m] # <<>> \/ inbox[m] = <<>> THEN after = before
           ELSE /\ Len(after) = Len(before) + Cardinality(mine)
                /\ \A k \in DOMAIN before : after[k] = before[k]
                /\ \A i \in mine : after[Len(before) + rank(i)] = As(air[i].msg)
<1>1. ASSUME ModemsIInv, NEW m \in Modems, signalled'[m] = signalled[m], inbox'[m] # <<>> \/ inbox[m] = <<>>
      PROVE  Hearing(m)
  BY <1>1
<1>2. ASSUME ModemsIInv, NEW m \in Modems, ModemUpdate(m) PROVE Hearing(m)
  <2>1. /\ inbox[m] \in Seq(Nat) /\ DOMAIN inbox[m] = 1..Len(inbox[m])
        /\ DOMAIN signalled[m] = 1..Len(signalled[m])
    BY <1>2 DEF ModemsIInv, ModemsTypeOK
  <2>2. inbox[m] # <<>> /\ inbox'[m] = <<>>
    BY <1>2 DEF ModemUpdate, ModemsIInv, ModemsTypeOK
  <2>3. PICK K : K = Among(m, Len(inbox[m]))
    OBVIOUS
  <2>4. Lists(signalled'[m], signalled[m], K, Said)
    BY <1>2, <2>3, UpdateLists
  <2>5. K = {i \in DOMAIN air : /\ \E k \in DOMAIN inbox[m] : inbox[m][k] = i
                                /\ air[i].msg.port \in ports[m] /\ air[i].msg.target \in {m, NoTarget}}
    BY <2>1, <2>3 DEF Among, ForIt
  <2>6. \A i \in K : Said[i] = As(air[i].msg)
    BY <2>5 DEF Said
  <2>7. /\ Len(signalled'[m]) = Len(signalled[m]) + Cardinality(K)
        /\ \A k \in DOMAIN signalled[m] : signalled'[m][k] = signalled[m][k]
        /\ \A i \in K : signalled'[m][Len(signalled[m]) + Cardinality({j \in K : j <= i})] = As(air[i].msg)
    BY <2>1, <2>4, <2>6 DEF Lists
  <2> QED
    BY ONLY <2>2, <2>5, <2>7
<1>3. ASSUME ModemsIInv, [ModemsNext]_modemVars, NEW m \in Modems PROVE Hearing(m)
  <2> HIDE DEF Hearing
  <2>t. ModemsTypeOK
    BY <1>3 DEF ModemsIInv
  <2>1. CASE UNCHANGED modemVars
    BY <1>1, <1>3, <2>1 DEF modemVars
  <2>2. ASSUME NEW n \in Modems, Hears(n) PROVE Hearing(m)
    <3>1. signalled' = signalled /\ (inbox' = inbox \/ inbox' = [inbox EXCEPT ![n] = Append(@, at[n] + 1)])
      BY <2>2 DEF Hears
    <3>2. inbox'[m] # <<>> \/ inbox[m] = <<>>
      <4>1. CASE inbox' = inbox \/ m # n
        BY <2>t, <3>1, <4>1 DEF ModemsTypeOK
      <4>2. CASE inbox' # inbox /\ m = n
        <5>1. inbox'[m] = Append(inbox[m], at[m] + 1)
          BY <2>t, <3>1, <4>2 DEF ModemsTypeOK
        <5>2. inbox[m] \in Seq(Nat) /\ at[m] + 1 \in Nat
          BY <2>t DEF ModemsTypeOK
        <5> QED
          BY <5>1, <5>2, AppendProperties
      <4> QED
        BY <4>1, <4>2
    <3> QED
      BY <1>1, <1>3, <3>1, <3>2
  <2>3. ASSUME NEW n \in Modems, ModemUpdate(n) PROVE Hearing(m)
    <3>1. CASE n = m
      BY <1>2, <1>3, <2>3, <3>1
    <3>2. CASE n # m
      <4>1. inbox'[m] = inbox[m] /\ signalled'[m] = signalled[m]
        BY <2>3, <2>t, <3>2 DEF ModemUpdate, ModemsTypeOK
      <4> QED
        BY <1>1, <1>3, <4>1
    <3> QED
      BY <3>1, <3>2
  <2>4. ASSUME NEW n \in Modems, NEW port \in Ports, OpenPort(n, port) \/ ClosePort(n, port) PROVE Hearing(m)
    <3>1. inbox' = inbox /\ signalled' = signalled
      BY <2>4 DEF OpenPort, ClosePort
    <3> QED
      BY <1>1, <1>3, <3>1
  <2>5. ASSUME NEW msg \in Messages, Transmit(msg) PROVE Hearing(m)
    <3>1. inbox' = inbox /\ signalled' = signalled
      BY <2>5 DEF Transmit
    <3> QED
      BY <1>1, <1>3, <3>1
  <2> QED
    BY <1>3, <2>1, <2>2, <2>3, <2>4, <2>5 DEF ModemsNext
<1>4. ModemsIInv /\ [ModemsNext]_modemVars => [\A m \in Modems : Hearing(m)]_modemVars
  <2> HIDE DEF Hearing
  <2> QED
    BY <1>3
<1> QED
  BY <1>4, ModemsTyped, PTL DEF ModemsSpec, HeardAsSent
=============================================================================
