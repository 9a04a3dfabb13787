------------------------------ MODULE DaemonProofs ------------------------------
(***************************************************************************)
(* Theorems about the life of the FastCGI server, for any number of        *)
(* worker threads and any backlog.                                         *)
(***************************************************************************)
EXTENDS Daemon, TLAPS

LEMMA MainTypes == TypeOK /\ Main => TypeOK'
<1> SUFFICES ASSUME TypeOK, Main PROVE TypeOK'
  OBVIOUS
<1> USE DaemonAssumption DEF TypeOK, Threads, Places, workers, signals
<1>1. ASSUME Fails PROVE TypeOK'
  BY <1>1 DEF Fails
<1>2. CASE LoadInterpreter
  BY <1>1, <1>2 DEF LoadInterpreter
<1>3. CASE OpenSocket
  BY <1>1, <1>3 DEF OpenSocket
<1>4. CASE PushThread
  BY <1>4 DEF PushThread
<1>5. CASE StartThread
  BY <1>1, <1>5 DEF StartThread
<1>6. CASE AllStarted
  BY <1>6 DEF AllStarted
<1>7. CASE WaitFor
  BY <1>7 DEF WaitFor
<1>8. CASE Cleanup
  BY <1>8 DEF Cleanup
<1> QED
  BY <1>2, <1>3, <1>4, <1>5, <1>6, <1>7, <1>8 DEF Main

\* A call that fails takes the worker to a place that AfterFailure names.
LEMMA BreaksTo ==
    ASSUME TypeOK, NEW t \in Threads, Breaks(t)
    PROVE  \E p \in {"recheck", "check", "serve"} :
              /\ worker' = [worker EXCEPT ![t] = p]
              /\ worker[t] \in {"keeper", "read", "body", "send"}
              /\ worker[t] # "keeper" => p # "recheck"
<1>1. worker[t] \in {"keeper", "read", "body", "send"}
  BY DEF Breaks, AfterFailure
<1>2. AfterFailure[worker[t]] \in {"recheck", "check", "serve"}
      /\ (worker[t] # "keeper" => AfterFailure[worker[t]] # "recheck")
  BY <1>1 DEF AfterFailure
<1> QED
  BY <1>1, <1>2 DEF Breaks

LEMMA BreaksKeeps ==
    ASSUME NEW t \in Threads, Breaks(t)
    PROVE  UNCHANGED cause
  BY DEF Breaks

LEMMA BreaksTypes ==
    ASSUME TypeOK, NEW t \in Threads, Breaks(t)
    PROVE  /\ worker' \in [Threads -> Places] /\ keep' \in [Threads -> BOOLEAN]
           /\ cause' \in [Threads -> Causes]
  BY BreaksTo DEF TypeOK, Places, Breaks

LEMMA SignalTypes ==
    TypeOK /\ (ReloadConfiguration \/ Terminate \/ StopThread \/ StopThreadStale) => TypeOK'
<1> SUFFICES ASSUME TypeOK,
                    ReloadConfiguration \/ Terminate \/ StopThread \/ StopThreadStale
             PROVE  TypeOK'
  OBVIOUS
<1> USE DaemonAssumption DEF TypeOK, Threads, Places, Causes, workers, signals
<1>1. CASE ReloadConfiguration
  BY <1>1 DEF ReloadConfiguration
<1>2. CASE Terminate
  <2>1. sig' \in 0..N
    BY <1>2 DEF Terminate
  <2>2. shutdown' \in BOOLEAN /\ stale' \in BOOLEAN
    BY <1>2, Zenon DEF Terminate
  <2> QED
    BY <1>2, <2>1, <2>2 DEF Terminate
<1>3. CASE StopThread
  <2>1. sig \in Threads /\ sig' \in 0..N
    BY <1>3 DEF StopThread
  <2>2. worker' \in [Threads -> Places] /\ keep' \in [Threads -> BOOLEAN]
        /\ cause' \in [Threads -> Causes]
    BY <1>3, <2>1, BreaksTypes DEF StopThread, Interrupted
  <2>3. passed' \in [Threads -> BOOLEAN]
    <3>1. passed' = [passed EXCEPT ![sig] = worker[sig] # "window"]
      BY <1>3 DEF StopThread
    <3> HIDE DEF Threads
    <3> QED
      BY <3>1, Zenon
  <2> QED
    BY <1>3, <2>1, <2>2, <2>3 DEF StopThread
<1>4. CASE StopThreadStale
  BY <1>4 DEF StopThreadStale
<1> QED
  BY <1>1, <1>2, <1>3, <1>4

LEMMA WorkerTypes ==
    ASSUME TypeOK, NEW t \in Threads, Works(t) \/ Waits(t)
    PROVE  TypeOK'
<1> USE DaemonAssumption DEF TypeOK, Places, Causes, workers, signals, Moves, Ends
<1>1. CASE CheckShutdown(t)
  BY <1>1 DEF CheckShutdown
<1>2. CASE EnterAccept(t)
  BY <1>2 DEF EnterAccept
<1>3. CASE GetRequest(t)
  BY <1>3 DEF GetRequest
<1>4. CASE ProcessCgiRequest(t)
  BY <1>4 DEF ProcessCgiRequest
<1>5. CASE Accept(t)
  BY <1>5 DEF Accept
<1>6. CASE AcceptFails(t)
  BY <1>6 DEF AcceptFails
<1>7. CASE ReadFails(t)
  BY <1>7, BreaksTypes DEF ReadFails
<1>8. CASE ReadRequest(t)
  BY <1>8 DEF ReadRequest
<1>9. CASE Keeper(t)
  BY <1>9 DEF Keeper
<1>10. CASE Reuses(t)
  BY <1>10 DEF Reuses
<1>11. CASE ReadBody(t)
  BY <1>11, BreaksTypes DEF ReadBody
<1>12. CASE SendResponse(t)
  BY <1>12, BreaksTypes DEF SendResponse
<1> QED
  BY <1>1, <1>2, <1>3, <1>4, <1>5, <1>6, <1>7, <1>8, <1>9, <1>10, <1>11, <1>12 DEF Works, Waits

\* The variables of the daemon keep their types: terminate() stays inside the vector
\* of threads.
THEOREM TypeCorrect == Spec => []TypeOK
<1>1. Init => TypeOK
  <2> SUFFICES ASSUME Init PROVE TypeOK
    OBVIOUS
  <2>1. threads \in 0..N /\ sig \in 0..N /\ queue \in 0..Backlog /\ 0 \in 0..2
    BY DaemonAssumption DEF Init
  <2>2. /\ worker \in [Threads -> Places] /\ keep \in [Threads -> BOOLEAN]
        /\ cause \in [Threads -> Causes] /\ late \in [Threads -> 0..2]
        /\ passed \in [Threads -> BOOLEAN]
    BY <2>1, Zenon DEF Init, Places, Causes
  <2>3. /\ dbpager \in BOOLEAN /\ failed \in BOOLEAN /\ crashed \in BOOLEAN
        /\ shutdown \in BOOLEAN /\ stale \in BOOLEAN
    BY Zenon DEF Init
  <2> QED
    BY <2>1, <2>2, <2>3 DEF Init, TypeOK
<1>2. TypeOK /\ [Next]_vars => TypeOK'
  <2> SUFFICES ASSUME TypeOK, [Next]_vars PROVE TypeOK'
    OBVIOUS
  <2>1. CASE Connect
    BY <2>1, DaemonAssumption DEF Connect, TypeOK, workers, signals
  <2>2. CASE Over \/ UNCHANGED vars
    BY <2>2 DEF Over, vars, TypeOK, workers, signals
  <2> QED
    BY <2>1, <2>2, MainTypes, SignalTypes, WorkerTypes DEF Next
<1> QED
  BY <1>1, <1>2, PTL DEF Spec

--------------------------------------------------------------------------------
(* Why workers end, and when *)

\* terminate() walks the threads only after the flag is set.
StopsAfterFlag == sig # 0 => shutdown

\* A thread that has not been pushed is nowhere.
Unborn == \A t \in Threads : t > threads => worker[t] = "none"

\* execute() gets past its waiting loop only when all workers have ended.
AllEnded ==
    main \in {"cleanup", "done"} /\ ~failed => \A t \in Threads : worker[t] = "ended"

\* A worker that has ended has a cause, which is the shutdown only after the flag.
Caused ==
    \A t \in Threads :
        /\ worker[t] = "ended" => cause[t] # "none"
        /\ cause[t] \in {"shutdown", "interrupted"} => shutdown

\* A worker that has accepted a connection after the shutdown will see the flag
\* before it comes to accept() again.
LateGone ==
    \A t \in Threads : late[t] # 0 =>
        /\ shutdown /\ late[t] = 1
        /\ worker[t] \notin {"none", "new", "window", "accept"}

\* stop() comes after the flag, so a worker that it met outside of the window cannot get
\* there any more.
PassedGone ==
    \A t \in Threads : passed[t] => shutdown /\ worker[t] \notin {"window", "accept"}

DaemonInv ==
    StopsAfterFlag /\ Unborn /\ AllEnded /\ Caused /\ LateGone /\ PassedGone

LEMMA MainInv == TypeOK /\ DaemonInv /\ Main => DaemonInv'
<1> SUFFICES ASSUME TypeOK, DaemonInv, Main PROVE DaemonInv'
  OBVIOUS
<1> USE DaemonAssumption DEF TypeOK, DaemonInv, StopsAfterFlag, Unborn, AllEnded, Caused,
                             LateGone, PassedGone, Threads, workers, signals
<1>1. ASSUME Fails PROVE DaemonInv'
  BY <1>1 DEF Fails
<1>2. CASE LoadInterpreter
  BY <1>1, <1>2 DEF LoadInterpreter
<1>3. CASE OpenSocket
  <2>1. CASE ~Fails
    <3>1. main' = "spawn" /\ UNCHANGED <<dbpager, threads, workers, signals, failed>>
      BY <1>3, <2>1 DEF OpenSocket
    <3> QED
      BY <1>3, <3>1 DEF OpenSocket
  <2> QED
    BY <1>1, <2>1
<1>4. CASE PushThread
  <2>1. threads + 1 \in Threads /\ worker[threads + 1] = "none" /\ late[threads + 1] = 0
    BY <1>4 DEF PushThread
  <2> QED
    BY <1>4, <2>1 DEF PushThread
<1>5. CASE StartThread
  <2>1. CASE ~Fails
    <3>1. /\ worker' = [worker EXCEPT ![threads] = "check"] /\ main' = "spawn"
          /\ UNCHANGED <<dbpager, threads, cause, late, passed, signals, failed>>
      BY <1>5, <2>1 DEF StartThread
    <3>2. \A t \in Threads : worker'[t] \in {"check", worker[t]}
                             /\ (t > threads => worker'[t] = worker[t])
      BY <3>1
    <3>3. main = "start"
      BY <1>5 DEF StartThread
    <3> QED
      BY <3>1, <3>2, <3>3
  <2> QED
    BY <1>1, <2>1
<1>6. CASE AllStarted
  BY <1>6 DEF AllStarted
<1>7. CASE WaitFor
  BY <1>7 DEF WaitFor
<1>8. CASE Cleanup
  BY <1>8 DEF Cleanup
<1> QED
  BY <1>2, <1>3, <1>4, <1>5, <1>6, <1>7, <1>8 DEF Main

LEMMA SignalInv ==
    TypeOK /\ DaemonInv /\ (ReloadConfiguration \/ Terminate \/ StopThread \/ StopThreadStale)
        => DaemonInv'
<1> SUFFICES ASSUME TypeOK, DaemonInv,
                    ReloadConfiguration \/ Terminate \/ StopThread \/ StopThreadStale
             PROVE  DaemonInv'
  OBVIOUS
<1> USE DaemonAssumption DEF TypeOK, DaemonInv, StopsAfterFlag, Unborn, AllEnded, Caused,
                             LateGone, PassedGone, Threads, workers, signals
<1>1. CASE ReloadConfiguration
  BY <1>1 DEF ReloadConfiguration
<1>2. CASE Terminate
  BY <1>2 DEF Terminate
<1>3. CASE StopThread
  <2>1. sig \in Threads /\ shutdown
    BY <1>3 DEF StopThread
  <2>2. \A t \in Threads : passed'[t] => passed[t] \/ (t = sig /\ worker[sig] # "window")
    <3>1. passed' = [passed EXCEPT ![sig] = worker[sig] # "window"]
          /\ passed \in [Threads -> BOOLEAN]
      BY <1>3 DEF StopThread
    <3> HIDE DEF Threads
    <3> QED
      BY <3>1, Zenon
  <2>3. /\ UNCHANGED <<main, threads, late, shutdown, failed>>
        /\ Interrupted(sig)
    BY <1>3 DEF StopThread
  <2>4. /\ \A t \in Threads \ {sig} : worker'[t] = worker[t] /\ cause'[t] = cause[t]
        /\ \/ worker'[sig] = "ended" /\ worker[sig] = "accept" /\ cause'[sig] = "interrupted"
           \/ /\ worker[sig] \in {"keeper", "read", "body", "send"}
              /\ worker'[sig] \in {"recheck", "check", "serve"} /\ cause'[sig] = cause[sig]
           \/ worker[sig] # "accept" /\ worker'[sig] = worker[sig] /\ cause'[sig] = cause[sig]
    <3>1. CASE Breaks(sig)
      <4> HIDE DEF TypeOK, Threads, DaemonInv
      <4>1. PICK p \in {"recheck", "check", "serve"} :
               /\ worker' = [worker EXCEPT ![sig] = p]
               /\ worker[sig] \in {"keeper", "read", "body", "send"}
        BY <2>1, <3>1, BreaksTo
      <4>2. cause' = cause
        BY <2>1, <3>1, BreaksKeeps
      <4> QED
        BY <2>1, <4>1, <4>2 DEF TypeOK
    <3>2. CASE ~Breaks(sig)
      BY <2>1, <2>3, <3>2 DEF Interrupted
    <3> QED
      BY <3>1, <3>2
  <2>5. StopsAfterFlag' /\ Unborn' /\ AllEnded'
    BY <2>1, <2>3, <2>4
  <2>6. Caused' /\ LateGone'
    BY <2>1, <2>3, <2>4
  <2>7. PassedGone'
    BY <2>1, <2>2, <2>3, <2>4
  <2> QED
    BY <2>5, <2>6, <2>7
<1>4. CASE StopThreadStale
  BY <1>4 DEF StopThreadStale
<1> QED
  BY <1>1, <1>2, <1>3, <1>4

LEMMA WorkerInv ==
    ASSUME TypeOK, DaemonInv, NEW t \in Threads, Works(t) \/ Waits(t)
    PROVE  DaemonInv'
<1> USE DaemonAssumption DEF TypeOK, DaemonInv, StopsAfterFlag, Unborn, AllEnded, Caused,
                             LateGone, PassedGone, workers, signals, Moves, Ends
<1>1. CASE CheckShutdown(t)
  BY <1>1 DEF CheckShutdown
<1>2. CASE EnterAccept(t)
  BY <1>2 DEF EnterAccept
<1>3. CASE GetRequest(t)
  BY <1>3 DEF GetRequest
<1>4. CASE ProcessCgiRequest(t)
  BY <1>4 DEF ProcessCgiRequest
<1>5. CASE Accept(t)
  BY <1>5 DEF Accept
<1>6. CASE AcceptFails(t)
  BY <1>6 DEF AcceptFails
<1>7. CASE ReadFails(t)
  BY <1>7, BreaksTo, BreaksKeeps DEF ReadFails
<1>8. CASE ReadRequest(t)
  BY <1>8 DEF ReadRequest
<1>9. CASE Keeper(t)
  BY <1>9 DEF Keeper
<1>10. CASE Reuses(t)
  BY <1>10 DEF Reuses
<1>11. CASE ReadBody(t)
  BY <1>11, BreaksTo, BreaksKeeps DEF ReadBody
<1>12. CASE SendResponse(t)
  BY <1>12, BreaksTo, BreaksKeeps DEF SendResponse
<1> QED
  BY <1>1, <1>2, <1>3, <1>4, <1>5, <1>6, <1>7, <1>8, <1>9, <1>10, <1>11, <1>12 DEF Works, Waits

LEMMA Invariance == Spec => [](TypeOK /\ DaemonInv)
<1>1. Init => DaemonInv
  BY DEF Init, DaemonInv, StopsAfterFlag, Unborn, AllEnded, Caused, LateGone, PassedGone
<1>2. TypeOK /\ DaemonInv /\ [Next]_vars => DaemonInv'
  <2> SUFFICES ASSUME TypeOK, DaemonInv, [Next]_vars PROVE DaemonInv'
    OBVIOUS
  <2> USE DEF DaemonInv, StopsAfterFlag, Unborn, AllEnded, Caused, LateGone, PassedGone,
              workers, signals
  <2>1. CASE Connect
    BY <2>1 DEF Connect
  <2>2. CASE Over \/ UNCHANGED vars
    BY <2>2 DEF Over, vars
  <2> QED
    BY <2>1, <2>2, MainInv, SignalInv, WorkerInv DEF Next
<1> QED
  BY <1>1, <1>2, TypeCorrect, PTL DEF Spec

\* However many workers there are: when execute() returns without an exception, it has
\* deleted only thread objects whose thread has ended.
THEOREM NoRunningThreadDeleted == Spec => []DeletedAfterEnd
<1>1. DaemonInv => DeletedAfterEnd
  BY DEF DaemonInv, AllEnded, DeletedAfterEnd, Deleted
<1> QED
  BY <1>1, Invariance, PTL

\* The server gives up by itself, without a signal and without an exception in
\* execute(), only when each worker was lost to an errno of accept() that is not
\* temporary or to an exception of get_request.
THEOREM LeavesWhenAllLost == Spec => []LeavesOnlyWhenLost
<1>1. TypeOK /\ DaemonInv => LeavesOnlyWhenLost
  BY DEF TypeOK, Causes, DaemonInv, AllEnded, Caused, LeavesOnlyWhenLost
<1> QED
  BY <1>1, Invariance, PTL

\* The window of OS_Accept costs a worker one connection after the shutdown at most.
THEOREM OneConnectionInWindow == Spec => []OneLateConnection
<1>1. TypeOK /\ DaemonInv => OneLateConnection
  BY DEF TypeOK, DaemonInv, LateGone, OneLateConnection
<1> QED
  BY <1>1, Invariance, PTL

\* For any number of workers: one that stop() met outside of the window of OS_Accept never
\* waits in accept() again.
THEOREM StopMissesInWindow == Spec => []StopMissesOnlyInWindow
<1>1. DaemonInv => StopMissesOnlyInWindow
  BY DEF DaemonInv, PassedGone, StopMissesOnlyInWindow
<1> QED
  BY <1>1, Invariance, PTL

================================================================================
