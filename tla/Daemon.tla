--------------------------------- MODULE Daemon ---------------------------------
(***************************************************************************)
(* The life of the FastCGI server (dbpagerd.cpp): execute() loads the      *)
(* interpreter, opens the socket, starts the worker threads and waits for  *)
(* them; each worker runs process_request on top of FCGX_Accept_r and      *)
(* OS_Accept of the bundled FastCGI library; signals run terminate() and   *)
(* reload_configuration() at any time.                                     *)
(*                                                                         *)
(* What a worker does with a request (process_cgi_request) is module       *)
(* Session.  The class thread and the delivery of signals are not part of  *)
(* the repository: stop() is taken to interrupt a blocking system call of  *)
(* the thread and nothing else, a signal handler to run beside main, and   *)
(* an exception that leaves process_request to end its thread.             *)
(*                                                                         *)
(* OS_Accept keeps the number of a descriptor that it has closed in its    *)
(* variable socket: a worker that looks at shutdownPending then ("recheck")*)
(* does not return as one does that has none yet ("check").                *)
(***************************************************************************)
EXTENDS Naturals

CONSTANTS
    N,          \* [dbpagerd] threads
    Backlog     \* bound: connections that wait to be accepted

ASSUME DaemonAssumption == N \in Nat /\ Backlog \in Nat \ {0}

Threads == 1..N

VARIABLES
    main,       \* where execute() is
    dbpager,    \* the pointer is set
    threads,    \* length of the vector of threads
    worker,     \* where each worker is
    keep,       \* the connection of the worker outlives its request
    cause,      \* history: why a worker has ended
    shutdown,   \* shutdownPending of os_unix.c
    sig,        \* the next thread that terminate() will stop, 0 when it does not run
    stale,      \* the vector has grown since terminate() took its iterator
    queue,      \* connections that nobody has accepted
    late,       \* history: connections accepted after the shutdown (2: or more)
    passed,     \* history: stop() has come to the worker outside of the window
    failed,     \* history: execute() has caught an exception
    crashed     \* the process has died of undefined behaviour

workers == <<worker, keep, cause, late, passed>>
signals == <<shutdown, sig, stale>>
vars == <<main, dbpager, threads, workers, signals, queue, failed, crashed>>

Causes == {"none", "shutdown", "interrupted", "accept", "exception"}

\* "check", "recheck": OS_Accept before it looks at shutdownPending; "window": after
\* that and before accept(); "keeper": the new connection is examined; "spin": OS_Accept
\* goes round on a closed descriptor; "read": a connection is open; "parse": its request
\* is there; "body": its content is waited for; "send": the response is written.
Places == {"none", "new", "check", "window", "accept", "keeper", "recheck", "spin",
           "read", "parse", "body", "serve", "send", "ended"}

TypeOK ==
    /\ main \in {"boot", "open", "spawn", "start", "wait", "cleanup", "done"}
    /\ dbpager \in BOOLEAN /\ failed \in BOOLEAN /\ crashed \in BOOLEAN
    /\ threads \in 0..N
    /\ worker \in [Threads -> Places]
    /\ keep \in [Threads -> BOOLEAN]
    /\ cause \in [Threads -> Causes]
    /\ late \in [Threads -> 0..2]
    /\ passed \in [Threads -> BOOLEAN]
    /\ shutdown \in BOOLEAN /\ stale \in BOOLEAN
    /\ sig \in 0..N
    /\ queue \in 0..Backlog

Init ==
    /\ main = "boot" /\ dbpager = FALSE /\ threads = 0
    /\ worker = [t \in Threads |-> "none"]
    /\ keep = [t \in Threads |-> FALSE]
    /\ cause = [t \in Threads |-> "none"]
    /\ late = [t \in Threads |-> 0]
    /\ passed = [t \in Threads |-> FALSE]
    /\ shutdown = FALSE /\ sig = 0 /\ stale = FALSE
    /\ queue = 0 /\ failed = FALSE /\ crashed = FALSE

Alive == ~crashed /\ main # "done"

--------------------------------------------------------------------------------
(* execute() *)

\* An exception: the catch clauses print it, then the threads are deleted.
Fails ==
    /\ main' = "cleanup" /\ failed' = TRUE
    /\ UNCHANGED <<dbpager, threads, workers, signals, queue, crashed>>

\* dbpager = new interpreter(...), whose constructor may throw.
LoadInterpreter ==
    /\ Alive /\ main = "boot"
    /\ \/ Fails
       \/ /\ main' = "open" /\ dbpager' = TRUE
          /\ UNCHANGED <<threads, workers, signals, queue, failed, crashed>>

\* FCGX_Init, FCGX_OpenSocket and the drop of privileges.
OpenSocket ==
    /\ Alive /\ main = "open"
    /\ \/ Fails
       \/ /\ main' = "spawn"
          /\ UNCHANGED <<dbpager, threads, workers, signals, queue, failed, crashed>>

\* new thread, threads.push_back
PushThread ==
    /\ Alive /\ main = "spawn" /\ threads < N
    /\ threads' = threads + 1
    /\ worker' = [worker EXCEPT ![threads + 1] = "new"]
    /\ stale' = (stale \/ sig # 0)
    /\ main' = "start"
    /\ UNCHANGED <<dbpager, keep, cause, late, passed, shutdown, sig, queue, failed, crashed>>

\* t->start(); the system may refuse another thread.
StartThread ==
    /\ Alive /\ main = "start"
    /\ \/ Fails
       \/ /\ worker' = [worker EXCEPT ![threads] = "check"]
          /\ main' = "spawn"
          /\ UNCHANGED <<dbpager, threads, keep, cause, late, passed, signals, queue, failed, crashed>>

AllStarted ==
    /\ Alive /\ main = "spawn" /\ threads = N
    /\ main' = "wait"
    /\ UNCHANGED <<dbpager, threads, workers, signals, queue, failed, crashed>>

\* Mutant: main waits for one of the threads.
WaitForAny ==
    /\ Alive /\ main = "wait"
    /\ \E t \in Threads : worker[t] = "ended"
    /\ main' = "cleanup"
    /\ UNCHANGED <<dbpager, threads, workers, signals, queue, failed, crashed>>

\* wait_for() of one thread after the other.
WaitFor ==
    /\ Alive /\ main = "wait"
    /\ \A t \in Threads : worker[t] = "ended"
    /\ main' = "cleanup"
    /\ UNCHANGED <<dbpager, threads, workers, signals, queue, failed, crashed>>

\* The threads are deleted and execute() returns.
Cleanup ==
    /\ Alive /\ main = "cleanup"
    /\ main' = "done"
    /\ UNCHANGED <<dbpager, threads, workers, signals, queue, failed, crashed>>

Main ==
    \/ LoadInterpreter \/ OpenSocket \/ PushThread \/ StartThread \/ AllStarted
    \/ WaitFor \/ Cleanup

--------------------------------------------------------------------------------
(* Signals *)

\* SIGHUP: dbpager->reload().
ReloadConfiguration ==
    /\ Alive
    /\ crashed' = ~dbpager
    /\ UNCHANGED <<main, dbpager, threads, workers, signals, queue, failed>>

\* Mutant: the threads are stopped, and no flag is set.
TerminateSilent ==
    /\ Alive /\ sig = 0
    /\ sig' = IF threads = 0 THEN 0 ELSE 1
    /\ stale' = FALSE
    /\ UNCHANGED <<main, dbpager, threads, workers, shutdown, queue, failed, crashed>>

\* SIGTERM: FCGX_ShutdownPending, then the loop over the threads begins.
Terminate ==
    /\ Alive /\ sig = 0
    /\ shutdown' = TRUE
    /\ sig' = IF threads = 0 THEN 0 ELSE 1
    /\ stale' = FALSE
    /\ UNCHANGED <<main, dbpager, threads, workers, queue, failed, crashed>>

\* Where a worker comes to when the system call of its place fails: select() of
\* is_af_unix_keeper, the reads of FCGX_Accept_r and FCGX_GetStr, the write of
\* FCGX_PutStr and FCGX_Finish_r.  Each time the connection is closed, for a failed
\* FCGX_GetStr after the response.
AfterFailure == [keeper |-> "recheck", read |-> "check", body |-> "serve", send |-> "check"]

Breaks(t) ==
    /\ worker[t] \in DOMAIN AfterFailure
    /\ worker' = [worker EXCEPT ![t] = AfterFailure[worker[t]]]
    /\ keep' = [keep EXCEPT ![t] = FALSE]
    /\ UNCHANGED cause

\* Where stop() leaves thread t: accept() fails with EINTR, which
\* FCGI_FAIL_ACCEPT_ON_INTR hands on; another call fails if the thread is inside of it
\* at this moment.
Interrupted(t) ==
    \/ /\ worker[t] = "accept"
       /\ worker' = [worker EXCEPT ![t] = "ended"]
       /\ cause' = [cause EXCEPT ![t] = "interrupted"]
       /\ UNCHANGED keep
    \/ Breaks(t)
    \/ worker[t] # "accept" /\ UNCHANGED <<worker, keep, cause>>

\* Mutant: the loop runs past the end of the vector.
StopThreadOverrun ==
    /\ Alive /\ sig # 0
    /\ sig' = IF sig <= threads THEN sig + 1 ELSE 0
    /\ UNCHANGED <<main, dbpager, threads, workers, shutdown, stale, queue, failed, crashed>>

\* (*i)->stop(); ++i
StopThread ==
    /\ Alive /\ sig # 0
    /\ Interrupted(sig)
    /\ passed' = [passed EXCEPT ![sig] = worker[sig] # "window"]
    /\ sig' = IF sig < threads THEN sig + 1 ELSE 0
    /\ UNCHANGED <<main, dbpager, threads, late, shutdown, stale, queue, failed, crashed>>

\* The same when the vector has been moved, or its threads are being deleted.
StopThreadStale ==
    /\ Alive /\ sig # 0
    /\ stale \/ main = "cleanup"
    /\ crashed' = TRUE
    /\ UNCHANGED <<main, dbpager, threads, workers, signals, queue, failed>>

--------------------------------------------------------------------------------
(* process_request *)

Moves(t, from, to) ==
    /\ Alive
    /\ worker[t] = from
    /\ worker' = [worker EXCEPT ![t] = to]

Ends(t, from, why) ==
    /\ Moves(t, from, "ended")
    /\ cause' = [cause EXCEPT ![t] = why]

\* Mutant: OS_Accept does not look at shutdownPending.
CheckShutdownOff(t) ==
    /\ Moves(t, "check", "window") \/ Moves(t, "recheck", "window")
    /\ UNCHANGED <<main, dbpager, threads, keep, cause, late, passed, signals, queue, failed,
                   crashed>>

\* OS_Accept: if (shutdownPending) break, and "There's a window here".  After the break
\* a socket that has been closed is taken for a new connection; it is no keeper, is
\* closed again and so on.
CheckShutdown(t) ==
    /\ \/ shutdown /\ Ends(t, "check", "shutdown")
       \/ shutdown /\ Moves(t, "recheck", "spin") /\ UNCHANGED cause
       \/ /\ ~shutdown
          /\ Moves(t, "check", "window") \/ Moves(t, "recheck", "window")
          /\ UNCHANGED cause
    /\ UNCHANGED <<main, dbpager, threads, keep, late, passed, signals, queue, failed, crashed>>

EnterAccept(t) ==
    /\ Moves(t, "window", "accept")
    /\ UNCHANGED <<main, dbpager, threads, keep, cause, late, passed, signals, queue, failed,
                   crashed>>

\* accept() returns a connection.
Accept(t) ==
    /\ queue > 0
    /\ Moves(t, "accept", "keeper")
    /\ queue' = queue - 1
    /\ late' = [late EXCEPT ![t] = IF shutdown /\ @ < 2 THEN @ + 1 ELSE @]
    /\ UNCHANGED <<main, dbpager, threads, keep, cause, passed, signals, failed, crashed>>

\* accept() fails.  OS_Accept goes on after an errno that is_reasonable_accept_errno
\* names, unless the shutdown is pending; after another one, say EMFILE, the worker
\* leaves process_request.
AcceptFails(t) ==
    /\ \/ ~shutdown /\ Moves(t, "accept", "check") /\ UNCHANGED cause
       \/ shutdown /\ Ends(t, "accept", "shutdown")
       \/ Ends(t, "accept", "accept")
    /\ UNCHANGED <<main, dbpager, threads, keep, late, passed, signals, queue, failed, crashed>>

\* is_af_unix_keeper, or ClientAddrOK for TCP: the connection is used, or there is
\* nothing to read for two seconds (the address is not approved) and it is closed.
Keeper(t) ==
    /\ Moves(t, "keeper", "read") \/ Moves(t, "keeper", "recheck")
    /\ UNCHANGED <<main, dbpager, threads, keep, cause, late, passed, signals, queue, failed,
                   crashed>>

\* The closed descriptor of a spinning worker has been given to a connection of
\* another one, which has something to read: OS_Accept returns it.
Reuses(t) ==
    /\ \E u \in Threads \ {t} : worker[u] \in {"keeper", "read", "parse", "body", "serve", "send"}
    /\ Moves(t, "spin", "read")
    /\ UNCHANGED <<main, dbpager, threads, keep, cause, late, passed, signals, queue, failed,
                   crashed>>

\* Mutant: FCGX_Accept_r gives up.
ReadFailsForGood(t) ==
    /\ Moves(t, "read", "ended") /\ UNCHANGED cause
    /\ keep' = [keep EXCEPT ![t] = FALSE]
    /\ UNCHANGED <<main, dbpager, threads, late, passed, signals, queue, failed, crashed>>

\* FCGX_Accept_r reads no request: the connection is closed, "goto TryAgain".
ReadFails(t) ==
    /\ Alive /\ worker[t] = "read"
    /\ Breaks(t)
    /\ UNCHANGED <<main, dbpager, threads, late, passed, signals, queue, failed, crashed>>

\* FCGX_Accept_r reads a request, which says what becomes of the connection.
ReadRequest(t) ==
    /\ Moves(t, "read", "parse")
    /\ \E k \in BOOLEAN : keep' = [keep EXCEPT ![t] = k]
    /\ UNCHANGED <<main, dbpager, threads, cause, late, passed, signals, queue, failed, crashed>>

\* get_request: there is a content to read, or none; from_string<int> may throw, outside
\* of the try block.
GetRequest(t) ==
    /\ \/ /\ Moves(t, "parse", "serve") \/ Moves(t, "parse", "body")
          /\ UNCHANGED <<cause, keep>>
       \/ Ends(t, "parse", "exception") /\ keep' = [keep EXCEPT ![t] = FALSE]
    /\ UNCHANGED <<main, dbpager, threads, late, passed, signals, queue, failed, crashed>>

\* FCGX_GetStr in get_request has read the content, or as much of it as came.
ReadBody(t) ==
    /\ Alive /\ worker[t] = "body"
    /\ \/ Moves(t, "body", "serve") /\ UNCHANGED <<keep, cause>>
       \/ Breaks(t)
    /\ UNCHANGED <<main, dbpager, threads, late, passed, signals, queue, failed, crashed>>

ProcessCgiRequest(t) ==
    /\ Moves(t, "serve", "send")
    /\ UNCHANGED <<main, dbpager, threads, keep, cause, late, passed, signals, queue, failed,
                   crashed>>

\* send_response, and FCGX_Finish_r in the next FCGX_Accept_r: the web server takes the
\* response and the connection is kept or closed, or writing fails.
SendResponse(t) ==
    /\ Alive /\ worker[t] = "send"
    /\ \/ /\ Moves(t, "send", IF keep[t] THEN "read" ELSE "check")
          /\ UNCHANGED <<keep, cause>>
       \/ Breaks(t)
    /\ UNCHANGED <<main, dbpager, threads, late, passed, signals, queue, failed, crashed>>

\* What a worker does by itself (select() of the keeper ends after two seconds), and what
\* it waits for.
Works(t) ==
    CheckShutdown(t) \/ EnterAccept(t) \/ Keeper(t) \/ GetRequest(t) \/ ProcessCgiRequest(t)
Waits(t) ==
    \/ Accept(t) \/ AcceptFails(t) \/ Reuses(t) \/ ReadFails(t) \/ ReadRequest(t)
    \/ ReadBody(t) \/ SendResponse(t)

\* The web server connects.
Connect ==
    /\ Alive /\ queue < Backlog
    /\ queue' = queue + 1
    /\ UNCHANGED <<main, dbpager, threads, workers, signals, failed, crashed>>

\* Nothing happens after the end.
Over == ~Alive /\ UNCHANGED vars

Next ==
    \/ Main \/ ReloadConfiguration \/ Terminate \/ StopThread \/ StopThreadStale
    \/ Connect \/ Over
    \/ \E t \in Threads : Works(t) \/ Waits(t)

\* Threads that can run do; a waiting connection is accepted in the end, but no
\* connection, no request, no content and no signal need ever come, and no response need
\* be taken.
Fairness ==
    /\ WF_vars(Main) /\ WF_vars(StopThread)
    /\ \A t \in Threads : WF_vars(Works(t)) /\ WF_vars(Accept(t))

Spec == Init /\ [][Next]_vars /\ Fairness

--------------------------------------------------------------------------------
(* Properties *)

Deleted == main = "done"

\* execute() deletes a thread only when it has ended, unless an exception came
\* between the start of the first and of the last one: no worker runs on a freed
\* thread object after a normal life.
DeletedAfterEnd ==
    Deleted /\ ~failed => \A t \in Threads : worker[t] = "ended"

\* While the workers serve, a worker is lost only to the shutdown, to an errno of
\* accept() that is not temporary, or to an exception of get_request; protocol
\* errors and closed connections cost none.  So the server leaves execute() by
\* itself only when each worker was lost in that way.
LeavesOnlyWhenLost ==
    main \in {"cleanup", "done"} /\ ~failed /\ ~shutdown =>
        \A t \in Threads : cause[t] \in {"accept", "exception"}

\* os_unix.c, "There's a window here": a worker that had looked at shutdownPending
\* before the signal takes one more connection, and never a second one.
OneLateConnection == \A t \in Threads : late[t] <= 1

\* terminate() sets the flag before it stops the threads, so stop() can miss a worker
\* only in the window: one that stop() met anywhere else, examining, reading, serving or
\* not yet started, never waits in accept() again.
StopMissesOnlyInWindow ==
    \A t \in Threads : passed[t] => worker[t] \notin {"window", "accept"}

\* After SIGTERM the server ends.  What can keep it is the web server, by a connection
\* that it keeps, a request or content that it does not send or a response that it does
\* not take; a worker that waits in accept(), having missed both the flag and the
\* interruption; and a worker that goes round on a closed descriptor.
Terminates ==
    shutdown ~> [](\/ ~Alive
                   \/ \E t \in Threads :
                        \/ worker[t] \in {"read", "body", "send", "spin"} \/ keep[t]
                        \/ worker[t] = "accept" /\ queue = 0)

================================================================================
