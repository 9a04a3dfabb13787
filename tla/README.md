# dbPager: a TLA+ verification project

dbPager serves web pages from XML scripts (`.dbpx`). A FastCGI daemon accepts
requests in several threads; each request runs a script, a tree of tags, with a
stack of variable contexts; user variables survive in a session store, and modules
give scripts access to databases. This directory holds TLA+ models of that core,
TLC runs that check them on small instances, and TLAPS proofs of the main safety
properties for every size.

## 1. Inventory of the system

| Component | State it keeps | Operations | Interacts with | Hard behaviour | Module |
|---|---|---|---|---|---|
| `interpreter` (`interpreter.cpp`) | options, session factory, loggers, `use_cache`, `apps`, mutex `m` | `load`, `reload`, `get_app` | all workers call `get_app`; SIGHUP calls `reload` | double-checked look-up, exceptions under a mutex, half-done `load` | `Interpreter` |
| `dbpager_application` | the parsed tree, shared and read-only | constructor (parses), `execute` | parser, tags | shared between threads | `Interpreter`, `TagMachine` |
| parser, optimizer | the tree under construction, `current_node` | `parse`, `process_node`, `make_relationship`, `optimize` | libxml2, files | no stack of open elements; includes | `Parser` |
| `context` (`context.cpp`) | layers of variables, call stack, parent | `enter`, `leave`, `get_value`, `set_value`, `add_value`, `push`, `pop` | every tag | has to be balanced on every exception path | `TagMachine` |
| tags (`tag_*.cpp`) | nothing between executions; a stack frame each | `execute` | context, children, exceptions | `dbp:execute` and custom tags change the call stack in turns; pointers hidden in layers | `TagMachine` |
| `dbp:async` | threads, futures | `execute` | shared parent context | data races, swallowed exceptions, joining | `Async` |
| lists and maps | a vector or map in a stack frame | add, remove, element, elements, JSON | hidden pointers in layers | iterator invalidation | `Async`, `TagMachine` |
| `dbpagerd` | socket, threads, interpreter | `execute`, `process_request`, `terminate`, `reload_configuration`, `process_cgi_request` | FastCGI library, interpreter, environment | signals racing start-up, lost workers, handlers that can fail again | `Daemon`, `Session` |
| `http_environment` | the contexts system, global, user, session of one request | constructor (load session), `init_response` (save session) | session holder | load fails, save fails | `Session` |
| session holders: internal, Redis, memcached, JWT | the store, or the cookie | `create_session`, `load`, `save` | pooled connections | lost replies, error replies, freed handles, expired tokens, concurrent requests of one client | `Session` |
| PostgreSQL, SQLite, ODBC and Redis tags | pooled connections, transactions | connection, transaction and query tags | context layers, pools, servers | repeated content, nested transactions, broken connections | `Database` |
| expressions, functions | none | `execute` | context | parsing of operators and parentheses | - |
| tag factory, loggers, file/HTTP/system tags, LDAP, MongoDB, MQTT, BDB, script and XSLT tags, other front ends | tables, files, streams | one call each | outside world | unsynchronised writes | - |

`PROJECT.json` lists each of these with its status, and the hazards at their lines.

What makes the parts correct: the cache hands every worker the same application
and always frees its mutex; the tree of a document is the one that is written; every
layer and every call-stack entry is released exactly once however a script ends; a
hidden pointer never outlives what it points to; threads are joined before what they
use ends; a transaction is all or nothing and stays on its connection; a request that
was answered as its script meant has stored its session, changes nothing it did not
assign, and every request is answered; the server loses workers only to what it
cannot survive, and ends when it is told to.

## 2. Modules

| Module | Contents |
|---|---|
| `Interpreter`, `MCInterpreter` | `load`, `reload` and `get_app`, one action per step between which threads can interleave |
| `ApplicationCache` | abstract specification of `get_app`: every call takes effect at one instant |
| `InterpreterProofs` | theorems about `Interpreter`, the refinement among them |
| `TagMachine`, `MCTagMachine` | the execution of a script by one thread: activations, context layers, call stack, exceptions |
| `TagMachineProofs` | theorems about `TagMachine`: context, call stack, scopes |
| `Session`, `MCSession` | workers of `dbpagerd`, the request environment and the four session holders, from accept to response |
| `SessionProofs` | theorems about `Session` |
| `Database`, `MCDatabase` | connection, transaction and query tags of four modules on pooled connections |
| `DatabaseProofs` | theorems about `Database` |
| `Daemon`, `MCDaemon` | the life of `dbpagerd`: start-up, workers in the accept loop of the FastCGI library, signals, termination |
| `DaemonProofs` | theorems about `Daemon` |
| `Async`, `MCAsync` | `dbp:async` and the list tags |
| `AsyncAlone` | what one child sees of a `dbp:async`: an instance of `Async` with one child |
| `AsyncInTurn` | the children executed one after the other, the reference for the output |
| `AsyncProofs` | theorems about `Async` |
| `Parser`, `MCParser` | `dbpx_parser` as a machine that reads the events of an XML reader |
| `ParserProofs` | theorems about `Parser` |
| `Induction` | induction over the natural numbers, for sets of numbers |

Definitions whose comment starts with "Mutant:" are wrong versions of the
definition after them; `PROJECT.json` says which property each of them breaks.

How the modules fit together: `Daemon` takes a worker to a request and leaves what it
does there to `Session`; `Session` calls `get_app` (one step there, `Interpreter` in
detail, `ApplicationCache` says why one step is enough) and lets the script assign user
variables and end in one of four ways; what happens inside the script is `TagMachine`
for contexts and exceptions, `Async` for threads, `Database` for connections; the tree
that `get_app` builds is `Parser`'s.

### Interpreter and ApplicationCache

`phase` is the life of the object, `file` the configuration on disk, `doc` the
documents on disk. A worker in `get_app` is at a location `pc[w]`; the look-up
without the mutex (`Find`), the lock, the second look-up (`Refind`), the parse,
the insertion and the unlock are separate steps. An application is the number of
the parse that built it, so "the same instance" can be said. While a worker is in
`apps.insert`, a look-up without the mutex is a data race on an
`unordered_map`; `RacyFind` chooses among missing an entry, seeing the new one,
and undefined behaviour. Documents and the configuration file are edited at any
time. `load` keeps the order of its assignments: a missing file leaves both
settings alone, a session module that fails leaves `use_cache` assigned and the
constructor failed. Registration of tag and logger plug-ins is left out.

`GetAppAtomic` states the refinement: with `ShownCache` (the entry counts when its
insertion is done or when its parse has succeeded under the mutex) and `ShownCall`, each
step of `Interpreter` is one of `ApplicationCache` or changes nothing there. A call
that ends in the data race is the `Crash` of its own worker and nobody else's.

### TagMachine

A frame is an activation of `tag::execute` that runs children. The script is not
fixed: whenever children run, the next one may be any tag of `Kinds`, or the
content ends. Conditions, matches and parameters of scripts depend on data, so
every such choice is a real script's. Starting a tag is an action, ending its
content another, and unwinding it with an exception in flight a third, each with
exactly the `enter`, `leave`, `push` and `pop` of the code on that path. One
variable name is kept in the layers, and the two hidden entries (the pointer of
`dbp:list`, the mark of the outermost HTML element); everything above the local
context is one variable `outer`. Frames also record history for the properties:
the depth and the call stack their children should see and the value the variable
had. `leaks` and `lost` record that a layer or a call-stack entry has been lost.

### Session

`holder` is the configured session service. `work[w]` is what a worker knows of its
request. A request is accepted (the session id comes from the cookie or is made up),
the session is loaded, `get_app` gives the application or throws, the script assigns
user variables, ends in one of the four ways `process_cgi_request` tells apart,
`init_response` saves the session, and the response, perhaps with a cookie, is sent.
Every handler calls `init_response` again, so a save that fails is tried a second time
in the handler, and leaves it if it fails again. A value is what `save` writes cut at
`;`, so that writing and reading back is the real conversion, in any order of the
unordered map. The holders:

* Redis: `Faults` says what the server may do: not be reachable (`configure`, `login`
  and `select_database` throw), not reply (each command up to `Attempts` times; a SET
  may have been done), or reply with an error (not told from success by the code).
* memcached: `pool` counts the pooled handles that work and those that `reset` has
  freed; a request gets an idle one of either kind, or a new one while the other
  workers may hold the rest. A freed one fails (`HandleFails`).
* JWT: a token is an id that never changes what it stands for; it expires (`Expire`),
  then `load` throws (`TokenExpired`); `save` keeps a token that says the same.
* built-in: its buffer goes with the request.

A session id that no client and no worker knows is reused: nobody can read that
session again. Left out: the expiry of keys by the servers, persistent cookies, the
parameters of the request, tokens that the server has not signed (`jwt::decode` of
those throws outside of the handler of `http_environment`).

### Database

A worker executes a script: a sequence of instructions in which every tag with content
is closed by an "end". `conn` are the objects of the pool: their handle, the transaction
that the server keeps for them and what it has done, and what `sqlite3_changes` would
say (positive or not after an update, as before after a select); `run[w].stack` the
activations of the tags. Statements are selects or updates; an update is named by its
position, so that `applied` can count how often it was committed. Connecting,
statements, BEGIN and COMMIT may fail in each way that the client library tells apart:
refused, lost before it was sent (`pqxx::broken_connection`), in doubt. `driver` chooses
the module; what differs: `dbp_pgsql` repeats the content up to three times and finds
the transaction of a query in `@PGSQL:WORK@`, whatever its database; `dbp_sqlite` keeps
the handle of a failed open, and its content runs when `sqlite3_changes` is positive;
`dbp_odbc` closes, and `dbp_redis` resets, the connection at every exception. Assumed of
what is outside the repository: the pool gives an idle object of the same data source or
a new one; `begin_transaction` of dcl's ODBC wrapper refuses to nest; libpqxx reconnects
when a transaction begins and knows a prepared statement only on the connection that
prepared it; PostgreSQL answers COMMIT in a failed transaction with a rollback that is
no error. Bound: a result has at most one row; an update may return one too.

### Daemon

`main` is where `execute()` is; `worker[t]` where a thread is between `process_request`,
`FCGX_Accept_r` and `OS_Accept` of the bundled FastCGI library: before the test of
`shutdownPending`, in the window after it, in `accept()`, examining the new connection
(`is_af_unix_keeper`, or `ClientAddrOK` for TCP), reading a request, parsing it, waiting
for its content (`FCGX_GetStr`), serving, sending. A connection that is not used is
closed and `OS_Accept` tries again, but its variable `socket` keeps the number: at this
second test (`recheck`) the flag leads not out of the function but into a loop on the
closed descriptor (`spin`), which ends only if another worker's connection has got the
number (`Reuses`). A system call that `stop()` or the web server makes fail takes the
worker where `AfterFailure` says. `terminate()` sets the flag and then stops one thread
per step, on an iterator that goes stale when `execute()` pushes to the vector;
`reload_configuration()` dereferences `dbpager`. Every step of start-up may fail.
Assumed: `thread::stop` interrupts a blocking system call and nothing else, signal
handlers run beside main, an exception that leaves `process_request` ends its thread
(class `thread` of dcl).

### Async

A child is a spine of tags on a shared variable and a shared list. Every access to
shared data is two steps, so that two threads can be in it; two that conflict are a data
race, after which behaviour is `undefined`. The vector has a capacity and a count of
reallocations, so that an iterator can be told to be invalid. `own[i]` are the variables
that child `i` has declared, which end with the tag or the iteration of a loop that they
are declared in; `SetValue` finds the innermost of them, or else the shared one. A
`dbp:var` whose `type` is that of an outer context writes the shared map
(`context.cpp:98`): it is the tag `set` of a spine; left out is the one inside a local
`dbp:var` of the same name, which a `set` would find instead. The iterators of the
vector are taken for pointers, as those of libstdc++ are: after `erase` one that is
still in bounds reads the element that has moved there. `Independent` and `Tame` are
conditions on the text of the children; `TameIsDefined` says that they are enough, and
`InOrder` says that the caller gathers the outputs in the order of the document.

What threads add is stated twice. `AsyncAlone` instantiates `Async` with `N <- 1` for each
child `i` and maps the state to what that child sees: the shared data only where its text
names them, the caller as far as it has dealt with this child. `AsIfAlone` says that every
step of the tag is, for a child that does not interfere, a step of that tag or none.
`AsyncInTurn` defines the execution of a spine as a function on environments (output,
variables, element, exception, shared data) and the children in turn; `AsIfInTurn` compares
the output with it.

### Parser

The document is chosen while it is read: any sequence of events that a reader reports
for a well-formed document. `tree` and `current` are the parser's, `open` (the elements
that are really open) is history to compare with. `overrun` marks the documents in which
an element that makes no tag (`dbp:include`, ITS) is outermost or not empty: then the
end of the element moves `current_node` one level too high, and later tags land outside
of their element. Such a tag gets the depth of the parent it was added to plus one
(`set_parent`), not that of the reader. Of an included document one tag is kept; one of
ITS elements only has no root, and its children are asked of NULL (outcome `rootless`).
The optimizer returns its argument.

## 3. Runs

Passing runs:

| Run | Instance | States | Shows |
|---|---|---|---|
| `app_cache` | 2 workers, 2 URLs, 5 configuration files, cache on and off | 143,280 | the inductive `IInv` (with `TypeOK` and `Exclusive`) and its parts `SameInstance`, `NoParseWasted`; `CacheGrows`; `LockReleased` (liveness); `GetAppAtomic` (refinement) |
| `tag_scopes` | 18 kinds of tags, 2 values, depth 4, 1 leak | 2.4 million | `LayersBalanced`, `HiddenAlive`, `RedeclarationEnds` |
| `tag_calls` | 7 kinds, depth 6 | 645,846 | `InvocationsAlive` (`CallsAlive` and `TargetsAlive`), and the inductive `Balanced` (with `CallsBalanced`) |
| `session` | 2 workers, 1 client, 4 holders, all faults, a value with `;` | 148,287 | `TypeOK`, `AnswerMeansSaved`, `CookieStored`, `Answered` (liveness) |
| `session_vars` | the same with 2 variables and 4 ids, symmetric workers | 1.35 million | `LoadedSessionKept` |
| `database` | 2 workers, 2 data sources, 4 modules, nested scripts | 268,963 | `TypeOK`, `LeaseAlive` (with `TransactionLeased`), `IdleClean`, `TransactionWhole`, `RepeatedOnlyWhenBroken`, `AllOrNothing`, `Ends` (liveness) |
| `daemon` | 2 threads, 2 waiting connections, signals at any time | 77,781 | `TypeOK`, `DeletedAfterEnd`, `LeavesOnlyWhenLost`, `OneLateConnection`, `StopMissesOnlyInWindow`, `Terminates` (liveness) |
| `async` | all pairs of 15 children, a list of 2 with room for 1 more | 118,062 | `TypeOK`, `TameIsDefined`, `ChildrenJoined`, `AsIfInTurn`, `InOrder`, `AsIfAlone` (refinement), `Joins` (liveness) |
| `parser` | all documents of up to 5 tags, 4 deep | 595,897 | `TypeOK`, `NestedAsWritten` (with `StaysInside`), `IncludedNearby`, `AcceptsNesting` |

Runs that are expected to fail, each a disagreement between the code and a
statement of the repository (quoted in `PROJECT.json`):

| Run | Property | What happens |
|---|---|---|
| `config_log` | `ConfigAsLogged` | no defaults are applied when the file is missing (no cache, null session service); `reload` reads nothing |
| `tag_render` | `ExecuteRendersCaller` | an exception out of `dbp:execute` loses the call-stack entry; the next `dbp:execute` renders an outer invocation |
| `database_confirm` | `ConfirmedWhenCaught` | an `odbc:transaction` in which a failed statement was caught ends normally, but its COMMIT rolls back |

The same models show more of the kind, and the passing properties are stated around
it:

* The first look-up of `get_app` takes no mutex (`interpreter.cpp:149`) and can run while
  another worker inserts into the `unordered_map`. `RacyFind` may then crash; `SameInstance`
  and `GetAppAtomic` say that, short of this, the race costs nothing.
* The children of an included root are moved to `current_node` (`dbpx_parser.cpp:187`),
  which after an empty element is that element and not the one around the `dbp:include`,
  so they become children of the preceding sibling; `IncludedNearby` says that they get
  no further.
* `dbp:split` enters its layer before its `try` (`tag_split.cpp:33`): when a parameter
  throws, the layer stays, the enclosing tags free the wrong ones and a local variable
  outlives its `dbp:var`. `LayersBalanced` counts these layers; `RedeclarationEnds` and
  `HiddenAlive` are stated for `leaks = 0`.
* An exception that passes `dbp:execute` loses its entry: `CallsBalanced` is stated until
  then, `CallsAlive` and `TargetsAlive` without a condition.
* Of two requests of one client at once the later save undoes the earlier one
  (`environment.cpp:87`), and a request that could not load its session replaces it
  (`environment.cpp:65`): `LoadedSessionKept` is stated for requests with a fresh load.
* An error reply to SET counts as success (`mod_session_redis.cpp:133`), the buffer of the
  built-in holder dies with the request (`session_int.h:126`), and an expired token
  whose values are assigned again is not renewed (`mod_session_jwt.cpp:131`): these are the
  exceptions in `AnswerMeansSaved` and `CookieStored`.
* A freed memcached handle stays in the pool, where every request that gets it fails
  (`mod_session_memcached.cpp:54`): these requests are answered with an error.
* `pqxx::broken_connection` repeats the whole content of `pgsql:database`, updates
  that were committed before it too; `RepeatedOnlyWhenBroken` bounds it to that case.
* When a statement fails in a transaction of SQLite, SQLite may roll back by itself; if the
  failure is caught, what follows in the tag is committed statement by statement. It is the
  exception that `AllOrNothing` names. That a failed transaction may end normally and commit
  nothing is allowed by `AllOrNothing` and refuted by `ConfirmedWhenCaught`.
* A signal before `execute()` waits, or while it deletes the threads, can crash the process
  (`StopThreadStale`, `ReloadConfiguration`): the repository does not say when signals may
  come, and no property speaks of it.
* A worker is lost for good to a malformed `CONTENT_LENGTH` or to EMFILE: the causes
  that `LeavesOnlyWhenLost` names. A web server that keeps a connection, sends no
  request or no content or takes no response, the window in `OS_Accept` and the closed
  descriptor can keep the server from ending: the exceptions in `Terminates`. The last
  is a worker that SIGTERM meets while it examines a new connection (`os_unix.c:1151`,
  `1189`): it loops forever. On a kept connection (`fcgiapp.c:2194`) requests are served
  after the shutdown as before. `StopMissesOnlyInWindow` says that the window is the
  only place where `stop()` comes too early.
* `Handle` of `TagMachine` is enabled when the exception is that of `dbp:case`: a match
  inside `dbp:try` runs the `dbp:catch` (`tag_try.cpp:48`). `StartTag` runs a `dbp:tag`
  that is nested in the body of another (`tag_tag.cpp:49`).

### Bounds

* `MaxApps`: without the cache every call builds an application, so calls stop
  after that many; with it the number of URLs bounds them. Two workers are one in the
  critical section and one waiting or at the first look-up; the proofs are for any
  number. The five files set each session service and each value of `pool`.
* `MaxDepth` of `TagMachine`: nesting of tags. The shortest violations need depth 3 to
  6; depth 6 of `tag_calls` has two invocations, two `dbp:execute` and two handlers at
  once. The proofs have no bound: `MaxDepth` is any natural number.
* `MaxLeaks`: one leaked layer already shifts all scopes below it.
* `Session`: two workers are two requests of one client at once; one variable is
  assigned or left alone by each of them; its value `p;x=p` is cut when it is read back.
  `Attempts` is 2 (3 in the code): a first, and a last one. `Ids` has three ids, for
  the cookie and the workers; with a fourth TLC finds the same number of states.
  `session_vars` has two variables, so that a request writes a new session or token for the
  one and has to keep the other, and the values with `;`, one of which writes the other
  variable; the two workers are symmetric, which is sound as it has no liveness property.
* `Database`: the five scripts of `MCDatabase` have an update before a transaction, a
  failed statement that is caught inside one and followed by another update, a query of
  one database in the transaction of another, nested database tags and transactions, a
  missing database, and queries without any; the second worker disturbs the pool.
  `Conns` has an object for each worker and data source, more are never needed.
* `Daemon`: two threads are one that has been started and one that is being pushed.
  `late` stops counting at 2.
* `Async`: fifteen spines cover each tag, each kind of conflict and each way to
  invalidate an iterator; `Spare` = 1 lets a first addition fit and a second one move
  the storage.
* `Parser`: five tags, four deep, are enough for an ancestor two levels up with siblings
  before and after.

### Fairness and deadlock

`Interpreter` assumes weak fairness of each worker inside `get_app`: a thread that can
run is scheduled. Nothing makes a call or an edit happen, and a waiter of the mutex is
promised no turn, so `LockReleased` speaks of the holder only. `Session` and `Database`
assume weak fairness of a worker's steps after it has a request: the loop waits for
nothing but the calls of the servers, each of which returns or fails, and scripts are
assumed to end. `Daemon` assumes that main, the signal handler and each worker run, that
the two seconds of `is_af_unix_keeper` pass, and that a waiting connection is accepted;
no connection, request, content or signal need come, and no response need be taken, so
nothing makes `ReadRequest`, `ReadBody` and `SendResponse` happen. `Async` assumes that
the system runs every thread. `TagMachine` and `Parser` state no fairness: a `dbp:while`
may run forever, a document may be long. All passing runs but `parser` check deadlock; a
parser ends. In `Daemon` and `Async`, which end too, the end is a named stuttering step
(`Over`), so that a deadlock before it would be found.

## 4. Proofs

`InterpreterProofs`, from `InterpreterAssumption` (`NoWorker` is no worker,
`MaxApps` a natural number, files are settings), for any sets of workers and URLs:

* `Invariance`: `Spec => []IInv`. `SameInstance` is not inductive: one has to know
  that the entry of the URL is still empty from the second look-up to the end of
  the insertion (`Progress`), for which only the mutex holder may be there
  (`Exclusive`), that a worker leaves the mutex with the cached application, and that
  the path without the cache is never mixed with the one with it.
* `TypeCorrect`, `MutualExclusion`, `OneInstancePerUrl`, `ParsedOnce` follow;
  `CacheOnlyGrows` proves the action property: only `Insert` changes `apps`, and it keeps
  an entry.
* `GetAppIsAtomic`: `Spec => GetAppAtomic`. Initial states map to initial states; each
  action of a worker is mapped, with `IInv`, to the action of `ApplicationCache` that it
  completes (a successful parse under the mutex is `CreateAndCache`) or to a stutter.

`TagMachineProofs`, from `TagMachineAssumption`, for any set of tags, values and
any depth:

* `TypeCorrect`.
* `ContextBalanced`: `LayersBalanced /\ CallsBalanced`. They speak of the innermost
  activation only; ending it needs the same of the one below, so `Balanced` links
  neighbours: `DepthLinked` (one layer more for a tag with a scope) and
  `ScopeLinked` (one entry more for an invocation, one less for `dbp:execute`). Three
  lemmas (`PushStep`, `PopStep`, `StayStep`) say what a step has to do to the context
  to keep the links, and every action is an instance of one. `ActivationsLinked` and
  `CallsAsNested` state the parts.
* `NoDeadCalls`: `CallsAlive`, also after lost entries. A `dbp:execute` will push back
  what it took, so `TargetsAlive` is needed (`NoDeadTargets`): the target is still running
  and lies above everything it will be pushed on. `NoDeadInvocations` (`InvocationsAlive`)
  states both.
* `HiddenPointersAlive` (`HiddenAlive`) and the action property `RedeclarationsEnd`
  (`RedeclarationEnds`) rest on `ScopesFit`: as long as nothing has leaked, the depths of
  the activations grow with their position, strictly where a tag opens a layer (`Nested`);
  every layer above the first has the activation that opened it, which is a `dbp:list` or
  an HTML element if the layer hides one (`Owned`); and the layers below that of a
  `dbp:var` still show the value from before it (`Shadows`). The last part holds although
  content assigns: the layer of the `dbp:var` defines the variable, so an assignment stops
  there (`AssignFit`). `PushScopedFit`, `PushPlainFit` and `PopFit` say what starting and
  ending an activation does to it, and every action is an instance of them. With a leaked
  layer all three are false (see `dbp:split` above).

`DaemonProofs`, from `DaemonAssumption` (the number of threads is a natural number, the
backlog a positive one):

* `TypeCorrect`: in particular the walk of `terminate()` stays inside the vector.
* `NoRunningThreadDeleted`, `LeavesWhenAllLost`, `OneConnectionInWindow` and
  `StopMissesInWindow` (`StopMissesOnlyInWindow`) rest on `DaemonInv`, the conjunction
  of six facts: the walk of `terminate()` begins after the flag is set
  (`StopsAfterFlag`); a thread that is not in the vector is nowhere (`Unborn`);
  `execute()` gets past its waiting loop only when all workers have ended, and an ended
  worker stays so (`AllEnded`); an ended worker has a cause, which is the shutdown only
  after the flag (`Caused`, which turns "all have ended" into "all were lost"); a worker
  that accepted a connection after the flag meets the flag before `accept()` again
  (`LateGone`, why the count is 1); and so does one that `stop()` met outside of the
  window, since `stop()` comes after the flag (`PassedGone`).

`SessionProofs`, from `SessionAssumption` (at least one attempt, `NoValue` is no value,
`NoId` no id), for any numbers of workers and clients, any variables, values and holders:

* `TypeCorrect`; `AnswersSaved` (`AnswerMeansSaved`), `CookiesStored` (`CookieStored`) and
  the action property `UntouchedKept` (`LoadedSessionKept`) rest on `IInv`: what the
  progress of a request implies for its record (`Fit`: which step has an id, a status, a
  cookie to set); that what it promises its client is already stored, also between the SET
  and the EXPIRE of Redis (`Backed`), which no other request can undo because nothing is
  ever removed from the store; and that what a request with a fresh load has not touched is
  what is stored (`Loaded`), for which stored values are plain (`StoredPlain`: reading has
  cut them at `;`, so writing them again changes nothing).
* The proof corrected the statement: with two variables the earlier form was false,
  since a value `p;y=q` assigned to `x` also writes `y`. `KeepsUntouched` is about the
  variables that a script has touched neither way.

`DatabaseProofs`, from `DatabaseAssumption` (the scripts are parsed XML, so a tag has its
end; the data sources are finitely many, with a connection object for each worker and data
source), for any workers, connections and scripts, whatever fails:

* `TypeCorrect`: the number of attempts stays within three.
* `Leased` (`LeaseAlive` with `TransactionLeased`), `PoolClean` (`IdleClean`),
  `TransactionsWhole` (`TransactionWhole`) and the action property `CommittedWhole`
  (`AllOrNothing`) rest on `IInv`: each database tag on a stack leases its own connection,
  and only the innermost one may be without a handle (`Leases`: a reconnect frees the
  handle of the innermost tag, no other); of several transaction tags on one connection,
  which a nested tag gets by a BEGIN that failed and was caught, all but the innermost have
  failed, and the transaction on the server belongs to the innermost (`Whole`); no
  connection has a transaction without a tag that will end it (`Tagged`, which makes the
  pool clean when the last tag goes). The step of one worker leaves the invariant of the
  others alone because the connections it changes are leased by it or by nobody.
* The second half of `AllOrNothing`, that no statement in a transaction tag commits on its
  own, needs more than `Whole`, which says nothing of a tag that has failed: without SQLite
  the server keeps a transaction, open or aborted, for every transaction tag, and there is
  one such tag on a connection (`Kept`, `KInv`). For SQLite a tag that has not failed still
  has its transaction open by `Whole`.
* `UpdatesRepeated` (`RepeatedOnlyWhenBroken`) rests on a second invariant, `RInv`, on
  top of `IInv`. A script passes its positions in order: the program counter lies in the
  content of each open tag, with every tag between them closed (`Inside`, by counting
  the ends, `Even`), so a tag is left behind its end and before that of the tag around
  it. `Place` is how far a worker has come; an exception counts as having passed the
  rest of the content. Unless a connection broke, an update is made at most once when it
  lies before `Place` and not at all when it lies behind it (`MadeOnce`, which counts
  what is committed and what a transaction holds, `Made`); only a retry moves `Place`
  back, and it is taken for `broken_connection` alone. For the bound, every attempt that
  is over of a database tag around an update is allowed `Repeats[n]` of them, `n` being
  the data sources that no tag up to this one has taken (`Unit`, `Spent`), and so is the
  present attempt of the innermost one once `Place` has passed the update (`Fits`,
  `Bounded`). Then an attempt that ends in a retry pays for all that was done in it: the
  three attempts of an inner tag make up one of the tag around it. An id is on the stack
  once (`Distinct`: a nested tag of the same id makes no attempts of its own), so all of
  it sums up to at most `Repeats[Cardinality(Ids)]`. A commit moves an update from one
  counter to the other, because no two connections of a worker hold it (`HeldOnce`). The
  bound of one row for a result is part of what is proved: a query repeats its content
  for each row.

`AsyncProofs`, from `AsyncAssumption` (the arguments of tags have the types that the tags
expect), for any number of children and any spines:

* `Invariance`, `TypeCorrect`; `AllJoined` (`ChildrenJoined`) needs only which threads exist
  at which place of the caller (`Joined`).
* `TameDefined` (`TameIsDefined`): the condition is on the text of the children, the
  conclusion on all their interleavings. What links them: a child is only in accesses that
  its text tells of (`Declared`), for which one has to know where in its spine a child is
  and that a child without variables of its own has not passed a `dbp:var` (`Placed`,
  `Entered`, `Nested`, also for the tags around it, to which a loop returns); iterators are
  valid (`Iterates`: a tame child does not change the list inside a loop, and the others do
  not at all); and a `list_remove` finds its element, because the list shrinks only by those
  removals that lie behind the child in its text (`Left`, a count of tags).
* `ChildrenAlone` (`AsIfAlone`): each step of a child is shown to be that step of the tag
  with this child only, and no step for another child, because what it writes the text of
  the other does not name (`OthersKept`); the steps of the caller are steps of the caller of
  one child, or none.
* `OutputInOrder` (`InOrder`): the caller takes an output only of a child that has
  ended, and such a child does not write any more.
* `InTurnCorrect` (`AsIfInTurn`), along two arguments. `Computes` is the inductive
  invariant: every child still owes what it gives alone. `Rest(i)` executes by the
  reference what is left of its spine, from its variables, element, output and shared
  data on, then leaves the tags around it, a loop by the turns that it has not taken;
  each step of the child keeps `Rest(i)` as it was or delivers it (`OwnOwes`, with one
  lemma for each tag). It needs `Places` and `Sound` for the position of the child and
  its loops (`ChildPosition`), and `OthersKept` for the steps of the others. The second
  argument is about the reference only: the execution of a spine reads and writes no
  more of the shared data than its text names (`RunFramed`), so that children in turn
  give what each gives from the first state (`TurnsAlone`).
* The functions of the reference are recursive functions on numbers. `Recurs` states their
  equations once; that a function with these values exists, and what it returns
  (`RecursionValues`), is proved by the induction of module `Induction`.

`ParserProofs`, from `ParserAssumption` (the bounds are natural numbers), for documents of
any length and depth:

* `TypeCorrect`, `TagsAsWritten` (`NestedAsWritten`), `IncludesNearby` (`IncludedNearby`)
  and the action property `NestingAccepted` (`AcceptsNesting`): everything that is checked
  about `Parser`. The second and third are for documents in which an element that makes no
  tag is inner and empty, the last for all whose outermost element makes a tag.
* The parser knows `current_node` and depths, not the open elements. `IInv` says why that is
  enough: a tag lies one deeper than its parent (`Levels`), the open elements are each
  other's parents with depths 0, 1, 2, ... (`OpenLine`), and the innermost of them is the
  ancestor of `current_node` that the difference of the depths tells (`AtCurrent`). Then
  the walk of `make_relationship` by `get_parent()` ends at the innermost open element.
* `NestingAccepted` cannot use that, since `current_node` may have moved too high.
  `Rooted` holds in every document: each tag but the first has a parent and lies one
  below it, because `set_parent` says so. A tag of depth `d` has `d` ancestors then
  (`Ancestors`), so the walk finds a tag, if not the right one (`ParentFound`).
* That walk, `Up(n, k)`, is a recursive function. What `k` steps reach, that the order of
  the steps does not matter (`UpShift`) and that tags added later do not change it
  (`UpFrame`) is proved by induction on `k`; module `Induction` gives it the form in which
  the provers can use it, with a set of numbers in place of a predicate.

Only model-checked: the liveness properties `LockReleased`, `Answered`, `Ends`, `Terminates`
and `Joins` (out of the prover's reach, like everything under fairness). Every other
property of a passing run is a theorem.

## 5. Not modelled, and what is left

* Expressions and functions: character-level evaluation by one thread without state; a
  model would repeat the code. The tag factory: a table filled before the workers start.
* `dbp:map` and the readers of JSON: the container and the parser are those of dcl and
  jsoncpp; the layers and pointers are as for `dbp:list`.
* File, process, HTTP, log, script and XSLT tags: pure input and output; a leaf that may
  throw in `TagMachine`. LDAP, MongoDB, MQTT and BDB wrappers: they lease and unwind as
  `redis:connection` does. The other front ends: the request path of `dbpagerd` without
  threads.
* The file logger: one unsynchronised statement of the stream library per line.
* A document that includes itself is parsed without end; the depth of includes is not
  part of `Parser`.
* Third-party sources kept in the tree: the MongoDB driver, mimetic, and the FastCGI
  library but for its accept loop. They are most of the repository's lines (about 80,000 of
  94,000), so the share of all lines that the map names is small by nature; of the
  program's own core (interpreter, parser, contexts, executing tags, sessions, database
  tags, daemon) nearly every function that changes state is mapped.

Left to do: results of several rows in `Database`, for which a bound on repeated updates
has to count the rows of the queries around them.
