------------------------------ MODULE Interpreter ------------------------------
(***************************************************************************)
(* The interpreter object of the server (interpreter.cpp, interpreter.h):  *)
(* what load() makes of the configuration file, the application cache that *)
(* get_app() shares between the worker threads, and reload().              *)
(*                                                                         *)
(* get_app() looks the URL up WITHOUT the mutex, then once more under it,  *)
(* and parses the document and inserts the new application while it holds  *)
(* it.  An application is the number of the parse that built it.           *)
(***************************************************************************)
EXTENDS Naturals

CONSTANTS
    Workers,    \* threads that call get_app
    Urls,       \* addresses of documents
    Files,      \* the configuration files the administrator may install
    NoWorker,   \* the mutex is free
    MaxApps     \* bound: without the cache, no call starts once so many
                \* applications have been built

\* A configuration file is there or not, sets [application] pool to "0" or not,
\* and names a session service: the built-in one, one whose module loads, one
\* whose module fails to load, or one for which no module is configured.
Settings == [exists : BOOLEAN, pool0 : BOOLEAN,
             session : {"internal", "module", "broken", "unknown"}]

ASSUME InterpreterAssumption ==
    /\ NoWorker \notin Workers
    /\ MaxApps \in Nat
    /\ Files \subseteq Settings

VARIABLES
    phase,      \* "boot" | "up" | "failed": life of the interpreter object
    file,       \* the configuration file on disk
    use_cache,  \* interpreter::use_cache
    session,    \* interpreter::session: "null" | "internal" | "module"
    log,        \* the last line of interest in the log
    doc,        \* Urls -> "ok" | "bad" | "absent": the documents on disk
    apps,       \* Urls -> 0 (no entry) or the cached application
    m,          \* interpreter::m: the worker that holds it, or NoWorker
    pc,         \* where each worker is in get_app
    url,        \* the argument of each worker's call
    ret,        \* the application each worker's call has in hand, 0 for none
    outcome,    \* how each worker's last call ended
    made        \* applications built so far

config == <<phase, file, use_cache, session, log>>
result == <<ret, outcome>>
vars == <<config, doc, apps, m, pc, url, result, made>>

DocStates == {"ok", "bad", "absent"}

\* A call is under way, returned an application, threw parser_exception with
\* code 1 or with another code, or ran into undefined behaviour.
Outcomes == {"pending", "app", "not_found", "parse_error", "undefined"}

\* Locations of a worker: "find" is the look-up without the mutex, "refind" the
\* one under it, "build" the construction of an application that is not going
\* to be cached, "insert" while apps.insert runs.
Locations == {"idle", "find", "lock", "refind", "parse", "insert", "unlock",
              "build", "crashed"}

TypeOK ==
    /\ phase \in {"boot", "up", "failed"}
    /\ file \in Files
    /\ use_cache \in BOOLEAN
    /\ session \in {"null", "internal", "module"}
    /\ log \in {"", "will use default values", "reloaded"}
    /\ doc \in [Urls -> DocStates]
    /\ apps \in [Urls -> Nat]
    /\ m \in Workers \cup {NoWorker}
    /\ pc \in [Workers -> Locations]
    /\ url \in [Workers -> Urls]
    /\ ret \in [Workers -> Nat]
    /\ outcome \in [Workers -> Outcomes]
    /\ made \in Nat

Init ==
    /\ phase = "boot"
    /\ file \in Files
    /\ use_cache = FALSE
    /\ session = "null"
    /\ log = ""
    /\ doc \in [Urls -> DocStates]
    /\ apps = [u \in Urls |-> 0]
    /\ m = NoWorker
    /\ pc = [w \in Workers |-> "idle"]
    /\ \E u \in Urls : url = [w \in Workers |-> u]
    /\ ret = [w \in Workers |-> 0]
    /\ outcome = [w \in Workers |-> "pending"]
    /\ made = 0

--------------------------------------------------------------------------------
(* Configuration *)

\* interpreter::load, run by the constructor.  A missing file makes
\* load_from_file throw app_config_exception, which the catch clause logs and
\* swallows; a session module that cannot be loaded throws past it, so that the
\* constructor fails after use_cache was assigned.
Load ==
    /\ phase = "boot"
    /\ IF ~file.exists
         THEN /\ phase' = "up"
              /\ log' = "will use default values"
              /\ UNCHANGED <<use_cache, session>>
         ELSE /\ UNCHANGED log
              /\ use_cache' = ~file.pool0
              /\ IF file.session = "broken"
                   THEN /\ phase' = "failed"
                        /\ UNCHANGED session
                   ELSE /\ phase' = "up"
                        /\ session' = IF file.session = "module"
                                        THEN "module" ELSE "internal"
    /\ UNCHANGED <<file, doc, apps, m, pc, url, result, made>>

\* Mutant: reload empties the cache.
ReloadFlushes ==
    /\ phase = "up"
    /\ log' = "reloaded"
    /\ apps' = [u \in Urls |-> 0]
    /\ UNCHANGED <<phase, file, use_cache, session>>
    /\ UNCHANGED <<doc, m, pc, url, result, made>>

\* interpreter::reload: writes a line to the log.
Reload ==
    /\ phase = "up"
    /\ log' = "reloaded"
    /\ UNCHANGED <<phase, file, use_cache, session>>
    /\ UNCHANGED <<doc, apps, m, pc, url, result, made>>

\* The administrator installs another configuration file.
EditConfig ==
    /\ file' \in Files
    /\ UNCHANGED <<phase, use_cache, session, log>>
    /\ UNCHANGED <<doc, apps, m, pc, url, result, made>>

\* Somebody edits, repairs or removes a document.
EditDoc ==
    /\ \E u \in Urls, d \in DocStates : doc' = [doc EXCEPT ![u] = d]
    /\ UNCHANGED <<config, apps, m, pc, url, result, made>>

--------------------------------------------------------------------------------
(* get_app *)

Goto(w, l) == pc' = [pc EXCEPT ![w] = l]

\* Worker w now holds application a (0 for none), and its call is in state o.
Yield(w, a, o) ==
    /\ ret' = [ret EXCEPT ![w] = a]
    /\ outcome' = [outcome EXCEPT ![w] = o]

\* The constructor of dbpager_application: parses the document as it is now.
Construct(w) ==
    CASE doc[url[w]] = "ok"     -> made' = made + 1 /\ Yield(w, made + 1, "app")
      [] doc[url[w]] = "bad"    -> UNCHANGED made /\ Yield(w, 0, "parse_error")
      [] doc[url[w]] = "absent" -> UNCHANGED made /\ Yield(w, 0, "not_found")

\* get_app(u) is called and reads use_cache.
Call(w) ==
    /\ phase = "up"
    /\ pc[w] = "idle"
    /\ use_cache \/ made < MaxApps
    /\ \E u \in Urls : url' = [url EXCEPT ![w] = u]
    /\ Goto(w, IF use_cache THEN "find" ELSE "build")
    /\ Yield(w, 0, "pending")
    /\ UNCHANGED <<config, doc, apps, m, made>>

\* Without the cache: construct an application and return it, or let the
\* parser's exception out.
Build(w) ==
    /\ pc[w] = "build"
    /\ Construct(w)
    /\ Goto(w, "idle")
    /\ UNCHANGED <<config, doc, apps, m, url>>

\* apps.find before the mutex is taken.
Find(w) ==
    /\ pc[w] = "find"
    /\ IF apps[url[w]] # 0
         THEN Goto(w, "idle") /\ Yield(w, apps[url[w]], "app")
         ELSE Goto(w, "lock") /\ UNCHANGED result
    /\ UNCHANGED <<config, doc, apps, m, url, made>>

\* The same look-up while another worker changes the unordered_map: a data
\* race.  The build can miss an entry that is there, see the one that is being
\* inserted, or follow a freed pointer.
RacyFind(w) ==
    /\ pc[w] = "find"
    /\ \E v \in Workers :
          /\ pc[v] = "insert"
          /\ \/ Goto(w, "lock") /\ UNCHANGED result
             \/ url[v] = url[w] /\ Goto(w, "idle") /\ Yield(w, ret[v], "app")
             \/ Goto(w, "crashed") /\ Yield(w, 0, "undefined")
    /\ UNCHANGED <<config, doc, apps, m, url, made>>

\* Mutant: no mutex is waited for.
LockBarging(w) ==
    /\ pc[w] = "lock"
    /\ m' = w
    /\ Goto(w, "refind")
    /\ UNCHANGED <<config, doc, apps, url, result, made>>

\* mutex_guard cs(m)
Lock(w) ==
    /\ pc[w] = "lock"
    /\ m = NoWorker
    /\ m' = w
    /\ Goto(w, "refind")
    /\ UNCHANGED <<config, doc, apps, url, result, made>>

\* Mutant: the look-up is not repeated under the mutex.
RefindSkipped(w) ==
    /\ pc[w] = "refind"
    /\ Goto(w, "parse")
    /\ UNCHANGED <<config, doc, apps, m, url, result, made>>

\* apps.find under the mutex.
Refind(w) ==
    /\ pc[w] = "refind"
    /\ IF apps[url[w]] # 0
         THEN Goto(w, "unlock") /\ Yield(w, apps[url[w]], "app")
         ELSE Goto(w, "parse") /\ UNCHANGED result
    /\ UNCHANGED <<config, doc, apps, m, url, made>>

\* Mutant: the exception of a failed parse leaves without the unlock.
ParseLeaksLock(w) ==
    /\ pc[w] = "parse"
    /\ Construct(w)
    /\ Goto(w, IF doc[url[w]] = "ok" THEN "insert" ELSE "idle")
    /\ UNCHANGED <<config, doc, apps, m, url>>

\* new dbpager_application(this, u): an exception unwinds to the mutex_guard.
Parse(w) ==
    /\ pc[w] = "parse"
    /\ Construct(w)
    /\ Goto(w, IF doc[url[w]] = "ok" THEN "insert" ELSE "unlock")
    /\ UNCHANGED <<config, doc, apps, m, url>>

\* apps.insert finishes; it keeps an entry that is already there.
Insert(w) ==
    /\ pc[w] = "insert"
    /\ apps' = IF apps[url[w]] = 0 THEN [apps EXCEPT ![url[w]] = ret[w]] ELSE apps
    /\ Goto(w, "unlock")
    /\ UNCHANGED <<config, doc, m, url, result, made>>

\* The mutex_guard goes out of scope, by return or by exception.
Unlock(w) ==
    /\ pc[w] = "unlock"
    /\ m' = NoWorker
    /\ Goto(w, "idle")
    /\ UNCHANGED <<config, doc, apps, url, result, made>>

GetApp(w) ==
    \/ Build(w) \/ Find(w) \/ RacyFind(w) \/ Lock(w) \/ Refind(w) \/ Parse(w)
    \/ Insert(w) \/ Unlock(w)

Next ==
    \/ Load \/ Reload \/ EditConfig \/ EditDoc
    \/ \E w \in Workers : Call(w) \/ GetApp(w)

\* A thread inside get_app is eventually scheduled; nothing makes a call or an
\* edit happen, and a pthread mutex promises its waiters no turn.
Fairness == \A w \in Workers : WF_vars(GetApp(w))

Spec == Init /\ [][Next]_vars /\ Fairness

--------------------------------------------------------------------------------
(* Properties *)

\* A worker that changes apps, or decides from it under the mutex what to do,
\* is the one that holds the mutex, so two documents are never parsed into the
\* cache at once, on every path through get_app.
Exclusive ==
    \A w \in Workers :
        pc[w] \in {"refind", "parse", "insert", "unlock"} <=> m = w

\* interpreter.h: "Get cached application instance or create new one and cache
\* it".  With the cache on, an application handed to a worker is the one the
\* cache holds for its URL, or is just being inserted there, however many
\* workers asked at once for a document nobody had parsed.
SameInstance ==
    \A w \in Workers : use_cache /\ pc[w] = "idle" /\ ret[w] # 0 =>
        \/ apps[url[w]] = ret[w]
        \/ \E v \in Workers :
              pc[v] = "insert" /\ url[v] = url[w] /\ ret[v] = ret[w]

\* Every application built with the cache on is in the cache, or about to be
\* inserted by the worker that holds the mutex: a document is never parsed
\* twice because two requests came at once, and a failed parse takes no place.
NoParseWasted ==
    use_cache => \A a \in 1..made :
        \/ \E u \in Urls : apps[u] = a
        \/ \E w \in Workers : pc[w] = "insert" /\ ret[w] = a

\* The strengthening that makes the three inductive.  Before load() nothing has
\* happened; the two halves of get_app belong to the two values of use_cache; a
\* worker before the parse holds no application; the entry of a URL is empty
\* from the second look-up to the end of the insertion; and the application a
\* worker leaves the mutex with is the one in the cache.
Progress ==
    /\ phase # "up" =>
          /\ made = 0
          /\ \A w \in Workers : pc[w] = "idle" /\ ret[w] = 0
    /\ \A w \in Workers :
          /\ pc[w] = "build" => ~use_cache
          /\ pc[w] \notin {"idle", "build"} => use_cache
          /\ pc[w] \in {"find", "lock", "refind", "parse", "build"} => ret[w] = 0
          /\ pc[w] \in {"parse", "insert"} => apps[url[w]] = 0
          /\ pc[w] = "insert" => ret[w] # 0
          /\ pc[w] = "unlock" /\ ret[w] # 0 => apps[url[w]] = ret[w]

IInv == TypeOK /\ Exclusive /\ Progress /\ SameInstance /\ NoParseWasted

\* The cache never drops or replaces an application: the one handed out first
\* is the one every later request gets, whatever is edited or reloaded.
CacheGrows == [][\A u \in Urls : apps[u] # 0 => apps'[u] = apps[u]]_vars

\* What an observer of the calls sees.  A call takes effect when its outcome is
\* known, and an application is in the cache from the end of its construction,
\* while apps.insert still runs.
ShownCache ==
    [u \in Urls |->
        IF \E w \in Workers : pc[w] = "insert" /\ url[w] = u
          THEN ret[CHOOSE w \in Workers : pc[w] = "insert" /\ url[w] = u]
          ELSE apps[u]]
ShownCall ==
    [w \in Workers |->
        IF pc[w] = "idle" /\ outcome[w] = "pending" THEN "none" ELSE outcome[w]]

Atomic == INSTANCE ApplicationCache
            WITH on <- use_cache, cache <- ShownCache, call <- ShownCall,
                 want <- url, got <- ret

\* interpreter.h: "Get cached application instance or create new one and cache
\* it".  The calls of get_app are atomic to all who make them: the interpreter
\* implements ApplicationCache, in spite of the look-up without the mutex.
GetAppAtomic == Atomic!Spec

\* The mutex is always released: on a hit, after a failed parse and after an
\* insertion.
LockReleased == \A w \in Workers : m = w ~> m # w

\* interpreter.cpp logs of a missing file "will use default values instead", where
\* the defaults in load() are pool = "unlimited" and session = "internal", and of
\* SIGHUP "Configuration realoaded".  So when a line about the configuration
\* appears, the settings that it speaks of are in force.
ConfigAsLogged ==
    [][/\ log' = "will use default values" /\ log' # log =>
             use_cache' /\ session' = "internal"
       /\ log' = "reloaded" /\ log' # log /\ file.exists =>
             /\ use_cache' = ~file.pool0
             /\ file.session = "module" <=> session' = "module"]_vars

================================================================================
