--------------------------- MODULE ApplicationCache ---------------------------
(***************************************************************************)
(* What interpreter.h promises of get_app: "Get cached application         *)
(* instance or create new one and cache it".  A call takes effect at one   *)
(* instant between its start and its end: it finds the application of its  *)
(* URL, or creates and caches it, or fails and leaves no trace.  Nothing   *)
(* is said of a mutex, of a second look-up or of an insertion that takes   *)
(* time.  An application is the number of the parse that built it.         *)
(***************************************************************************)
EXTENDS Naturals

CONSTANTS Workers, Urls

VARIABLES
    on,         \* applications are cached
    cache,      \* Urls -> 0 or the cached application
    call,       \* how the last call of each worker ended, or "pending"
    want,       \* the argument of each worker's call
    got,        \* the application that each worker's call was given, or 0
    made        \* applications created so far

vars == <<on, cache, call, want, got, made>>

Init ==
    /\ on = FALSE
    /\ cache = [u \in Urls |-> 0]
    /\ call = [w \in Workers |-> "none"]
    /\ \E u \in Urls : want = [w \in Workers |-> u]
    /\ got = [w \in Workers |-> 0]
    /\ made = 0

Answer(w, a, o) ==
    /\ call' = [call EXCEPT ![w] = o]
    /\ got' = [got EXCEPT ![w] = a]

\* Caching is turned on before the first application is created.
Configure ==
    /\ made = 0
    /\ on' \in BOOLEAN
    /\ UNCHANGED <<cache, call, want, got, made>>

Ask(w) ==
    /\ call[w] # "pending"
    /\ \E u \in Urls : want' = [want EXCEPT ![w] = u]
    /\ Answer(w, 0, "pending")
    /\ UNCHANGED <<on, cache, made>>

GetCached(w) ==
    /\ call[w] = "pending"
    /\ on /\ cache[want[w]] # 0
    /\ Answer(w, cache[want[w]], "app")
    /\ UNCHANGED <<on, cache, want, made>>

CreateAndCache(w) ==
    /\ call[w] = "pending"
    /\ on /\ cache[want[w]] = 0
    /\ made' = made + 1
    /\ cache' = [cache EXCEPT ![want[w]] = made + 1]
    /\ Answer(w, made + 1, "app")
    /\ UNCHANGED <<on, want>>

Create(w) ==
    /\ call[w] = "pending"
    /\ ~on
    /\ made' = made + 1
    /\ Answer(w, made + 1, "app")
    /\ UNCHANGED <<on, cache, want>>

\* Only a document that has not been parsed can fail to be.
Fail(w) ==
    /\ call[w] = "pending"
    /\ on => cache[want[w]] = 0
    /\ \E o \in {"not_found", "parse_error"} : Answer(w, 0, o)
    /\ UNCHANGED <<on, cache, want, made>>

\* The call of a worker ends in a data race; the others must not notice.
Crash(w) ==
    /\ call[w] = "pending"
    /\ on
    /\ Answer(w, 0, "undefined")
    /\ UNCHANGED <<on, cache, want, made>>

Next ==
    \/ Configure
    \/ \E w \in Workers :
          \/ Ask(w) \/ GetCached(w) \/ CreateAndCache(w) \/ Create(w)
          \/ Fail(w) \/ Crash(w)

Spec == Init /\ [][Next]_vars

================================================================================
