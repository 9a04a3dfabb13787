-------------------------------- MODULE Session --------------------------------
(***************************************************************************)
(* The workers of dbpagerd answer requests of clients that keep a session: *)
(* the request loop and the exception handlers of dbpagerd.cpp, the        *)
(* environment of a request (environment.cpp) and the session holders: the *)
(* built-in one (session_int.h) and those of mod_session_redis.cpp,        *)
(* mod_session_memcached.cpp and mod_session_jwt.cpp.                      *)
(*                                                                         *)
(* A value of a variable is the string that a session writes for it, cut   *)
(* at ";": its first piece, and then the pieces that load() will take for  *)
(* variables of their own.  "p;y=q" is [text |-> "p", also |-> <<<<y,q>>>>]. *)
(*                                                                         *)
(* What is stored for an id is what load() will make of it.  A JSON web    *)
(* token is an id, too, which never changes what it stands for.            *)
(***************************************************************************)
EXTENDS Naturals, Sequences, FiniteSets

CONSTANTS
    Workers,    \* threads that run process_request
    Clients,    \* browsers, each with at most one session cookie
    Vars,       \* user variables (jwt: those with the prefix of the configuration)
    Texts,      \* pieces of values, without ";" and "="
    Values,     \* values that scripts assign
    NoValue,    \* a variable that the user context does not define
    NoId,       \* no session, no cookie
    Holders,    \* the session services that may be configured
    Ttl,        \* a ttl is configured
    Attempts,   \* of get_value and put_value of mod_session_redis: 3
    Faults,     \* what may go wrong with the server that stores the sessions
    Ids         \* ids of sessions that a client or a worker knows at one time

Value == [text : Texts, also : Seq(Vars \X Texts)]

ASSUME SessionAssumption ==
    /\ Holders \subseteq {"internal", "redis", "memcached", "jwt"}
    /\ Ttl \in BOOLEAN
    /\ Attempts \in Nat \ {0}
    /\ Faults \subseteq {"no connection", "no reply", "error reply"}
    /\ Values \subseteq Value
    /\ NoValue \notin Value
    /\ NoId \notin Ids \cup Clients

VARIABLES
    holder,     \* the session service that the configuration names
    work,       \* what each worker knows of the request that it handles
    store,      \* what is kept of each session
    cookie,     \* the session cookie of each client
    expired,    \* tokens that have expired
    pool,       \* handles of memcached_pool that work, and that reset() has freed
    refused     \* history: ids for which the server has refused a SET

vars == <<holder, work, store, cookie, expired, pool, refused>>

Context == [Vars -> Value \cup {NoValue}]
NoVars == [x \in Vars |-> NoValue]

Steps == {"idle", "get", "open", "run", "set", "expire", "send"}
Statuses == {"none", "ok", "error"}

\* The request of a worker: its session, whether the holder made up the id, the
\* user context, whether an exception handler of process_cgi_request is running,
\* the cookie of the response; and as history the variables that the script has
\* assigned, whether the session was loaded and nobody else has stored it since,
\* and whether it has been stored, which is of interest until a handler runs.
Request == [step : Steps, client : Clients \cup {NoId}, head : BOOLEAN,
            id : Ids \cup {NoId}, is_new : BOOLEAN, user : Context,
            assigned : SUBSET Vars, attempts : 0..Attempts, handler : BOOLEAN,
            status : Statuses, set_cookie : {"none", "session", "clear"},
            fresh : BOOLEAN, saved : BOOLEAN]

Idle == [step |-> "idle", client |-> NoId, head |-> FALSE, id |-> NoId,
         is_new |-> FALSE, user |-> NoVars, assigned |-> {}, attempts |-> 0,
         handler |-> FALSE, status |-> "none", set_cookie |-> "none",
         fresh |-> FALSE, saved |-> FALSE]

TypeOK ==
    /\ holder \in Holders
    /\ work \in [Workers -> Request]
    /\ store \in [Ids -> Context]
    /\ cookie \in [Clients -> Ids \cup {NoId}]
    /\ expired \subseteq Ids /\ refused \subseteq Ids
    /\ pool \in [live : Nat, dead : Nat]

At(w, s) == work[w].step = s

\* load() is over, in one way or the other.
Opens(r) == [r EXCEPT !.step = "open", !.attempts = 0]

\* The response is ready; what it does not need is dropped, and the history of a
\* request that has failed with it.
Sends(r) == [r EXCEPT !.step = "send", !.attempts = 0, !.handler = FALSE,
                      !.user = NoVars, !.fresh = FALSE, !.is_new = FALSE,
                      !.head = @ /\ r.status = "ok",
                      !.saved = @ /\ r.status = "ok",
                      !.assigned = IF r.status = "ok" THEN @ ELSE {}]

Does(w, r) == work' = [work EXCEPT ![w] = r]

--------------------------------------------------------------------------------
(* What save() writes and load() reads *)

Plain(t) == [text |-> t, also |-> <<>>]

\* What save() writes for variable x of context c, and where it names variable y there.
Pieces(c, x) == <<<<x, c[x].text>>>> \o c[x].also
Places(c, x, y) == {i \in DOMAIN Pieces(c, x) : Pieces(c, x)[i][1] = y}
Writers(c, y) == {x \in Vars : c[x] # NoValue /\ Places(c, x, y) # {}}

\* What load() may make of the string that save() writes for context c: get_values()
\* is an unordered map, so the "name=value" come in any order, and a later piece of a
\* variable wins over an earlier one.
Written(c) ==
    LET orders == {o \in [Vars -> 1..Cardinality(Vars)] :
                     \A x, y \in Vars : o[x] = o[y] => x = y}
    IN  {r \in [Vars -> {Plain(t) : t \in Texts} \cup {NoValue}] :
           \E o \in orders : \A y \in Vars :
              \/ Writers(c, y) = {} /\ r[y] = NoValue
              \/ \E x \in Writers(c, y) : \E i \in Places(c, x, y) :
                   /\ \A z \in Writers(c, y) : o[z] <= o[x]
                   /\ \A j \in Places(c, x, y) : j <= i
                   /\ r[y] = Plain(Pieces(c, x)[i][2])}

\* What a session holds; no session, nothing.
Content(i) == IF i = NoId THEN NoVars ELSE store[i]

--------------------------------------------------------------------------------
(* Environment *)

\* Mutant: one round too many, and more.
MoreAttemptsOff(r) == r.attempts >= 0

\* attempts is decremented and tested by the while statement.
MoreAttempts(r) == r.attempts > 1

\* Ids that nobody knows: a session that has lost its client is never read again.
Unknown == {i \in Ids : /\ \A c \in Clients : cookie[c] # i
                        /\ \A w \in Workers : work[w].id # i}
Uuid == CHOOSE i \in Unknown : TRUE

\* FCGX_Accept_r and get_request; http_environment calls create_session, which
\* takes the id from the cookie or makes up a new one; there is no empty token.
Accept(w) ==
    /\ At(w, "idle")
    /\ \E c \in Clients :
         LET r == [Idle EXCEPT !.step = "get", !.client = c, !.attempts = Attempts]
         IN  \/ /\ cookie[c] # NoId
                /\ Does(w, [r EXCEPT !.id = cookie[c]])
                /\ UNCHANGED <<store, refused>>
             \/ /\ cookie[c] = NoId /\ holder = "jwt"
                /\ Does(w, [r EXCEPT !.is_new = TRUE])
                /\ UNCHANGED <<store, refused>>
             \/ /\ cookie[c] = NoId /\ holder # "jwt" /\ Unknown # {}
                /\ Does(w, [r EXCEPT !.id = Uuid, !.is_new = TRUE])
                /\ store' = [store EXCEPT ![Uuid] = NoVars]
                /\ refused' = refused \ {Uuid}
    /\ UNCHANGED <<holder, cookie, expired, pool>>

\* Handles of memcached_pool: acquire() gives an idle one, or makes one when the
\* other workers may hold the rest.
Handles(w) ==
    {h \in {"live", "dead"} : pool[h] > 0} \cup
    {h \in {"new"} : pool.live + pool.dead <
                       Cardinality({v \in Workers : At(v, "get") \/ At(v, "set")})}

\* The handle of the worker works: the next one will find it in the pool.
HandleWorks(w) ==
    IF holder = "memcached"
      THEN \E h \in Handles(w) \ {"dead"} :
             pool' = [pool EXCEPT !.live = IF h = "new" THEN @ + 1 ELSE @]
      ELSE UNCHANGED pool

\* Mutant: the reply that load() reads may be the one to another request.
GetValueCrossed(w) ==
    /\ At(w, "get")
    /\ HandleWorks(w)
    /\ \E i \in Ids : Does(w, [Opens(work[w]) EXCEPT !.fresh = TRUE, !.user = store[i]])
    /\ UNCHANGED <<holder, store, cookie, expired, refused>>

\* load() gets the value of the session and defines the variables; the buffer of
\* session_holder_int is as new as the holder; a token must not have expired.
GetValue(w) ==
    /\ At(w, "get")
    /\ work[w].id \notin expired
    /\ HandleWorks(w)
    /\ Does(w, [Opens(work[w]) EXCEPT !.fresh = TRUE,
                  !.user = IF holder = "internal" THEN NoVars ELSE Content(work[w].id)])
    /\ UNCHANGED <<holder, store, cookie, expired, refused>>

\* Redis, GET without a reply: another attempt, or an exception that
\* http_environment turns into SESSION_ERROR.
GetValueFails(w) ==
    /\ At(w, "get") /\ holder = "redis"
    /\ "no reply" \in Faults
    /\ Does(w, IF MoreAttempts(work[w]) THEN [work[w] EXCEPT !.attempts = @ - 1]
                                        ELSE Opens(work[w]))
    /\ UNCHANGED <<holder, store, cookie, expired, pool, refused>>

\* Redis, GET with an error reply: get_value returns an empty string.
GetValueRefused(w) ==
    /\ At(w, "get") /\ holder = "redis"
    /\ "error reply" \in Faults
    /\ Does(w, Opens(work[w]))
    /\ UNCHANGED <<holder, store, cookie, expired, pool, refused>>

\* mod_session_jwt::load throws, and http_environment catches it.
TokenExpired(w) ==
    /\ At(w, "get")
    /\ work[w].id \in expired
    /\ Does(w, Opens(work[w]))
    /\ UNCHANGED <<holder, store, cookie, expired, pool, refused>>

--------------------------------------------------------------------------------
(* process_cgi_request *)

\* http_environment::init_response on behalf of r: no save for HEAD (the method of a
\* request matters here only, and is chosen at the first call); an empty user
\* context is not stored, but clears the cookie of a token.
InitResponse(r) ==
    IF r.head THEN Sends(r)
    ELSE IF r.user # NoVars THEN [r EXCEPT !.step = "set", !.attempts = Attempts]
    ELSE IF holder = "jwt" /\ r.id # NoId
      THEN [Sends(r) EXCEPT !.id = NoId, !.set_cookie = "clear"]
      ELSE Sends(r)

\* A catch clause calls init_response and then sets the status.
Caught(r) == InitResponse([r EXCEPT !.handler = TRUE, !.status = "error", !.saved = FALSE])

\* An exception leaves process_cgi_request: process_request makes a response of
\* its own.
Escaped(r) == Sends([r EXCEPT !.status = "error", !.set_cookie = "none"])

\* get_app gives the application, or throws parser_exception.
GetApp(w) ==
    /\ At(w, "open")
    /\ \/ Does(w, [work[w] EXCEPT !.step = "run"])
       \/ \E h \in BOOLEAN : Does(w, Caught([work[w] EXCEPT !.head = h]))
    /\ UNCHANGED <<holder, store, cookie, expired, pool, refused>>

\* The script defines or assigns a user variable (its last assignment to it).
Assign(w) ==
    /\ At(w, "run")
    /\ \E x \in Vars \ work[w].assigned, v \in Values :
         Does(w, [work[w] EXCEPT !.user[x] = v, !.assigned = @ \cup {x}])
    /\ UNCHANGED <<holder, store, cookie, expired, pool, refused>>

\* dbpager_application::execute returns, or throws app_exception, another
\* dbp::exception, or another std::exception.
EndScript(w) ==
    /\ At(w, "run")
    /\ \/ \E h \in BOOLEAN : Does(w, InitResponse([work[w] EXCEPT !.head = h, !.status = "ok"]))
       \/ \E h \in BOOLEAN : Does(w, Caught([work[w] EXCEPT !.head = h]))
       \/ Does(w, Escaped(work[w]))
    /\ UNCHANGED <<holder, store, cookie, expired, pool, refused>>

\* save() after put_value.
Saved(r) == [Sends(r) EXCEPT !.set_cookie = IF r.is_new THEN "session" ELSE "none"]

\* put_value after the SET.
AfterSet(r) == IF holder = "redis" /\ Ttl THEN [r EXCEPT !.step = "expire"] ELSE Saved(r)

\* The server takes a value for the session of w, whose request goes on as r.
Stores(w, r) ==
    /\ \E s \in Written(work[w].user) : store' = [store EXCEPT ![work[w].id] = s]
    /\ work' = [v \in Workers |->
                  IF v = w THEN r
                  ELSE [work[v] EXCEPT !.fresh = @ /\ work[v].id # work[w].id]]

\* SET of mod_session_redis::put_value, memcached_set of mod_session_memcached, or
\* session_holder_int::put_value into a buffer that goes with the holder.
PutValue(w) ==
    /\ At(w, "set") /\ holder # "jwt"
    /\ HandleWorks(w)
    /\ IF holder = "internal"
         THEN Does(w, AfterSet(work[w])) /\ UNCHANGED store
         ELSE Stores(w, AfterSet([work[w] EXCEPT !.saved = ~work[w].handler]))
    /\ UNCHANGED <<holder, cookie, expired, refused>>

\* Redis, SET with an error reply, which put_value does not tell from a good one.
PutValueRefused(w) ==
    /\ At(w, "set") /\ holder = "redis"
    /\ "error reply" \in Faults
    /\ Does(w, AfterSet(work[w]))
    /\ refused' = refused \cup {work[w].id}
    /\ UNCHANGED <<holder, store, cookie, expired, pool>>

\* EXPIRE of mod_session_redis::put_value, whatever the reply says.
SetExpiry(w) ==
    /\ At(w, "expire")
    /\ Does(w, Saved(work[w]))
    /\ UNCHANGED <<holder, store, cookie, expired, pool, refused>>

\* Mutant: an exception of save() is swallowed.
SaveThrowsQuietly(r) == Saved(r)

\* Mutant: the handler tries again until the save succeeds.
SaveThrowsForever(r) == Caught(r)

\* save() throws: init_response was called by the try block, whose handler calls
\* it again, or by a handler, which it leaves.
SaveThrows(r) == IF r.handler THEN Escaped(r) ELSE Caught(r)

\* Redis, SET or EXPIRE without a reply: both are tried again, or put_value throws.
\* The server may have done the SET.
PutValueFails(w) ==
    /\ (At(w, "set") /\ holder = "redis") \/ At(w, "expire")
    /\ "no reply" \in Faults
    /\ LET r == IF MoreAttempts(work[w])
                  THEN [work[w] EXCEPT !.step = "set", !.attempts = @ - 1]
                  ELSE SaveThrows(work[w])
       IN  \/ Does(w, r) /\ UNCHANGED store
           \/ At(w, "set") /\ Stores(w, r)
    /\ UNCHANGED <<holder, cookie, expired, pool, refused>>

\* redis_connection::configure, login or select_database throws, in get_value or
\* in put_value.
ConnectFails(w) ==
    /\ At(w, "get") \/ At(w, "set")
    /\ holder = "redis" /\ "no connection" \in Faults
    /\ Does(w, IF At(w, "get") THEN Opens(work[w])
                               ELSE SaveThrows(work[w]))
    /\ UNCHANGED <<holder, store, cookie, expired, pool, refused>>

\* get_value or put_value of mod_session_memcached fails, and reset() frees the
\* handle: at an error of the server, which may have done the set, or because an
\* earlier request has done so and left NULL in the pooled object.
HandleFails(w) ==
    /\ At(w, "get") \/ At(w, "set")
    /\ holder = "memcached"
    /\ LET r == IF At(w, "get") THEN Opens(work[w])
                                ELSE SaveThrows(work[w])
       IN  \/ /\ "dead" \in Handles(w)
              /\ Does(w, r)
              /\ UNCHANGED <<store, pool>>
           \/ /\ Faults # {}
              /\ \E h \in Handles(w) \ {"dead"} :
                   pool' = [live |-> IF h = "live" THEN pool.live - 1 ELSE pool.live,
                            dead |-> pool.dead + 1]
              /\ \/ Does(w, r) /\ UNCHANGED store
                 \/ At(w, "set") /\ Stores(w, r)
    /\ UNCHANGED <<holder, cookie, expired, refused>>

\* The current token says what the user context says.
Identical(r) ==
    r.id # NoId /\ \A x \in Vars : r.user[x] # NoValue => store[r.id][x] = r.user[x]

\* mod_session_jwt::save: a token that says the same stays, expired or not; else a
\* new one is signed.
SaveToken(w) ==
    /\ At(w, "set") /\ holder = "jwt"
    /\ LET r == work[w]
       IN  \/ /\ Identical(r)
              /\ Does(w, [Sends(r) EXCEPT !.saved = r.id \notin expired])
              /\ UNCHANGED <<store, expired>>
           \/ /\ ~Identical(r) /\ Unknown # {}
              /\ Does(w, [Sends(r) EXCEPT !.saved = TRUE, !.id = Uuid,
                                   !.set_cookie = "session"])
              /\ store' = [store EXCEPT ![Uuid] = r.user]
              /\ expired' = expired \ {Uuid}
    /\ UNCHANGED <<holder, cookie, pool, refused>>

\* send_response; the client keeps the cookie.  What is stored for an id that nobody
\* knows any more is forgotten, as nothing can read it.
SendResponse(w) ==
    /\ At(w, "send")
    /\ cookie' = IF work[w].set_cookie = "none" THEN cookie
                 ELSE [cookie EXCEPT ![work[w].client] = work[w].id]
    /\ Does(w, Idle)
    /\ store' = [i \in Ids |-> IF i \in Unknown' THEN NoVars ELSE store[i]]
    /\ expired' = expired \ Unknown'
    /\ refused' = refused \ Unknown'
    /\ UNCHANGED <<holder, pool>>

\* Time passes.
Expire ==
    /\ holder = "jwt" /\ Ttl
    /\ \E i \in Ids \ Unknown : expired' = expired \cup {i}
    /\ UNCHANGED <<holder, work, store, cookie, pool, refused>>

\* What a worker does with a request once it has accepted it.
Step(w) ==
    \/ GetValue(w) \/ GetValueFails(w) \/ GetValueRefused(w) \/ TokenExpired(w)
    \/ GetApp(w) \/ Assign(w) \/ EndScript(w)
    \/ PutValue(w) \/ PutValueRefused(w) \/ SetExpiry(w) \/ PutValueFails(w)
    \/ ConnectFails(w) \/ HandleFails(w) \/ SaveToken(w) \/ SendResponse(w)

Next == Expire \/ \E w \in Workers : Accept(w) \/ Step(w)

Init ==
    /\ holder \in Holders
    /\ work = [w \in Workers |-> Idle]
    /\ store = [i \in Ids |-> NoVars]
    /\ cookie = [c \in Clients |-> NoId]
    /\ expired = {} /\ refused = {}
    /\ pool = [live |-> 0, dead |-> 0]

\* A worker goes on with its request.
Fairness == \A w \in Workers : WF_vars(Step(w))

Spec == Init /\ [][Next]_vars
FairSpec == Spec /\ Fairness

--------------------------------------------------------------------------------
(* Properties *)

\* lang_vars: the value of a user variable is available to later scripts of the
\* user.  So a request that was answered as the script meant has its variables
\* stored, where the next one finds them.  Not so with the built-in holder, after
\* a SET that Redis has refused, and when the client keeps a token that has expired
\* because the script has assigned what it said.
AnswerMeansSaved ==
    \A w \in Workers :
        LET r == work[w] IN
        At(w, "send") /\ r.status = "ok" /\ ~r.head /\ r.assigned # {} /\ holder # "internal" =>
            r.saved \/ r.id \in refused \cup expired

\* The variables that the script of request r has assigned, and those that it has
\* written behind a ";" of a value.
Touched(r) ==
    r.assigned \cup {y \in Vars : \E x \in r.assigned : \E i \in DOMAIN r.user[x].also :
                                      r.user[x].also[i][1] = y}

\* The step of w, which saves its session, keeps the variables that the script
\* has not touched.
KeepsUntouched(w) ==
    LET old == Content(work[w].id)
        new == Content(work[w].id)'
    IN  new # old => \A x \in Vars \ Touched(work[w]) : new[x] = old[x]

\* The step is one of w (another worker's can make its session stale, no more).
Acts(w) == [work'[w] EXCEPT !.fresh = work[w].fresh] # work[w]

\* lang_vars: ... and in other scripts of the same user, as long as the session lasts.
\* A request loads the whole session at its start and saves it all at its end.  If it
\* could load it, and no other request has stored it meanwhile, then what it wrote in
\* vain, wrote twice, tried again in a handler or put into a new token never takes a
\* variable from the client that the script left alone.  (Of two requests at once, and
\* of one that could not load its session, the later save does.)
LoadedSessionKept ==
    [][\A w \in Workers : At(w, "set") /\ Acts(w) /\ work[w].fresh =>
          KeepsUntouched(w)]_vars

\* A client holds the cookie of a session only when the session has been stored,
\* unless Redis has refused to.
CookieStored ==
    holder # "internal" =>
        \A c \in Clients : cookie[c] # NoId => store[cookie[c]] # NoVars \/ cookie[c] \in refused

\* Every request that a worker has accepted is answered, whatever fails.
Answered == \A w \in Workers : ~At(w, "idle") ~> At(w, "idle")

================================================================================
