------------------------------ MODULE SessionProofs ------------------------------
(***************************************************************************)
(* Theorems about the requests and the sessions of dbpagerd for any number *)
(* of workers and clients, any variables and values, and every holder.     *)
(***************************************************************************)
EXTENDS Session, SequenceTheorems, TLAPS

--------------------------------------------------------------------------------
(* The inductive invariant *)

\* What the steps of request r keep, with session service h.
Fit(h, r) ==
    /\ r.step \in {"idle", "get", "open"} => r.assigned = {}
    /\ r.step \in {"get", "open", "run"} => ~r.handler
    /\ r.step \in {"run", "set", "expire"} => \A x \in r.assigned : r.user[x] # NoValue
    /\ r.step \in {"set", "expire"} =>
         /\ r.user # NoVars /\ ~r.head
         /\ r.status = IF r.handler THEN "error" ELSE "ok"
    /\ r.step = "expire" => h = "redis"
    /\ r.step # "idle" /\ h # "jwt" => r.id # NoId
    /\ r.set_cookie = "clear" => r.id = NoId
    /\ r.set_cookie # "none" => r.step = "send"

\* In store S session i has been stored, or Redis has refused to: i is one of R.
Kept(S, R, i) == i \in Ids /\ (S[i] # NoVars \/ i \in R)

\* What request r promises its client is in store S; E are the expired tokens.
Backed(h, S, R, E, r) ==
    /\ r.step = "expire" => Kept(S, R, r.id) /\ (~r.handler => r.saved \/ r.id \in R)
    /\ r.step = "send" /\ r.set_cookie = "session" /\ h # "internal" => Kept(S, R, r.id)
    /\ /\ r.step = "send" /\ r.status = "ok" /\ ~r.head /\ r.assigned # {}
       /\ h # "internal"
       => r.saved \/ r.id \in R \cup E

\* The values of context c outside of V read back as they are written.
PlainBut(c, V) == \A x \in Vars \ V : c[x] = NoValue \/ c[x].also = <<>>

\* What request r has loaded, and not touched, is what is in store S.
Loaded(h, S, r) ==
    /\ h # "jwt" => PlainBut(r.user, r.assigned)
    /\ r.fresh /\ h # "internal" =>
         \A x \in Vars \ Touched(r) :
            r.user[x] = IF r.id = NoId THEN NoValue ELSE S[r.id][x]

Fine(h, S, R, E, r) == r \in Request /\ Fit(h, r) /\ Backed(h, S, R, E, r) /\ Loaded(h, S, r)

Requests == \A w \in Workers : Fine(holder, store, refused, expired, work[w])

StoredPlain == holder # "jwt" => \A i \in Ids : PlainBut(store[i], {})

IInv == TypeOK /\ Requests /\ StoredPlain /\ CookieStored

--------------------------------------------------------------------------------
(* What save() writes and load() reads *)

LEMMA PlainTypes ==
    ASSUME NEW t \in Texts
    PROVE  Plain(t) \in Value /\ Plain(t) # NoValue /\ Plain(t).text = t /\ Plain(t).also = <<>>
<1>1. <<>> \in Seq(Vars \X Texts)
  BY EmptySeq
<1>2. Plain(t) \in Value
  BY <1>1 DEF Plain, Value
<1> QED
  BY <1>2, SessionAssumption DEF Plain

LEMMA ValueTypes ==
    ASSUME NEW c \in Context, NEW x \in Vars, c[x] # NoValue
    PROVE  c[x] \in Value /\ c[x].text \in Texts /\ c[x].also \in Seq(Vars \X Texts)
<1>1. c[x] \in Value
  BY DEF Context
<1> QED
  BY <1>1 DEF Value

LEMMA OneElement ==
    ASSUME NEW S, NEW e \in S
    PROVE  <<e>> \in Seq(S) /\ Len(<<e>>) = 1 /\ <<e>>[1] = e
OBVIOUS

LEMMA PieceTypes ==
    ASSUME NEW c \in Context, NEW x \in Vars, c[x] # NoValue
    PROVE  /\ Pieces(c, x) \in Seq(Vars \X Texts)
           /\ DOMAIN Pieces(c, x) = 1..(1 + Len(c[x].also)) /\ Len(c[x].also) \in Nat
           /\ Pieces(c, x)[1] = <<x, c[x].text>>
           /\ \A i \in 1..Len(c[x].also) : Pieces(c, x)[1 + i] = c[x].also[i]
           /\ \A i \in DOMAIN Pieces(c, x) : Pieces(c, x)[i][2] \in Texts
<1> DEFINE one == <<<<x, c[x].text>>>>
           also == c[x].also
<1>1. <<x, c[x].text>> \in Vars \X Texts /\ also \in Seq(Vars \X Texts)
  BY ValueTypes
<1>2. one \in Seq(Vars \X Texts) /\ Len(one) = 1 /\ one[1] = <<x, c[x].text>>
  <2> DEFINE e == <<x, c[x].text>>
  <2> HIDE DEF e
  <2>1. e \in Vars \X Texts
    BY <1>1 DEF e
  <2>2. <<e>> \in Seq(Vars \X Texts) /\ Len(<<e>>) = 1 /\ <<e>>[1] = e
    BY <2>1, OneElement
  <2> QED
    BY <2>2 DEF e
<1>3. Len(also) \in Nat
  BY <1>1, LenProperties
<1> HIDE DEF one, also
<1>4. /\ one \o also \in Seq(Vars \X Texts) /\ Len(one \o also) = 1 + Len(also)
      /\ \A i \in 1..(1 + Len(also)) :
           (one \o also)[i] = IF i <= 1 THEN one[i] ELSE also[i - 1]
  <2>1. /\ one \o also \in Seq(Vars \X Texts) /\ Len(one \o also) = Len(one) + Len(also)
        /\ \A i \in 1..(Len(one) + Len(also)) :
             (one \o also)[i] = IF i <= Len(one) THEN one[i] ELSE also[i - Len(one)]
    BY <1>1, <1>2, ConcatProperties
  <2> QED
    BY <1>2, <2>1
<1>5. Pieces(c, x) = one \o also
  BY DEF Pieces, one, also
<1>6. DOMAIN Pieces(c, x) = 1..(1 + Len(also))
  BY <1>4, <1>5, LenProperties
<1>7. Pieces(c, x)[1] = <<x, c[x].text>>
  BY <1>2, <1>3, <1>4, <1>5
<1>8. \A i \in 1..Len(also) : Pieces(c, x)[1 + i] = also[i]
  BY <1>3, <1>4, <1>5
<1>9. \A i \in DOMAIN Pieces(c, x) : Pieces(c, x)[i] \in Vars \X Texts
  BY <1>4, <1>5, <1>6, ElementOfSeq
<1>10. \A e \in Vars \X Texts : e[2] \in Texts
  OBVIOUS
<1> QED
  BY <1>3, <1>4, <1>5, <1>6, <1>7, <1>8, <1>9, <1>10 DEF also

\* A variable that is defined is written, and what is written is read.
LEMMA WrittenTypes ==
    ASSUME NEW c \in Context, NEW s \in Written(c)
    PROVE  /\ s \in Context /\ PlainBut(s, {})
           /\ \A y \in Vars : \/ Writers(c, y) = {} /\ s[y] = NoValue
                              \/ \E x \in Writers(c, y) : \E i \in Places(c, x, y) :
                                   s[y] = Plain(Pieces(c, x)[i][2])
<1>1. s \in [Vars -> {Plain(t) : t \in Texts} \cup {NoValue}]
  BY DEF Written
<1>2. \A t \in Texts : Plain(t) \in Value /\ Plain(t).also = <<>>
  BY PlainTypes
<1>3. \A y \in Vars : s[y] = NoValue \/ \E t \in Texts : s[y] = Plain(t)
  BY <1>1
<1>4. s \in Context
  BY <1>1, <1>2, <1>3 DEF Context
<1>5. PlainBut(s, {})
  BY <1>2, <1>3 DEF PlainBut
<1>6. \A y \in Vars : \/ Writers(c, y) = {} /\ s[y] = NoValue
                      \/ \E x \in Writers(c, y) : \E i \in Places(c, x, y) :
                           s[y] = Plain(Pieces(c, x)[i][2])
  BY Zenon DEF Written
<1> QED
  BY <1>4, <1>5, <1>6

LEMMA WrittenKeeps ==
    ASSUME NEW c \in Context, c # NoVars, NEW s \in Written(c)
    PROVE  s # NoVars
<1>1. PICK y \in Vars : c[y] # NoValue
  BY DEF Context, NoVars
<1>2. 1 \in Places(c, y, y)
  BY <1>1, PieceTypes DEF Places
<1>3. y \in Writers(c, y)
  BY <1>1, <1>2 DEF Writers
<1>4. PICK x \in Writers(c, y) : \E i \in Places(c, x, y) : s[y] = Plain(Pieces(c, x)[i][2])
  BY <1>3, WrittenTypes
<1>5. PICK i \in Places(c, x, y) : s[y] = Plain(Pieces(c, x)[i][2])
  BY <1>4
<1>6. Pieces(c, x)[i][2] \in Texts
  BY <1>5, PieceTypes DEF Places, Writers
<1>7. s[y] # NoValue
  BY <1>5, <1>6, PlainTypes
<1> QED
  BY <1>7 DEF NoVars

\* A plain value that no other variable names comes back as it was.
LEMMA WrittenApart ==
    ASSUME NEW c \in Context, NEW s \in Written(c), NEW y \in Vars,
           c[y] = NoValue \/ c[y].also = <<>>,
           \A x \in Vars \ {y} : c[x] = NoValue \/ Places(c, x, y) = {}
    PROVE  s[y] = c[y]
<1>1. CASE c[y] = NoValue
  <2>1. Writers(c, y) = {}
    BY <1>1 DEF Writers
  <2> QED
    BY <1>1, <2>1, WrittenTypes
<1>2. CASE c[y] # NoValue
  <2>1. DOMAIN Pieces(c, y) = {1} /\ Pieces(c, y)[1] = <<y, c[y].text>>
    <3>1. Len(c[y].also) = 0
      BY <1>2, EmptySeq
    <3>2. DOMAIN Pieces(c, y) = 1..(1 + Len(c[y].also)) /\ Pieces(c, y)[1] = <<y, c[y].text>>
      BY <1>2, PieceTypes
    <3>3. 1..(1 + 0) = {1}
      OBVIOUS
    <3> QED
      BY <3>1, <3>2, <3>3
  <2>2. Places(c, y, y) = {1}
    BY <2>1 DEF Places
  <2>3. Writers(c, y) = {y}
    BY <1>2, <2>2 DEF Writers
  <2>4. \E x \in Writers(c, y) : \E i \in Places(c, x, y) : s[y] = Plain(Pieces(c, x)[i][2])
    <3>1. Writers(c, y) # {}
      BY <2>3
    <3> QED
      BY <3>1, WrittenTypes, Zenon
  <2>5. s[y] = Plain(Pieces(c, y)[1][2])
    BY <2>2, <2>3, <2>4
  <2>6. s[y] = Plain(c[y].text)
    BY <2>1, <2>5
  <2>7. c[y] = [text |-> c[y].text, also |-> c[y].also]
    BY <1>2, ValueTypes DEF Value
  <2> QED
    BY <1>2, <2>6, <2>7 DEF Plain
<1> QED
  BY <1>1, <1>2

--------------------------------------------------------------------------------
(* The steps of one request *)

LEMMA Bounds ==
    /\ 0 \in 0..Attempts /\ Attempts \in 0..Attempts
    /\ \A n \in 0..Attempts : n > 1 => n - 1 \in 0..Attempts
<1>1. Attempts \in Nat \ {0}
  BY SessionAssumption
<1> QED
  BY <1>1

LEMMA StepTypes == {"idle", "get", "open", "run", "set", "expire", "send"} \subseteq Steps
BY DEF Steps

LEMMA NoVarsTypes == NoVars \in Context /\ PlainBut(NoVars, {}) /\ \A V : PlainBut(NoVars, V)
BY DEF NoVars, Context, PlainBut

\* Sends keeps what identifies the request.
LEMMA SendsIs ==
    ASSUME NEW r \in Request
    PROVE  LET t == Sends(r) IN
           /\ t \in Request /\ t.step = "send" /\ t.id = r.id /\ t.status = r.status
           /\ t.user = NoVars /\ t.fresh = FALSE /\ t.set_cookie = r.set_cookie
           /\ t.client = r.client
           /\ r.status = "ok" => /\ t.head = r.head /\ t.saved = r.saved
                                 /\ t.assigned = r.assigned
<1>1. Sends(r) \in Request
  <2>1. /\ {} \in SUBSET Vars /\ NoVars \in Context /\ 0 \in 0..Attempts /\ "send" \in Steps
        /\ FALSE \in BOOLEAN
    BY Bounds, NoVarsTypes, StepTypes
  <2>2. /\ (r.head /\ r.status = "ok") \in BOOLEAN /\ (r.saved /\ r.status = "ok") \in BOOLEAN
        /\ (IF r.status = "ok" THEN r.assigned ELSE {}) \in SUBSET Vars
    BY DEF Request
  <2> QED
    BY <2>1, <2>2, ZenonT(30) DEF Sends, Request
<1>2. LET t == Sends(r) IN
           /\ t.step = "send" /\ t.id = r.id /\ t.status = r.status /\ t.client = r.client
           /\ t.user = NoVars /\ t.fresh = FALSE /\ t.set_cookie = r.set_cookie
  BY DEF Sends, Request
<1>3. ASSUME r.status = "ok"
      PROVE  LET t == Sends(r) IN t.head = r.head /\ t.saved = r.saved /\ t.assigned = r.assigned
  BY <1>3 DEF Sends, Request
<1> QED
  BY <1>1, <1>2, <1>3

LEMMA SendsFine ==
    ASSUME NEW h, NEW S, NEW R, NEW E, NEW r \in Request,
           h # "jwt" => r.id # NoId, r.set_cookie = "none",
           r.status # "ok" \/ r.head \/ r.assigned = {}
    PROVE  Fine(h, S, R, E, Sends(r))
<1> DEFINE t == Sends(r)
<1>1. /\ t \in Request /\ t.step = "send" /\ t.id = r.id /\ t.status = r.status
      /\ t.user = NoVars /\ t.fresh = FALSE /\ t.set_cookie = "none"
      /\ r.status = "ok" => t.head = r.head /\ t.assigned = r.assigned
  BY SendsIs
<1> HIDE DEF t
<1>2. Fit(h, t)
  BY <1>1 DEF Fit
<1>3. Backed(h, S, R, E, t)
  BY <1>1 DEF Backed
<1>4. Loaded(h, S, t)
  BY <1>1, NoVarsTypes DEF Loaded
<1> QED
  BY <1>1, <1>2, <1>3, <1>4 DEF Fine, t

LEMMA LoadedSame ==
    ASSUME NEW h, NEW S, NEW r, NEW t, Loaded(h, S, r), t.user = r.user,
           t.assigned = r.assigned, t.id = r.id, t.fresh => r.fresh
    PROVE  Loaded(h, S, t)
<1>1. Touched(t) = Touched(r)
  BY DEF Touched
<1>2. h # "jwt" => PlainBut(t.user, t.assigned)
  BY DEF Loaded
<1>3. ASSUME t.fresh, h # "internal", NEW x \in Vars \ Touched(t)
      PROVE  t.user[x] = IF t.id = NoId THEN NoValue ELSE S[t.id][x]
  <2>1. r.user[x] = IF r.id = NoId THEN NoValue ELSE S[r.id][x]
    BY <1>1, <1>3 DEF Loaded
  <2> QED
    BY <2>1
<1> QED
  BY <1>2, <1>3, Zenon DEF Loaded

LEMMA InitResponseFine ==
    ASSUME TypeOK, NEW S, NEW R, NEW E, NEW r \in Request,
           holder # "jwt" => r.id # NoId, r.set_cookie = "none",
           \A x \in r.assigned : r.user[x] # NoValue,
           r.status = IF r.handler THEN "error" ELSE "ok",
           Loaded(holder, S, r)
    PROVE  Fine(holder, S, R, E, InitResponse(r))
<1>1. CASE r.head
  <2>1. InitResponse(r) = Sends(r)
    BY <1>1 DEF InitResponse
  <2> QED
    BY <1>1, <2>1, SendsFine
<1>2. CASE ~r.head /\ r.user # NoVars
  <2> DEFINE t == [r EXCEPT !.step = "set", !.attempts = Attempts]
  <2>1. InitResponse(r) = t
    BY <1>2 DEF InitResponse
  <2>2. t \in Request
    <3>1. Attempts \in 0..Attempts /\ "set" \in Steps
      BY Bounds, StepTypes
    <3> QED
      BY <3>1 DEF Request
  <2>3. /\ t.step = "set" /\ t.assigned = r.assigned /\ t.user = r.user /\ t.head = r.head
        /\ t.status = r.status /\ t.handler = r.handler /\ t.id = r.id /\ t.fresh = r.fresh
        /\ t.set_cookie = r.set_cookie
    BY DEF Request
  <2> HIDE DEF t
  <2>4. Fit(holder, t)
    BY <1>2, <2>3 DEF Fit
  <2>5. Backed(holder, S, R, E, t)
    BY <2>3 DEF Backed
  <2>6. Loaded(holder, S, t)
    BY <2>3, LoadedSame
  <2> QED
    BY <2>1, <2>2, <2>4, <2>5, <2>6 DEF Fine
<1>3. CASE ~r.head /\ r.user = NoVars
  <2>1. r.assigned = {}
    BY <1>3 DEF Request, NoVars
  <2>2. CASE InitResponse(r) = Sends(r)
    BY <2>1, <2>2, SendsFine
  <2>3. CASE holder = "jwt" /\ InitResponse(r) = [Sends(r) EXCEPT !.id = NoId, !.set_cookie = "clear"]
    <3> DEFINE t == Sends(r)
               u == [t EXCEPT !.id = NoId, !.set_cookie = "clear"]
    <3>1. Fine(holder, S, R, E, t) /\ t.step = "send" /\ t.fresh = FALSE /\ t.user = NoVars
      BY <2>1, SendsFine, SendsIs
    <3>2. t \in Request
      BY SendsIs
    <3>3. r.status = "ok" => t.assigned = {}
      BY <2>1, SendsIs
    <3>4. t.status = r.status
      BY SendsIs
    <3> HIDE DEF t
    <3>5. u \in Request
      BY <3>2 DEF Request
    <3>6. /\ u.step = t.step /\ u.fresh = t.fresh /\ u.user = t.user /\ u.id = NoId
          /\ u.set_cookie = "clear" /\ u.assigned = t.assigned /\ u.status = t.status
      BY <3>2 DEF Request
    <3> HIDE DEF u
    <3>7. Fit(holder, u)
      BY <2>3, <3>1, <3>6 DEF Fit
    <3>8. Backed(holder, S, R, E, u)
      BY <3>1, <3>3, <3>4, <3>6 DEF Backed
    <3>9. Loaded(holder, S, u)
      BY <3>1, <3>6, NoVarsTypes DEF Loaded
    <3> QED
      BY <2>3, <3>5, <3>7, <3>8, <3>9 DEF Fine, u, t
  <2> QED
    BY <1>3, <2>2, <2>3 DEF InitResponse
<1> QED
  BY <1>1, <1>2, <1>3

\* A catch clause, wherever the exception comes from.
LEMMA CaughtFine ==
    ASSUME TypeOK, NEW S, NEW R, NEW E, NEW r \in Request,
           holder # "jwt" => r.id # NoId, r.set_cookie = "none",
           \A x \in r.assigned : r.user[x] # NoValue,
           Loaded(holder, S, r)
    PROVE  Fine(holder, S, R, E, Caught(r))
<1> DEFINE t == [r EXCEPT !.handler = TRUE, !.status = "error", !.saved = FALSE]
<1>1. t \in Request
  BY DEF Request, Statuses
<1>2. /\ t.id = r.id /\ t.set_cookie = r.set_cookie /\ t.assigned = r.assigned
      /\ t.user = r.user /\ t.handler /\ t.status = "error" /\ t.fresh = r.fresh
  BY DEF Request
<1> HIDE DEF t
<1>3. Loaded(holder, S, t)
  BY <1>2, LoadedSame
<1>4. Fine(holder, S, R, E, InitResponse(t))
  BY <1>1, <1>2, <1>3, InitResponseFine
<1> QED
  BY <1>4 DEF Caught, t

LEMMA EscapedFine ==
    ASSUME NEW h, NEW S, NEW R, NEW E, NEW r \in Request, h # "jwt" => r.id # NoId
    PROVE  Fine(h, S, R, E, Escaped(r))
<1> DEFINE t == [r EXCEPT !.status = "error", !.set_cookie = "none"]
<1>1. t \in Request
  BY DEF Request, Statuses
<1>2. t.id = r.id /\ t.set_cookie = "none" /\ t.status = "error"
  BY DEF Request
<1> HIDE DEF t
<1>3. Fine(h, S, R, E, Sends(t))
  BY <1>1, <1>2, SendsFine
<1> QED
  BY <1>3 DEF Escaped, t

LEMMA SaveThrowsFine ==
    ASSUME TypeOK, NEW S, NEW R, NEW E, NEW r \in Request, r.step \in {"set", "expire"},
           Fit(holder, r), Loaded(holder, S, r)
    PROVE  Fine(holder, S, R, E, SaveThrows(r))
<1>1. /\ holder # "jwt" => r.id # NoId
      /\ r.set_cookie = "none" /\ \A x \in r.assigned : r.user[x] # NoValue
  BY DEF Fit
<1> QED
  BY <1>1, CaughtFine, EscapedFine DEF SaveThrows

\* save() is over: what it has stored is there.
LEMMA SavedFine ==
    ASSUME NEW h, NEW S, NEW R, NEW E, NEW r \in Request, r.step \in {"set", "expire"},
           Fit(h, r), h # "jwt",
           h # "internal" => Kept(S, R, r.id) /\ (~r.handler => r.saved \/ r.id \in R)
    PROVE  Fine(h, S, R, E, Saved(r))
<1> DEFINE t == Sends(r)
           c == IF r.is_new THEN "session" ELSE "none"
           u == [t EXCEPT !.set_cookie = c]
<1>1. /\ t \in Request /\ t.step = "send" /\ t.id = r.id /\ t.status = r.status
      /\ t.user = NoVars /\ t.fresh = FALSE
      /\ r.status = "ok" => t.saved = r.saved
  BY SendsIs
<1> HIDE DEF t
<1>2. c \in {"none", "session"} /\ c \in {"none", "session", "clear"}
  OBVIOUS
<1> HIDE DEF c
<1>3. u \in Request
  BY <1>1, <1>2 DEF Request
<1>4. /\ u.step = "send" /\ u.id = r.id /\ u.status = r.status /\ u.saved = t.saved
      /\ u.user = NoVars /\ u.fresh = FALSE /\ u.set_cookie = c
  BY <1>1 DEF Request
<1> HIDE DEF u
<1>5. r.id # NoId /\ (r.status = "ok" => ~r.handler)
  BY DEF Fit
<1>6. Fit(h, u)
  BY <1>2, <1>4, <1>5 DEF Fit
<1>7. h # "internal" => Kept(S, R, u.id)
  BY <1>4
<1>8. h # "internal" /\ u.status = "ok" => u.saved \/ u.id \in R \cup E
  BY <1>1, <1>4, <1>5
<1>9. Backed(h, S, R, E, u)
  BY <1>4, <1>7, <1>8 DEF Backed
<1>10. Loaded(h, S, u)
  BY <1>4, NoVarsTypes DEF Loaded
<1>11. Saved(r) = u
  BY DEF Saved, u, t, c
<1> QED
  BY <1>3, <1>6, <1>9, <1>10, <1>11 DEF Fine

LEMMA AfterSetFine ==
    ASSUME TypeOK, NEW S, NEW R, NEW E, NEW r \in Request, r.step = "set",
           Fit(holder, r), holder # "jwt", Loaded(holder, S, r),
           holder # "internal" => Kept(S, R, r.id) /\ (~r.handler => r.saved \/ r.id \in R)
    PROVE  Fine(holder, S, R, E, AfterSet(r))
<1>1. CASE holder = "redis" /\ Ttl
  <2> DEFINE t == [r EXCEPT !.step = "expire"]
  <2>1. t \in Request
    BY StepTypes DEF Request
  <2>2. /\ t.step = "expire" /\ t.assigned = r.assigned /\ t.user = r.user /\ t.head = r.head
        /\ t.status = r.status /\ t.handler = r.handler /\ t.id = r.id /\ t.fresh = r.fresh
        /\ t.set_cookie = r.set_cookie /\ t.saved = r.saved
    BY DEF Request
  <2> HIDE DEF t
  <2>3. Fit(holder, t)
    BY <1>1, <2>2 DEF Fit
  <2>4. Backed(holder, S, R, E, t)
    BY <1>1, <2>2 DEF Backed
  <2>5. Loaded(holder, S, t)
    BY <2>2, LoadedSame
  <2> QED
    BY <1>1, <2>1, <2>3, <2>4, <2>5 DEF Fine, AfterSet, t
<1>2. CASE ~(holder = "redis" /\ Ttl)
  BY <1>2, SavedFine DEF AfterSet
<1> QED
  BY <1>1, <1>2

\* Once the server has written the user context of r, it is what r has not touched.
LEMMA WrittenLoaded ==
    ASSUME NEW h, h # "jwt", NEW S, NEW r \in Request, r.id \in Ids, S \in [Ids -> Context],
           Loaded(h, S, r), NEW s \in Written(r.user)
    PROVE  /\ \A x \in Vars \ Touched(r) : s[x] = r.user[x]
           /\ Loaded(h, [S EXCEPT ![r.id] = s], r)
<1>1. r.user \in Context /\ r.assigned \subseteq Vars
  BY DEF Request
<1>2. ASSUME NEW x \in Vars \ Touched(r) PROVE s[x] = r.user[x]
  <2>1. x \notin r.assigned /\ (r.user[x] = NoValue \/ r.user[x].also = <<>>)
    BY <1>2 DEF Touched, Loaded, PlainBut
  <2>2. ASSUME NEW z \in Vars \ {x}, r.user[z] # NoValue
        PROVE  Places(r.user, z, x) = {}
    <3> SUFFICES ASSUME NEW i \in Places(r.user, z, x) PROVE FALSE
      OBVIOUS
    <3> DEFINE also == r.user[z].also
    <3>1. /\ i \in 1..(1 + Len(also)) /\ Len(also) \in Nat /\ Pieces(r.user, z)[i][1] = x
          /\ Pieces(r.user, z)[1] = <<z, r.user[z].text>>
          /\ \A j \in 1..Len(also) : Pieces(r.user, z)[1 + j] = also[j]
          /\ also \in Seq(Vars \X Texts)
      BY <1>1, <2>2, PieceTypes, ValueTypes DEF Places
    <3>2. i # 1
      BY <2>2, <3>1
    <3>3. i - 1 \in 1..Len(also) /\ 1 + (i - 1) = i
      BY <3>1, <3>2
    <3>4. also[i - 1][1] = x
      BY <3>1, <3>3
    <3>5. i - 1 \in DOMAIN also
      BY <3>1, <3>3, LenProperties
    <3>6. z \in r.assigned
      <4>1. also # <<>>
        BY <3>1, <3>3, EmptySeq
      <4> QED
        BY <2>2, <4>1 DEF Loaded, PlainBut
    <3>7. x \in Touched(r)
      BY <3>4, <3>5, <3>6, Zenon DEF Touched
    <3> QED
      BY <1>2, <3>7
  <2>3. \A z \in Vars \ {x} : r.user[z] = NoValue \/ Places(r.user, z, x) = {}
    BY <2>2
  <2> QED
    BY <1>1, <2>1, <2>3, WrittenApart
<1>3. Loaded(h, [S EXCEPT ![r.id] = s], r)
  <2> DEFINE T == [S EXCEPT ![r.id] = s]
  <2>1. T[r.id] = s
    OBVIOUS
  <2>2. r.id # NoId
    BY SessionAssumption
  <2> HIDE DEF T
  <2>3. h # "jwt" => PlainBut(r.user, r.assigned)
    BY DEF Loaded
  <2>4. \A x \in Vars \ Touched(r) : r.user[x] = IF r.id = NoId THEN NoValue ELSE T[r.id][x]
    BY <1>2, <2>1, <2>2
  <2> QED
    BY <2>3, <2>4, Zenon DEF Loaded, T
<1> QED
  BY <1>2, <1>3

--------------------------------------------------------------------------------
(* The requests side by side *)

\* A request whose session stays stored, refused and expired stays fine.
LEMMA OtherFine ==
    ASSUME NEW h, NEW S, NEW R, NEW E, NEW r, Fine(h, S, R, E, r),
           NEW T, NEW Q, NEW F, NEW b \in BOOLEAN, b => r.fresh,
           R \subseteq Ids, E \subseteq Ids,
           r.id \in Ids => /\ S[r.id] # NoVars => T[r.id] # NoVars
                           /\ r.id \in R => r.id \in Q
                           /\ r.id \in E => r.id \in F
                           /\ b => T[r.id] = S[r.id]
    PROVE  Fine(h, T, Q, F, [r EXCEPT !.fresh = b])
<1> DEFINE t == [r EXCEPT !.fresh = b]
<1>1. r \in Request /\ Fit(h, r) /\ Backed(h, S, R, E, r) /\ Loaded(h, S, r)
  BY DEF Fine
<1>2. t \in Request
  BY <1>1 DEF Request
<1>3. /\ t.step = r.step /\ t.assigned = r.assigned /\ t.user = r.user /\ t.head = r.head
      /\ t.status = r.status /\ t.handler = r.handler /\ t.id = r.id /\ t.fresh = b
      /\ t.set_cookie = r.set_cookie /\ t.saved = r.saved
  BY <1>1 DEF Request
<1> HIDE DEF t
<1>4. Fit(h, t)
  BY <1>1, <1>3 DEF Fit
<1>5. Kept(S, R, r.id) => Kept(T, Q, r.id)
  BY DEF Kept
<1>6. r.id \in R => r.id \in Q
  OBVIOUS
<1>7. r.id \in R \cup E => r.id \in Q \cup F
  OBVIOUS
<1>8. Backed(h, T, Q, F, t)
  BY <1>1, <1>3, <1>5, <1>6, <1>7, Zenon DEF Backed
<1>9. Loaded(h, T, t)
  <2>1. Loaded(h, S, t)
    BY <1>1, <1>3, LoadedSame
  <2>2. t.fresh /\ t.id # NoId => T[t.id] = S[t.id]
    BY <1>1, <1>3 DEF Request
  <2> QED
    BY <2>1, <2>2 DEF Loaded
<1> QED
  BY <1>2, <1>4, <1>8, <1>9 DEF Fine, t

LEMMA SameFresh == ASSUME NEW r \in Request PROVE r = [r EXCEPT !.fresh = r.fresh]
BY DEF Request

\* Worker w goes on with r, and leaves the sessions of the others alone.
LEMMA Moves ==
    ASSUME TypeOK, Requests, NEW w \in Workers, NEW r, Does(w, r), holder' = holder,
           \A v \in Workers \ {w} : work[v].id \in Ids =>
             /\ store'[work[v].id] = store[work[v].id]
             /\ work[v].id \in refused => work[v].id \in refused'
             /\ work[v].id \in expired => work[v].id \in expired',
           Fine(holder, store', refused', expired', r)
    PROVE  Requests' /\ work' \in [Workers -> Request]
<1>1. work \in [Workers -> Request] /\ work' = [work EXCEPT ![w] = r]
  BY DEF TypeOK, Does
<1>2. ASSUME NEW v \in Workers PROVE Fine(holder, store', refused', expired', work'[v])
  <2>1. CASE v = w
    BY <1>1, <2>1
  <2>2. CASE v # w
    <3>1. work'[v] = work[v] /\ work[v] \in Request
      BY <1>1, <2>2
    <3>2. Fine(holder, store, refused, expired, work[v]) /\ work[v].fresh \in BOOLEAN
      BY <3>1 DEF Requests, Request
    <3>3. refused \subseteq Ids /\ expired \subseteq Ids
      BY DEF TypeOK
    <3>4. Fine(holder, store', refused', expired', [work[v] EXCEPT !.fresh = work[v].fresh])
      BY <2>2, <3>2, <3>3, OtherFine
    <3> QED
      BY <3>1, <3>4, SameFresh
  <2> QED
    BY <2>1, <2>2
<1>3. r \in Request
  BY DEF Fine
<1> QED
  BY <1>1, <1>2, <1>3 DEF Requests

\* Worker w goes on with r, and nothing else changes.
LEMMA MovesAlone ==
    ASSUME TypeOK, Requests, NEW w \in Workers, NEW r, Does(w, r),
           UNCHANGED <<holder, store, refused, expired>>,
           Fine(holder, store, refused, expired, r)
    PROVE  Requests' /\ work' \in [Workers -> Request]
BY Moves

\* The server takes what worker w writes.
LEMMA MovesStoring ==
    ASSUME TypeOK, Requests, NEW w \in Workers, NEW r, Stores(w, r),
           UNCHANGED <<holder, refused, expired>>,
           holder # "jwt", work[w].step = "set",
           \A S : Loaded(holder, S, work[w]) /\ Kept(S, refused, work[w].id) =>
                    Fine(holder, S, refused, expired, r)
    PROVE  /\ Requests' /\ work' \in [Workers -> Request] /\ store' \in [Ids -> Context]
           /\ work[w].id \in Ids
           /\ \A i \in Ids \ {work[w].id} : store'[i] = store[i]
           /\ store'[work[w].id] # NoVars /\ PlainBut(store'[work[w].id], {})
           /\ \A x \in Vars \ Touched(work[w]) : store'[work[w].id][x] = work[w].user[x]
<1> DEFINE k == work[w].id
<1>1. /\ work \in [Workers -> Request] /\ work[w] \in Request /\ store \in [Ids -> Context]
      /\ refused \subseteq Ids /\ expired \subseteq Ids
  BY DEF TypeOK
<1>2. Fine(holder, store, refused, expired, work[w])
  BY DEF Requests
<1>3. k \in Ids /\ work[w].user # NoVars /\ work[w].user \in Context
  BY <1>1, <1>2 DEF Fine, Fit, Request
<1>4. PICK s \in Written(work[w].user) : store' = [store EXCEPT ![k] = s]
  BY DEF Stores
<1>5. s \in Context /\ s # NoVars /\ PlainBut(s, {})
  BY <1>3, WrittenTypes, WrittenKeeps
<1>6. store'[k] = s /\ store' \in [Ids -> Context] /\ \A i \in Ids \ {k} : store'[i] = store[i]
  BY <1>1, <1>3, <1>4, <1>5
<1>7. /\ \A x \in Vars \ Touched(work[w]) : s[x] = work[w].user[x]
      /\ Loaded(holder, store', work[w])
  BY <1>1, <1>2, <1>3, <1>4, WrittenLoaded DEF Fine
<1>8. Fine(holder, store', refused, expired, r)
  BY <1>3, <1>5, <1>6, <1>7 DEF Kept
<1>9. ASSUME NEW v \in Workers \ {w}
      PROVE  /\ Fine(holder, store', refused, expired, work'[v]) /\ work'[v] \in Request
  <2> DEFINE b == work[v].fresh /\ work[v].id # k
  <2>1. work'[v] = [work[v] EXCEPT !.fresh = b]
    BY <1>9 DEF Stores
  <2>2. b \in BOOLEAN /\ (b => work[v].fresh)
    OBVIOUS
  <2>3. Fine(holder, store, refused, expired, work[v])
    BY DEF Requests
  <2>4. b => work[v].id # k
    OBVIOUS
  <2> HIDE DEF b
  <2>5. work[v].id \in Ids => /\ store[work[v].id] # NoVars => store'[work[v].id] # NoVars
                              /\ b => store'[work[v].id] = store[work[v].id]
    BY <1>5, <1>6, <2>4
  <2>6. Fine(holder, store', refused, expired, [work[v] EXCEPT !.fresh = b])
    BY <1>1, <2>2, <2>3, <2>5, OtherFine
  <2> QED
    BY <2>1, <2>6 DEF Fine
<1>10. work'[w] = r /\ r \in Request /\ work' = [v \in Workers |-> work'[v]]
  BY <1>8 DEF Stores, Fine
<1>11. work' \in [Workers -> Request]
  BY <1>9, <1>10
<1>12. Requests'
  <2> SUFFICES ASSUME NEW v \in Workers
               PROVE  Fine(holder', store', refused', expired', work'[v])
    BY DEF Requests
  <2>1. CASE v = w
    BY <1>8, <1>10, <2>1
  <2>2. CASE v # w
    BY <1>9, <2>2
  <2> QED
    BY <2>1, <2>2
<1> QED
  BY <1>3, <1>5, <1>6, <1>7, <1>11, <1>12

Pool == [live : Nat, dead : Nat]

\* A step of worker w that leaves the store alone.
LEMMA QuietKeeps ==
    ASSUME IInv, NEW w \in Workers, NEW r, Does(w, r),
           UNCHANGED <<holder, store, cookie, expired, refused>>, pool' \in Pool,
           Fine(holder, store, refused, expired, r)
    PROVE  IInv'
<1>1. TypeOK /\ Requests /\ StoredPlain /\ CookieStored
  BY DEF IInv
<1>2. Requests' /\ work' \in [Workers -> Request]
  BY <1>1, MovesAlone
<1>3. TypeOK'
  BY <1>1, <1>2 DEF TypeOK, Pool
<1>4. StoredPlain' /\ CookieStored'
  BY <1>1 DEF StoredPlain, CookieStored
<1> QED
  BY <1>2, <1>3, <1>4 DEF IInv

\* A step of worker w that stores its session.
LEMMA StoringKeeps ==
    ASSUME IInv, NEW w \in Workers, NEW r, Stores(w, r),
           UNCHANGED <<holder, cookie, expired, refused>>, pool' \in Pool,
           holder # "jwt", work[w].step = "set",
           \A S : Loaded(holder, S, work[w]) /\ Kept(S, refused, work[w].id) =>
                    Fine(holder, S, refused, expired, r)
    PROVE  IInv'
<1>1. TypeOK /\ Requests /\ StoredPlain /\ CookieStored
  BY DEF IInv
<1>2. /\ Requests' /\ work' \in [Workers -> Request] /\ store' \in [Ids -> Context]
      /\ work[w].id \in Ids
      /\ \A i \in Ids \ {work[w].id} : store'[i] = store[i]
      /\ store'[work[w].id] # NoVars /\ PlainBut(store'[work[w].id], {})
  BY <1>1, MovesStoring
<1>3. TypeOK'
  BY <1>1, <1>2 DEF TypeOK, Pool
<1>4. StoredPlain'
  BY <1>1, <1>2 DEF StoredPlain
<1>5. CookieStored'
  BY <1>1, <1>2 DEF CookieStored, TypeOK
<1> QED
  BY <1>2, <1>3, <1>4, <1>5 DEF IInv

LEMMA HandleTypes ==
    ASSUME TypeOK, NEW w \in Workers, HandleWorks(w)
    PROVE  pool' \in Pool
BY DEF HandleWorks, TypeOK, Pool

\* The request of a worker, by its step.
LEMMA RequestIs ==
    ASSUME IInv, NEW w \in Workers
    PROVE  /\ work[w] \in Request /\ Fit(holder, work[w]) /\ Loaded(holder, store, work[w])
           /\ Backed(holder, store, refused, expired, work[w])
           /\ Fine(holder, store, refused, expired, work[w])
           /\ work \in [Workers -> Request] /\ pool \in Pool /\ holder \in Holders
           /\ store \in [Ids -> Context] /\ TypeOK
BY DEF IInv, Requests, Fine, TypeOK, Pool

\* load() is over, without the session.
LEMMA OpensFine ==
    ASSUME NEW h, NEW S, NEW R, NEW E, NEW r \in Request, Fit(h, r), Loaded(h, S, r),
           r.step = "get"
    PROVE  Fine(h, S, R, E, Opens(r))
<1> DEFINE t == Opens(r)
<1>1. t \in Request
  BY StepTypes, Bounds DEF Opens, Request
<1>2. /\ t.step = "open" /\ t.assigned = r.assigned /\ t.user = r.user
      /\ t.handler = r.handler /\ t.id = r.id /\ t.fresh = r.fresh
      /\ t.set_cookie = r.set_cookie
  BY DEF Opens, Request
<1> HIDE DEF t
<1>3. Fit(h, t)
  BY <1>2 DEF Fit
<1>4. Backed(h, S, R, E, t)
  BY <1>2 DEF Backed
<1>5. Loaded(h, S, t)
  BY <1>2, LoadedSame
<1> QED
  BY <1>1, <1>3, <1>4, <1>5 DEF Fine, t

LEMMA RetryFine ==
    ASSUME NEW h, NEW S, NEW R, NEW E, NEW r \in Request, Fit(h, r), Loaded(h, S, r),
           MoreAttempts(r), NEW s \in {"get", "set"}, r.step = s \/ (r.step = "expire" /\ s = "set")
    PROVE  Fine(h, S, R, E, [r EXCEPT !.step = s, !.attempts = @ - 1])
<1> DEFINE t == [r EXCEPT !.step = s, !.attempts = @ - 1]
<1>1. r.attempts - 1 \in 0..Attempts /\ s \in Steps
  <2>1. r.attempts \in 0..Attempts
    BY DEF Request
  <2> QED
    BY <2>1, Bounds, StepTypes DEF MoreAttempts
<1>2. t \in Request
  BY <1>1 DEF Request
<1>3. /\ t.step = s /\ t.assigned = r.assigned /\ t.user = r.user /\ t.head = r.head
      /\ t.status = r.status /\ t.handler = r.handler /\ t.id = r.id /\ t.fresh = r.fresh
      /\ t.set_cookie = r.set_cookie
  BY DEF Request
<1> HIDE DEF t
<1>4. Fit(h, t)
  BY <1>3 DEF Fit
<1>5. Backed(h, S, R, E, t)
  BY <1>3 DEF Backed
<1>6. Loaded(h, S, t)
  BY <1>3, LoadedSame
<1> QED
  BY <1>2, <1>4, <1>5, <1>6 DEF Fine, t

LEMMA LoadKeeps ==
    ASSUME IInv, NEW w \in Workers,
           GetValue(w) \/ GetValueFails(w) \/ GetValueRefused(w) \/ TokenExpired(w)
    PROVE  IInv'
<1> DEFINE r == work[w]
<1>1. /\ r \in Request /\ Fit(holder, r) /\ Loaded(holder, store, r) /\ pool \in Pool /\ TypeOK
      /\ store \in [Ids -> Context]
  BY RequestIs
<1>2. r.step = "get"
  BY DEF GetValue, GetValueFails, GetValueRefused, TokenExpired, At
<1>3. CASE GetValue(w)
  <2> DEFINE c == IF holder = "internal" THEN NoVars ELSE Content(r.id)
             t == [Opens(r) EXCEPT !.fresh = TRUE, !.user = c]
  <2>1. /\ Does(w, t) /\ pool' \in Pool
        /\ UNCHANGED <<holder, store, cookie, expired, refused>>
    BY <1>1, <1>3, HandleTypes DEF GetValue
  <2>2. c \in Context /\ (holder # "jwt" => PlainBut(c, {}))
    <3>1. CASE c = NoVars
      BY <3>1, NoVarsTypes
    <3>2. CASE c # NoVars
      <4>1. r.id \in Ids /\ c = store[r.id]
        BY <1>1, <3>2 DEF Content, Request
      <4> QED
        BY <1>1, <4>1 DEF IInv, StoredPlain
    <3> QED
      BY <3>1, <3>2
  <2>3. Fine(holder, store, refused, expired, Opens(r)) /\ Opens(r).step = "open"
    <3>1. Opens(r).step = "open"
      BY <1>1 DEF Opens, Request
    <3> QED
      BY <1>1, <1>2, <3>1, OpensFine
  <2>4. Opens(r) \in Request /\ Opens(r).id = r.id
    BY <1>1, <2>3 DEF Fine, Opens, Request
  <2>5. holder # "internal" => \A x \in Vars : c[x] = IF r.id = NoId THEN NoValue ELSE store[r.id][x]
    BY DEF Content, NoVars
  <2> HIDE DEF c
  <2>6. t \in Request
    BY <2>2, <2>4 DEF Request
  <2>7. /\ t.step = "open" /\ t.user = c /\ t.assigned = Opens(r).assigned /\ t.id = r.id
        /\ t.handler = Opens(r).handler /\ t.set_cookie = Opens(r).set_cookie
    BY <2>3, <2>4 DEF Request
  <2> HIDE DEF t
  <2>8. Fit(holder, Opens(r)) /\ Opens(r).assigned = {}
    BY <2>3 DEF Fine, Fit
  <2>9. Fit(holder, t)
    BY <2>3, <2>4, <2>7, <2>8 DEF Fit
  <2>10. Backed(holder, store, refused, expired, t)
    BY <2>7 DEF Backed
  <2>11. Loaded(holder, store, t)
    BY <2>2, <2>5, <2>7, <2>8 DEF Loaded
  <2>12. Fine(holder, store, refused, expired, t)
    BY <2>6, <2>9, <2>10, <2>11 DEF Fine
  <2> QED
    BY <2>1, <2>12, QuietKeeps
<1>4. Fine(holder, store, refused, expired, Opens(r))
  BY <1>1, <1>2, OpensFine
<1>5. CASE GetValueFails(w)
  <2>1. UNCHANGED <<holder, store, cookie, expired, refused, pool>>
    BY <1>5 DEF GetValueFails
  <2>2. CASE MoreAttempts(r)
    <3> DEFINE t == [r EXCEPT !.step = "get", !.attempts = @ - 1]
    <3>1. Fine(holder, store, refused, expired, t)
      BY <1>1, <1>2, <2>2, RetryFine
    <3>2. t = [r EXCEPT !.attempts = @ - 1]
      BY <1>1, <1>2 DEF Request
    <3>3. Does(w, [r EXCEPT !.attempts = @ - 1])
      BY <1>5, <2>2 DEF GetValueFails
    <3> QED
      BY <1>1, <2>1, <3>1, <3>2, <3>3, QuietKeeps
  <2>3. CASE ~MoreAttempts(r)
    <3>1. Does(w, Opens(r))
      BY <1>5, <2>3 DEF GetValueFails
    <3> QED
      BY <1>1, <1>4, <2>1, <3>1, QuietKeeps
  <2> QED
    BY <2>2, <2>3
<1>6. CASE GetValueRefused(w) \/ TokenExpired(w)
  <2>1. Does(w, Opens(r)) /\ UNCHANGED <<holder, store, cookie, expired, refused, pool>>
    BY <1>6 DEF GetValueRefused, TokenExpired
  <2> QED
    BY <1>1, <1>4, <2>1, QuietKeeps
<1> QED
  BY <1>3, <1>5, <1>6

LEMMA ScriptKeeps ==
    ASSUME IInv, NEW w \in Workers, GetApp(w) \/ Assign(w) \/ EndScript(w)
    PROVE  IInv'
<1> DEFINE r == work[w]
<1>1. /\ r \in Request /\ Fit(holder, r) /\ Loaded(holder, store, r) /\ pool \in Pool /\ TypeOK
  BY RequestIs
<1>2. UNCHANGED <<holder, store, cookie, expired, refused, pool>>
  BY DEF GetApp, Assign, EndScript
<1>3. r.step \in {"open", "run"}
  BY DEF GetApp, Assign, EndScript, At
<1>4. /\ holder # "jwt" => r.id # NoId
      /\ r.set_cookie = "none" /\ ~r.handler /\ \A x \in r.assigned : r.user[x] # NoValue
  BY <1>3, <1>1 DEF Fit
<1>5. ASSUME NEW h \in BOOLEAN
      PROVE  Fine(holder, store, refused, expired, Caught([r EXCEPT !.head = h]))
  <2> DEFINE t == [r EXCEPT !.head = h]
  <2>1. t \in Request
    BY <1>1 DEF Request
  <2>2. /\ t.id = r.id /\ t.set_cookie = r.set_cookie /\ t.assigned = r.assigned
        /\ t.user = r.user /\ t.fresh = r.fresh
    BY <1>1 DEF Request
  <2> HIDE DEF t
  <2>3. Loaded(holder, store, t)
    BY <1>1, <2>2, LoadedSame
  <2>4. Fine(holder, store, refused, expired, Caught(t))
    BY <1>1, <1>4, <2>1, <2>2, <2>3, CaughtFine
  <2> QED
    BY <2>4 DEF t
<1>6. ASSUME NEW h \in BOOLEAN
      PROVE  Fine(holder, store, refused, expired,
                  InitResponse([r EXCEPT !.head = h, !.status = "ok"]))
  <2> DEFINE t == [r EXCEPT !.head = h, !.status = "ok"]
  <2>1. t \in Request
    BY <1>1 DEF Request, Statuses
  <2>2. /\ t.id = r.id /\ t.set_cookie = r.set_cookie /\ t.assigned = r.assigned
        /\ t.user = r.user /\ t.fresh = r.fresh /\ t.handler = r.handler /\ t.status = "ok"
    BY <1>1 DEF Request
  <2> HIDE DEF t
  <2>3. Loaded(holder, store, t)
    BY <1>1, <2>2, LoadedSame
  <2>4. Fine(holder, store, refused, expired, InitResponse(t))
    BY <1>1, <1>4, <2>1, <2>2, <2>3, InitResponseFine
  <2> QED
    BY <2>4 DEF t
<1>7. CASE GetApp(w)
  <2> DEFINE t == [r EXCEPT !.step = "run"]
  <2>1. CASE Does(w, t)
    <3>1. t \in Request
      BY <1>1, StepTypes DEF Request
    <3>2. /\ t.id = r.id /\ t.set_cookie = r.set_cookie /\ t.assigned = r.assigned
          /\ t.user = r.user /\ t.fresh = r.fresh /\ t.handler = r.handler /\ t.step = "run"
      BY <1>1 DEF Request
    <3> HIDE DEF t
    <3>3. Fit(holder, t)
      BY <1>4, <3>2 DEF Fit
    <3>4. Backed(holder, store, refused, expired, t)
      BY <3>2 DEF Backed
    <3>5. Loaded(holder, store, t)
      BY <1>1, <3>2, LoadedSame
    <3>6. Fine(holder, store, refused, expired, t)
      BY <3>1, <3>3, <3>4, <3>5 DEF Fine
    <3> QED
      BY <1>1, <1>2, <2>1, <3>6, QuietKeeps
  <2>2. ASSUME NEW h \in BOOLEAN, Does(w, Caught([r EXCEPT !.head = h])) PROVE IInv'
    BY <1>1, <1>2, <1>5, <2>2, QuietKeeps
  <2> QED
    BY <1>7, <2>1, <2>2 DEF GetApp
<1>8. CASE Assign(w)
  <2>1. PICK x \in Vars \ r.assigned, v \in Values :
          Does(w, [r EXCEPT !.user[x] = v, !.assigned = @ \cup {x}])
    BY <1>8 DEF Assign
  <2> DEFINE c == [r.user EXCEPT ![x] = v]
             A == r.assigned \cup {x}
             t == [r EXCEPT !.user = c, !.assigned = A]
  <2>2. Does(w, t)
    BY <2>1
  <2>3. r.user \in Context /\ r.assigned \subseteq Vars /\ r.step = "run"
    BY <1>1, <1>8 DEF Request, Assign, At
  <2>4. v \in Value /\ v # NoValue
    BY SessionAssumption
  <2>5. c \in Context /\ A \in SUBSET Vars
    BY <2>3, <2>4 DEF Context
  <2>6. c[x] = v /\ \A y \in Vars \ {x} : c[y] = r.user[y]
    BY <2>3 DEF Context
  <2> HIDE DEF c
  <2>7. t \in Request
    BY <1>1, <2>5 DEF Request
  <2>8. /\ t.id = r.id /\ t.set_cookie = r.set_cookie /\ t.assigned = A
        /\ t.user = c /\ t.fresh = r.fresh /\ t.handler = r.handler /\ t.step = r.step
    BY <1>1 DEF Request
  <2> HIDE DEF t
  <2>9. \A y \in A : c[y] # NoValue
    BY <1>4, <2>3, <2>4, <2>6
  <2>10. Fit(holder, t)
    BY <1>4, <2>3, <2>8, <2>9 DEF Fit
  <2>11. Backed(holder, store, refused, expired, t)
    BY <2>3, <2>8 DEF Backed
  <2>12. Touched(r) \subseteq Touched(t) /\ x \in Touched(t)
    BY <2>3, <2>6, <2>8 DEF Touched
  <2>13. holder # "jwt" => PlainBut(c, A)
    BY <1>1, <2>6 DEF Loaded, PlainBut
  <2>14. Loaded(holder, store, t)
    <3>1. ASSUME t.fresh, holder # "internal", NEW y \in Vars \ Touched(t)
          PROVE  t.user[y] = IF t.id = NoId THEN NoValue ELSE store[t.id][y]
      <4>1. y \in Vars \ Touched(r) /\ y # x /\ r.fresh
        BY <2>8, <2>12, <3>1
      <4>2. r.user[y] = IF r.id = NoId THEN NoValue ELSE store[r.id][y]
        BY <1>1, <3>1, <4>1 DEF Loaded
      <4> QED
        BY <2>6, <2>8, <4>1, <4>2
    <3>2. holder # "jwt" => PlainBut(t.user, t.assigned)
      BY <2>8, <2>13
    <3> QED
      BY <3>1, <3>2, Zenon DEF Loaded
  <2>15. Fine(holder, store, refused, expired, t)
    BY <2>7, <2>10, <2>11, <2>14 DEF Fine
  <2> QED
    BY <1>1, <1>2, <2>2, <2>15, QuietKeeps
<1>9. CASE EndScript(w)
  <2>1. ASSUME NEW h \in BOOLEAN, Does(w, InitResponse([r EXCEPT !.head = h, !.status = "ok"]))
        PROVE  IInv'
    BY <1>1, <1>2, <1>6, <2>1, QuietKeeps
  <2>2. ASSUME NEW h \in BOOLEAN, Does(w, Caught([r EXCEPT !.head = h])) PROVE IInv'
    BY <1>1, <1>2, <1>5, <2>2, QuietKeeps
  <2>3. CASE Does(w, Escaped(r))
    BY <1>1, <1>2, <1>4, <2>3, EscapedFine, QuietKeeps
  <2> QED
    BY <1>9, <2>1, <2>2, <2>3 DEF EndScript
<1> QED
  BY <1>7, <1>8, <1>9

LEMMA SaveKeeps ==
    ASSUME IInv, NEW w \in Workers, PutValue(w) \/ SetExpiry(w) \/ PutValueFails(w)
                                    \/ ConnectFails(w) \/ HandleFails(w)
    PROVE  IInv'
<1> DEFINE r == work[w]
<1>1. /\ r \in Request /\ Fit(holder, r) /\ Loaded(holder, store, r) /\ pool \in Pool /\ TypeOK
      /\ Backed(holder, store, refused, expired, r)
  BY RequestIs
<1>2. UNCHANGED <<holder, cookie, expired, refused>>
  BY DEF PutValue, SetExpiry, PutValueFails, ConnectFails, HandleFails
<1>3. ASSUME r.step \in {"set", "expire"}, NEW S, Loaded(holder, S, r)
      PROVE  Fine(holder, S, refused, expired, SaveThrows(r))
  BY <1>1, <1>3, SaveThrowsFine
<1>4. r.step = "expire" => holder = "redis"
  BY <1>1 DEF Fit
<1>5. CASE PutValue(w)
  <2>1. r.step = "set" /\ holder # "jwt" /\ pool' \in Pool
    BY <1>1, <1>5, HandleTypes DEF PutValue, At
  <2>2. CASE holder = "internal"
    <3>1. Does(w, AfterSet(r)) /\ store' = store
      BY <1>5, <2>2 DEF PutValue
    <3>2. Fine(holder, store, refused, expired, AfterSet(r))
      BY <1>1, <2>1, <2>2, AfterSetFine
    <3> QED
      BY <1>2, <2>1, <3>1, <3>2, QuietKeeps
  <2>3. CASE holder # "internal"
    <3> DEFINE b == ~r.handler
               t == [r EXCEPT !.saved = b]
    <3>1. Stores(w, AfterSet(t))
      BY <1>5, <2>3 DEF PutValue
    <3>2. b \in BOOLEAN /\ (~r.handler => b)
      OBVIOUS
    <3> HIDE DEF b
    <3>3. t \in Request
      BY <1>1, <3>2 DEF Request
    <3>4. /\ t.step = r.step /\ t.assigned = r.assigned /\ t.user = r.user /\ t.head = r.head
          /\ t.status = r.status /\ t.handler = r.handler /\ t.id = r.id /\ t.fresh = r.fresh
          /\ t.set_cookie = r.set_cookie /\ t.saved = b
      BY <1>1 DEF Request
    <3> HIDE DEF t
    <3>5. Fit(holder, t)
      BY <1>1, <3>4 DEF Fit
    <3>6. ASSUME NEW S, Loaded(holder, S, r), Kept(S, refused, r.id)
          PROVE  Fine(holder, S, refused, expired, AfterSet(t))
      <4>1. Loaded(holder, S, t)
        BY <3>4, <3>6, LoadedSame
      <4>2. Kept(S, refused, t.id) /\ (~t.handler => t.saved)
        BY <3>2, <3>4, <3>6
      <4> QED
        BY <1>1, <2>1, <3>3, <3>4, <3>5, <4>1, <4>2, AfterSetFine
    <3> QED
      BY <1>2, <2>1, <3>1, <3>6, StoringKeeps
  <2> QED
    BY <2>2, <2>3
<1>6. CASE SetExpiry(w)
  <2>1. r.step = "expire" /\ Does(w, Saved(r)) /\ UNCHANGED <<store, pool>>
    BY <1>6 DEF SetExpiry, At
  <2>2. Kept(store, refused, r.id) /\ (~r.handler => r.saved \/ r.id \in refused)
    BY <1>1, <2>1 DEF Backed
  <2>3. Fine(holder, store, refused, expired, Saved(r))
    BY <1>1, <1>4, <2>1, <2>2, SavedFine
  <2> QED
    BY <1>1, <1>2, <2>1, <2>3, QuietKeeps
<1>7. CASE PutValueFails(w)
  <2> DEFINE u == [r EXCEPT !.step = "set", !.attempts = @ - 1]
             t == IF MoreAttempts(r) THEN u ELSE SaveThrows(r)
  <2>1. r.step \in {"set", "expire"} /\ holder = "redis" /\ pool' = pool
    BY <1>4, <1>7 DEF PutValueFails, At
  <2>2. ASSUME NEW S, Loaded(holder, S, r) PROVE Fine(holder, S, refused, expired, t)
    <3>1. CASE MoreAttempts(r)
      BY <1>1, <2>1, <2>2, <3>1, RetryFine
    <3>2. CASE ~MoreAttempts(r)
      BY <1>3, <2>1, <2>2, <3>2
    <3> QED
      BY <3>1, <3>2
  <2> HIDE DEF t
  <2>3. CASE Does(w, t) /\ UNCHANGED store
    BY <1>1, <1>2, <2>1, <2>2, <2>3, QuietKeeps
  <2>4. CASE r.step = "set" /\ Stores(w, t)
    BY <1>1, <1>2, <2>1, <2>2, <2>4, StoringKeeps
  <2> QED
    BY <1>7, <2>3, <2>4, Zenon DEF PutValueFails, At, t
<1>8. ASSUME r.step \in {"get", "set"}, NEW S, Loaded(holder, S, r)
      PROVE  Fine(holder, S, refused, expired, IF At(w, "get") THEN Opens(r) ELSE SaveThrows(r))
  <2>1. CASE r.step = "get"
    BY <1>1, <1>8, <2>1, OpensFine DEF At
  <2>2. CASE r.step = "set"
    BY <1>3, <1>8, <2>2 DEF At
  <2> QED
    BY <1>8, <2>1, <2>2
<1>9. CASE ConnectFails(w)
  <2> DEFINE t == IF At(w, "get") THEN Opens(r) ELSE SaveThrows(r)
  <2>1. r.step \in {"get", "set"} /\ Does(w, t) /\ UNCHANGED <<store, pool>>
    BY <1>9, Zenon DEF ConnectFails, At
  <2>2. Fine(holder, store, refused, expired, t)
    BY <1>1, <1>8, <2>1
  <2> QED
    BY <1>1, <1>2, <2>1, <2>2, QuietKeeps
<1>10. CASE HandleFails(w)
  <2> DEFINE t == IF At(w, "get") THEN Opens(r) ELSE SaveThrows(r)
  <2>1. r.step \in {"get", "set"} /\ holder = "memcached"
    BY <1>10 DEF HandleFails, At
  <2>2. ASSUME NEW S, Loaded(holder, S, r) PROVE Fine(holder, S, refused, expired, t)
    BY <1>8, <2>1, <2>2
  <2> HIDE DEF t
  <2>3. CASE Does(w, t) /\ UNCHANGED <<store, pool>>
    BY <1>1, <1>2, <2>2, <2>3, QuietKeeps
  <2>4. ASSUME NEW h \in Handles(w) \ {"dead"},
               pool' = [live |-> IF h = "live" THEN pool.live - 1 ELSE pool.live,
                        dead |-> pool.dead + 1]
        PROVE  pool' \in Pool
    <3>1. pool.live \in Nat /\ pool.dead \in Nat /\ (h = "live" => pool.live > 0)
      BY <1>1, <2>4 DEF Pool, Handles
    <3>2. (IF h = "live" THEN pool.live - 1 ELSE pool.live) \in Nat /\ pool.dead + 1 \in Nat
      BY <3>1
    <3> QED
      BY <2>4, <3>2 DEF Pool
  <2>5. CASE pool' \in Pool /\ Does(w, t) /\ UNCHANGED store
    BY <1>1, <1>2, <2>2, <2>5, QuietKeeps
  <2>6. CASE pool' \in Pool /\ r.step = "set" /\ Stores(w, t)
    BY <1>1, <1>2, <2>1, <2>2, <2>6, StoringKeeps
  <2> QED
    BY <1>10, <2>3, <2>4, <2>5, <2>6, Zenon DEF HandleFails, At, t
<1> QED
  BY <1>5, <1>6, <1>7, <1>9, <1>10

LEMMA RefusedKeeps ==
    ASSUME IInv, NEW w \in Workers, PutValueRefused(w)
    PROVE  IInv'
<1> DEFINE r == work[w]
<1>1. /\ r \in Request /\ Fit(holder, r) /\ Loaded(holder, store, r) /\ TypeOK
      /\ Requests /\ StoredPlain /\ CookieStored
  BY RequestIs DEF IInv
<1>2. /\ r.step = "set" /\ holder = "redis" /\ Does(w, AfterSet(r))
      /\ refused' = refused \cup {r.id} /\ UNCHANGED <<holder, store, cookie, expired, pool>>
  BY DEF PutValueRefused, At
<1>3. r.id \in Ids
  BY <1>1, <1>2 DEF Fit, Request
<1>4. Fine(holder, store', refused', expired', AfterSet(r))
  <2>1. Kept(store, refused', r.id) /\ r.id \in refused'
    BY <1>2, <1>3 DEF Kept
  <2>2. Fine(holder, store, refused', expired, AfterSet(r))
    BY <1>1, <1>2, <2>1, AfterSetFine
  <2> QED
    BY <1>2, <2>2
<1>5. Requests' /\ work' \in [Workers -> Request]
  BY <1>1, <1>2, <1>4, Moves
<1>6. TypeOK'
  BY <1>1, <1>2, <1>3, <1>5 DEF TypeOK
<1>7. StoredPlain' /\ CookieStored'
  BY <1>1, <1>2 DEF StoredPlain, CookieStored
<1> QED
  BY <1>5, <1>6, <1>7 DEF IInv

\* A new id is one that nobody knows.
LEMMA UuidIs ==
    ASSUME Unknown # {}
    PROVE  /\ Uuid \in Ids /\ \A c \in Clients : cookie[c] # Uuid
           /\ \A w \in Workers : work[w].id # Uuid
<1>1. Uuid \in Unknown
  BY DEF Uuid
<1> QED
  BY <1>1 DEF Unknown

LEMMA TokenKeeps ==
    ASSUME IInv, NEW w \in Workers, SaveToken(w)
    PROVE  IInv'
<1> DEFINE r == work[w]
<1>1. /\ r \in Request /\ Fit(holder, r) /\ Loaded(holder, store, r) /\ TypeOK
      /\ Requests /\ StoredPlain /\ CookieStored /\ pool \in Pool
  BY RequestIs DEF IInv
<1>2. r.step = "set" /\ holder = "jwt" /\ UNCHANGED <<holder, cookie, pool, refused>>
  BY DEF SaveToken, At
<1>3. r.user # NoVars /\ r.user \in Context /\ r.set_cookie = "none"
  BY <1>1, <1>2 DEF Fit, Request
<1> DEFINE t == Sends(r)
<1>4. /\ t \in Request /\ t.step = "send" /\ t.id = r.id /\ t.user = NoVars /\ t.fresh = FALSE
      /\ t.set_cookie = "none"
  BY <1>1, <1>3, SendsIs
<1> HIDE DEF t
<1>5. CASE /\ Identical(r) /\ Does(w, [t EXCEPT !.saved = r.id \notin expired])
           /\ UNCHANGED <<store, expired>>
  <2> DEFINE b == r.id \notin expired
             u == [t EXCEPT !.saved = b]
  <2>1. b \in BOOLEAN /\ (b \/ r.id \in expired)
    OBVIOUS
  <2> HIDE DEF b
  <2>2. u \in Request
    BY <1>4, <2>1 DEF Request
  <2>3. /\ u.step = "send" /\ u.id = r.id /\ u.user = NoVars /\ u.fresh = FALSE
        /\ u.set_cookie = "none" /\ u.saved = b
    BY <1>4 DEF Request
  <2> HIDE DEF u
  <2>4. Fit(holder, u)
    BY <1>2, <2>3 DEF Fit
  <2>5. Backed(holder, store, refused, expired, u)
    BY <2>1, <2>3 DEF Backed
  <2>6. Loaded(holder, store, u)
    BY <2>3, NoVarsTypes DEF Loaded
  <2>7. Fine(holder, store, refused, expired, u)
    BY <2>2, <2>4, <2>5, <2>6 DEF Fine
  <2>8. Does(w, u)
    BY <1>5 DEF u, b
  <2> QED
    BY <1>1, <1>2, <1>5, <2>7, <2>8, QuietKeeps
<1>6. CASE /\ Unknown # {}
           /\ Does(w, [t EXCEPT !.saved = TRUE, !.id = Uuid, !.set_cookie = "session"])
           /\ store' = [store EXCEPT ![Uuid] = r.user]
           /\ expired' = expired \ {Uuid}
  <2> DEFINE u == [t EXCEPT !.saved = TRUE, !.id = Uuid, !.set_cookie = "session"]
  <2>1. /\ Uuid \in Ids /\ \A c \in Clients : cookie[c] # Uuid
        /\ \A v \in Workers : work[v].id # Uuid
    BY <1>6, UuidIs
  <2>2. u \in Request
    BY <1>4, <2>1 DEF Request
  <2>3. /\ u.step = "send" /\ u.id = Uuid /\ u.user = NoVars /\ u.fresh = FALSE
        /\ u.set_cookie = "session" /\ u.saved
    BY <1>4 DEF Request
  <2>4. Does(w, u)
    BY <1>6
  <2> HIDE DEF u
  <2>5. store' \in [Ids -> Context] /\ store'[Uuid] = r.user /\ \A i \in Ids \ {Uuid} : store'[i] = store[i]
    BY <1>1, <1>3, <1>6, <2>1 DEF TypeOK
  <2>6. Fit(holder, u)
    BY <1>2, <2>3 DEF Fit
  <2>7. Backed(holder, store', refused', expired', u)
    BY <1>3, <2>1, <2>3, <2>5 DEF Backed, Kept
  <2>8. Loaded(holder, store', u)
    BY <2>3, NoVarsTypes DEF Loaded
  <2>9. Fine(holder, store', refused', expired', u)
    BY <2>2, <2>6, <2>7, <2>8 DEF Fine
  <2>10. Requests' /\ work' \in [Workers -> Request]
    <3>1. \A v \in Workers \ {w} : work[v].id \in Ids =>
             /\ store'[work[v].id] = store[work[v].id]
             /\ work[v].id \in refused => work[v].id \in refused'
             /\ work[v].id \in expired => work[v].id \in expired'
      BY <1>2, <1>6, <2>1, <2>5
    <3> QED
      BY <1>1, <1>2, <2>4, <2>9, <3>1, Moves
  <2>11. TypeOK'
    BY <1>1, <1>2, <1>6, <2>5, <2>10 DEF TypeOK
  <2>12. StoredPlain'
    BY <1>2 DEF StoredPlain
  <2>13. CookieStored'
    BY <1>1, <1>2, <2>1, <2>5 DEF CookieStored, TypeOK
  <2> QED
    BY <2>10, <2>11, <2>12, <2>13 DEF IInv
<1> QED
  BY <1>5, <1>6 DEF SaveToken, t

LEMMA AcceptKeeps ==
    ASSUME IInv, NEW w \in Workers, Accept(w)
    PROVE  IInv'
<1>1. TypeOK /\ Requests /\ StoredPlain /\ CookieStored /\ pool \in Pool /\ holder \in Holders
  BY RequestIs DEF IInv
<1>2. UNCHANGED <<holder, cookie, expired, pool>>
  BY DEF Accept
<1>3. PICK c \in Clients :
        LET r == [Idle EXCEPT !.step = "get", !.client = c, !.attempts = Attempts]
        IN  \/ /\ cookie[c] # NoId
               /\ Does(w, [r EXCEPT !.id = cookie[c]])
               /\ UNCHANGED <<store, refused>>
            \/ /\ cookie[c] = NoId /\ holder = "jwt"
               /\ Does(w, [r EXCEPT !.is_new = TRUE])
               /\ UNCHANGED <<store, refused>>
            \/ /\ cookie[c] = NoId /\ holder # "jwt" /\ Unknown # {}
               /\ Does(w, [r EXCEPT !.id = Uuid, !.is_new = TRUE])
               /\ store' = [store EXCEPT ![Uuid] = NoVars]
               /\ refused' = refused \ {Uuid}
  BY Zenon DEF Accept
<1> DEFINE r == [Idle EXCEPT !.step = "get", !.client = c, !.attempts = Attempts]
<1>4. /\ r \in Request /\ r.step = "get" /\ r.id = NoId /\ r.user = NoVars /\ ~r.fresh
      /\ ~r.handler /\ r.assigned = {} /\ r.set_cookie = "none"
  <2>1. Idle \in Request
    BY StepTypes, Bounds, NoVarsTypes DEF Idle, Request, Statuses
  <2>2. r \in Request
    BY <2>1, StepTypes, Bounds DEF Request
  <2> QED
    BY <2>2 DEF Idle
<1> HIDE DEF r
<1>5. ASSUME NEW i \in Ids \cup {NoId}, NEW b \in BOOLEAN, holder # "jwt" => i # NoId,
             NEW S, NEW R, NEW E
      PROVE  Fine(holder, S, R, E, [r EXCEPT !.id = i, !.is_new = b])
  <2> DEFINE t == [r EXCEPT !.id = i, !.is_new = b]
  <2>1. t \in Request
    BY <1>4 DEF Request
  <2>2. /\ t.step = "get" /\ t.id = i /\ t.user = NoVars /\ t.fresh = r.fresh
        /\ t.handler = r.handler /\ t.assigned = {} /\ t.set_cookie = "none"
    BY <1>4 DEF Request
  <2> HIDE DEF t
  <2>3. Fit(holder, t)
    BY <1>4, <1>5, <2>2 DEF Fit
  <2>4. Backed(holder, S, R, E, t)
    BY <2>2 DEF Backed
  <2>5. Loaded(holder, S, t)
    BY <1>4, <2>2, NoVarsTypes DEF Loaded
  <2> QED
    BY <2>1, <2>3, <2>4, <2>5 DEF Fine, t
<1>6. CASE cookie[c] # NoId /\ Does(w, [r EXCEPT !.id = cookie[c]]) /\ UNCHANGED <<store, refused>>
  <2>1. cookie[c] \in Ids \cup {NoId}
    BY <1>1 DEF TypeOK
  <2>2. [r EXCEPT !.id = cookie[c]] = [r EXCEPT !.id = cookie[c], !.is_new = r.is_new]
    BY <1>4 DEF Request
  <2>3. r.is_new \in BOOLEAN
    BY <1>4 DEF Request
  <2>4. Fine(holder, store, refused, expired, [r EXCEPT !.id = cookie[c]])
    BY <1>5, <1>6, <2>1, <2>2, <2>3
  <2> QED
    BY <1>1, <1>2, <1>6, <2>4, QuietKeeps
<1>7. CASE holder = "jwt" /\ Does(w, [r EXCEPT !.is_new = TRUE]) /\ UNCHANGED <<store, refused>>
  <2>1. [r EXCEPT !.is_new = TRUE] = [r EXCEPT !.id = NoId, !.is_new = TRUE]
    BY <1>4 DEF Request
  <2>2. Fine(holder, store, refused, expired, [r EXCEPT !.is_new = TRUE])
    BY <1>5, <1>7, <2>1
  <2> QED
    BY <1>1, <1>2, <1>7, <2>2, QuietKeeps
<1>8. CASE /\ holder # "jwt" /\ Unknown # {}
           /\ Does(w, [r EXCEPT !.id = Uuid, !.is_new = TRUE])
           /\ store' = [store EXCEPT ![Uuid] = NoVars]
           /\ refused' = refused \ {Uuid}
  <2>1. /\ Uuid \in Ids /\ \A d \in Clients : cookie[d] # Uuid
        /\ \A v \in Workers : work[v].id # Uuid
    BY <1>8, UuidIs
  <2>2. Uuid # NoId
    BY <2>1, SessionAssumption
  <2>3. /\ store' \in [Ids -> Context] /\ store'[Uuid] = NoVars
        /\ \A i \in Ids \ {Uuid} : store'[i] = store[i]
    BY <1>1, <1>8, <2>1, NoVarsTypes DEF TypeOK
  <2>4. Fine(holder, store', refused', expired', [r EXCEPT !.id = Uuid, !.is_new = TRUE])
    BY <1>5, <2>1, <2>2
  <2>5. \A v \in Workers \ {w} : work[v].id \in Ids =>
             /\ store'[work[v].id] = store[work[v].id]
             /\ work[v].id \in refused => work[v].id \in refused'
             /\ work[v].id \in expired => work[v].id \in expired'
    BY <1>2, <1>8, <2>1, <2>3
  <2>6. Requests' /\ work' \in [Workers -> Request]
    BY <1>1, <1>2, <1>8, <2>4, <2>5, Moves
  <2>7. TypeOK'
    BY <1>1, <1>2, <1>8, <2>3, <2>6 DEF TypeOK
  <2>8. StoredPlain'
    BY <1>1, <1>2, <2>3, NoVarsTypes DEF StoredPlain
  <2>9. CookieStored'
    BY <1>1, <1>2, <1>8, <2>1, <2>3 DEF CookieStored, TypeOK
  <2> QED
    BY <2>6, <2>7, <2>8, <2>9 DEF IInv
<1> QED
  BY <1>3, <1>6, <1>7, <1>8, Zenon DEF r

LEMMA IdleFine == ASSUME NEW h, NEW S, NEW R, NEW E PROVE Fine(h, S, R, E, Idle)
<1>1. Idle \in Request
  BY StepTypes, Bounds, NoVarsTypes DEF Idle, Request, Statuses
<1>2. /\ Idle.step = "idle" /\ Idle.user = NoVars /\ Idle.fresh = FALSE
      /\ Idle.assigned = {} /\ Idle.set_cookie = "none"
  BY DEF Idle
<1>3. Fit(h, Idle)
  BY <1>2 DEF Fit
<1>4. Backed(h, S, R, E, Idle)
  BY <1>2 DEF Backed
<1>5. Loaded(h, S, Idle)
  BY <1>2, NoVarsTypes DEF Loaded
<1> QED
  BY <1>1, <1>3, <1>4, <1>5 DEF Fine

LEMMA SendKeeps ==
    ASSUME IInv, NEW w \in Workers, SendResponse(w)
    PROVE  IInv'
<1> DEFINE r == work[w]
<1>1. /\ r \in Request /\ Fit(holder, r) /\ TypeOK /\ Requests /\ StoredPlain /\ CookieStored
      /\ Backed(holder, store, refused, expired, r) /\ work \in [Workers -> Request]
  BY RequestIs DEF IInv
<1>2. /\ r.step = "send" /\ Does(w, Idle) /\ UNCHANGED <<holder, pool>>
      /\ cookie' = IF r.set_cookie = "none" THEN cookie
                   ELSE [cookie EXCEPT ![r.client] = r.id]
      /\ store' = [i \in Ids |-> IF i \in Unknown' THEN NoVars ELSE store[i]]
      /\ expired' = expired \ Unknown' /\ refused' = refused \ Unknown'
  BY DEF SendResponse, At
<1>3. cookie' \in [Clients -> Ids \cup {NoId}]
  BY <1>1, <1>2 DEF TypeOK, Request
<1>4. store' \in [Ids -> Context]
  BY <1>1, <1>2, NoVarsTypes DEF TypeOK
<1>5. \A i \in Ids : i \notin Unknown' =>
        store'[i] = store[i] /\ (i \in refused => i \in refused') /\ (i \in expired => i \in expired')
  BY <1>2
<1>6. \A v \in Workers \ {w} : work[v].id \in Ids => work[v].id \notin Unknown'
  <2>1. \A v \in Workers \ {w} : work'[v] = work[v]
    BY <1>1, <1>2 DEF Does
  <2> QED
    BY <2>1 DEF Unknown
<1>7. \A c \in Clients : cookie'[c] \notin Unknown'
  BY DEF Unknown
<1>8. Requests' /\ work' \in [Workers -> Request]
  BY <1>1, <1>2, <1>5, <1>6, IdleFine, Moves
<1>9. TypeOK'
  BY <1>1, <1>2, <1>3, <1>4, <1>8 DEF TypeOK
<1>10. StoredPlain'
  BY <1>1, <1>2, NoVarsTypes DEF StoredPlain
<1>11. CookieStored'
  <2> SUFFICES ASSUME holder # "internal", NEW c \in Clients, cookie'[c] # NoId
               PROVE  store'[cookie'[c]] # NoVars \/ cookie'[c] \in refused'
    BY <1>2 DEF CookieStored
  <2>1. cookie'[c] \in Ids
    BY <1>3
  <2>2. store[cookie'[c]] # NoVars \/ cookie'[c] \in refused
    <3>1. CASE cookie'[c] = cookie[c]
      BY <1>1, <3>1 DEF CookieStored
    <3>2. CASE cookie'[c] # cookie[c]
      <4>1. r.set_cookie # "none" /\ cookie'[c] = r.id
        BY <1>1, <1>2, <3>2 DEF TypeOK
      <4>2. r.set_cookie \in {"session", "clear"}
        BY <1>1, <4>1 DEF Request
      <4>3. r.set_cookie = "session"
        BY <1>1, <4>1, <4>2 DEF Fit
      <4>4. Kept(store, refused, r.id)
        BY <1>1, <1>2, <4>3 DEF Backed
      <4> QED
        BY <4>1, <4>4 DEF Kept
    <3> QED
      BY <3>1, <3>2
  <2> QED
    BY <1>5, <1>7, <2>1, <2>2
<1> QED
  BY <1>8, <1>9, <1>10, <1>11 DEF IInv

LEMMA ExpireKeeps == ASSUME IInv, Expire PROVE IInv'
<1>1. TypeOK /\ Requests /\ StoredPlain /\ CookieStored
  BY DEF IInv
<1>2. /\ UNCHANGED <<holder, work, store, cookie, pool, refused>>
      /\ expired \subseteq expired' /\ expired' \subseteq Ids
  BY <1>1 DEF Expire, TypeOK
<1>3. TypeOK' /\ StoredPlain' /\ CookieStored'
  BY <1>1, <1>2 DEF TypeOK, StoredPlain, CookieStored
<1>4. Requests'
  <2> SUFFICES ASSUME NEW w \in Workers
               PROVE  Fine(holder, store, refused, expired', work[w])
    BY <1>2 DEF Requests
  <2>1. Fine(holder, store, refused, expired, work[w])
    BY <1>1 DEF Requests
  <2>2. Backed(holder, store, refused, expired', work[w])
    BY <1>2, <2>1 DEF Fine, Backed
  <2> QED
    BY <2>1, <2>2 DEF Fine
<1> QED
  BY <1>3, <1>4 DEF IInv

--------------------------------------------------------------------------------
(* What a save leaves alone *)

\* A step is one of one worker; others only find their session stale.
LEMMA OneMoves ==
    ASSUME NEW v \in Workers, Accept(v) \/ Step(v)
    PROVE  \E r : Does(v, r) \/ Stores(v, r)
<1>1. CASE Accept(v)
  BY <1>1, Zenon DEF Accept
<1>2. CASE GetValue(v) \/ GetValueFails(v) \/ GetValueRefused(v) \/ TokenExpired(v)
  BY <1>2, Zenon DEF GetValue, GetValueFails, GetValueRefused, TokenExpired
<1>3. CASE GetApp(v) \/ Assign(v) \/ EndScript(v)
  BY <1>3, Zenon DEF GetApp, Assign, EndScript
<1>4. CASE PutValue(v) \/ PutValueRefused(v) \/ SetExpiry(v) \/ PutValueFails(v)
  BY <1>4, Zenon DEF PutValue, PutValueRefused, SetExpiry, PutValueFails
<1>5. CASE ConnectFails(v) \/ HandleFails(v) \/ SaveToken(v) \/ SendResponse(v)
  BY <1>5, Zenon DEF ConnectFails, HandleFails, SaveToken, SendResponse
<1> QED
  BY <1>1, <1>2, <1>3, <1>4, <1>5 DEF Step

LEMMA OthersStay ==
    ASSUME TypeOK, NEW v \in Workers, NEW r, Does(v, r) \/ Stores(v, r), NEW w \in Workers \ {v}
    PROVE  ~Acts(w)
<1>1. work \in [Workers -> Request] /\ work[w] \in Request
  BY DEF TypeOK
<1>2. work'[w] = work[w] \/ \E b : work'[w] = [work[w] EXCEPT !.fresh = b]
  <2>1. CASE Does(v, r)
    BY <1>1, <2>1 DEF Does
  <2>2. CASE Stores(v, r)
    <3>1. work'[w] = [work[w] EXCEPT !.fresh = work[w].fresh /\ work[w].id # work[v].id]
      BY <2>2 DEF Stores
    <3> QED
      BY <3>1, Zenon
  <2> QED
    BY <2>1, <2>2
<1>3. [work'[w] EXCEPT !.fresh = work[w].fresh] = work[w]
  BY <1>1, <1>2 DEF Request
<1> QED
  BY <1>3 DEF Acts

LEMMA SameId ==
    ASSUME NEW r \in Request, Fit(holder, r), r.step = "set"
    PROVE  /\ SaveThrows(r).id = r.id /\ AfterSet(r).id = r.id
           /\ \A n : [r EXCEPT !.step = "set", !.attempts = n].id = r.id
           /\ \A b \in BOOLEAN : AfterSet([r EXCEPT !.saved = b]).id = r.id
<1>1. ASSUME NEW t \in Request PROVE Sends(t).id = t.id
  BY <1>1, SendsIs
<1>2. ASSUME NEW t \in Request PROVE AfterSet(t).id = t.id
  <2>1. Sends(t) \in Request
    BY <1>2, SendsIs
  <2>2. Saved(t).id = Sends(t).id
    BY <2>1 DEF Saved, Request
  <2>3. [t EXCEPT !.step = "expire"].id = t.id
    BY <1>2 DEF Request
  <2> QED
    BY <1>1, <1>2, <2>2, <2>3 DEF AfterSet
<1>3. ASSUME NEW b \in BOOLEAN PROVE AfterSet([r EXCEPT !.saved = b]).id = r.id
  <2>1. [r EXCEPT !.saved = b] \in Request /\ [r EXCEPT !.saved = b].id = r.id
    BY DEF Request
  <2> QED
    BY <1>2, <2>1
<1>4. Escaped(r).id = r.id
  <2> DEFINE t == [r EXCEPT !.status = "error", !.set_cookie = "none"]
  <2>1. t \in Request /\ t.id = r.id
    BY DEF Request, Statuses
  <2> QED
    BY <1>1, <2>1 DEF Escaped
<1>5. Caught(r).id = r.id
  <2> DEFINE t == [r EXCEPT !.handler = TRUE, !.status = "error", !.saved = FALSE]
  <2>1. t \in Request /\ t.id = r.id /\ t.head = r.head /\ t.user = r.user
    BY DEF Request, Statuses
  <2>2. ~t.head /\ t.user # NoVars
    BY <2>1 DEF Fit
  <2> HIDE DEF t
  <2>3. InitResponse(t) = [t EXCEPT !.step = "set", !.attempts = Attempts]
    BY <2>2 DEF InitResponse
  <2>4. InitResponse(t).id = t.id
    BY <2>1, <2>3 DEF Request
  <2> QED
    BY <2>1, <2>4 DEF Caught, t
<1>6. \A n : [r EXCEPT !.step = "set", !.attempts = n].id = r.id
  BY DEF Request
<1> QED
  BY <1>2, <1>3, <1>4, <1>5, <1>6 DEF SaveThrows

LEMMA StoresApart ==
    ASSUME IInv, NEW w \in Workers, NEW r, Stores(w, r), r.id = work[w].id,
           holder \notin {"jwt", "internal"}, At(w, "set"), work[w].fresh
    PROVE  KeepsUntouched(w)
<1> DEFINE k == work[w].id
<1>1. /\ work[w] \in Request /\ Fit(holder, work[w]) /\ Loaded(holder, store, work[w])
      /\ store \in [Ids -> Context]
  BY RequestIs
<1>2. k \in Ids /\ k # NoId
  BY <1>1 DEF Fit, Request, At
<1>3. PICK s \in Written(work[w].user) : store' = [store EXCEPT ![k] = s]
  BY DEF Stores
<1>4. \A x \in Vars \ Touched(work[w]) : s[x] = work[w].user[x]
  <2>1. holder # "jwt"
    OBVIOUS
  <2>2. /\ \A x \in Vars \ Touched(work[w]) : s[x] = work[w].user[x]
        /\ Loaded(holder, [store EXCEPT ![work[w].id] = s], work[w])
    BY <1>1, <1>2, <2>1, WrittenLoaded
  <2> QED
    BY <2>2
<1>5. \A x \in Vars \ Touched(work[w]) : work[w].user[x] = store[k][x]
  BY <1>1, <1>2 DEF Loaded
<1>6. store'[k] = s /\ work'[w].id = k
  BY <1>1, <1>2, <1>3 DEF Stores
<1>7. Content(k) = store[k] /\ Content(work[w].id)' = s
  BY <1>2, <1>6 DEF Content
<1> QED
  BY <1>4, <1>5, <1>7 DEF KeepsUntouched

LEMMA QuietApart ==
    ASSUME TypeOK, NEW w \in Workers, NEW r, Does(w, r), r.id = work[w].id, store' = store
    PROVE  KeepsUntouched(w)
<1>1. work'[w] = r
  BY DEF Does, TypeOK
<1> QED
  BY <1>1 DEF KeepsUntouched, Content

LEMMA SaveApart ==
    ASSUME IInv, NEW w \in Workers, Step(w), At(w, "set"), work[w].fresh
    PROVE  KeepsUntouched(w)
<1> DEFINE r == work[w]
<1>1. /\ r \in Request /\ Fit(holder, r) /\ r.step = "set" /\ TypeOK
      /\ Loaded(holder, store, r) /\ store \in [Ids -> Context]
  BY RequestIs DEF At
<1>2. /\ SaveThrows(r).id = r.id /\ AfterSet(r).id = r.id
      /\ \A n : [r EXCEPT !.step = "set", !.attempts = n].id = r.id
      /\ \A b \in BOOLEAN : AfterSet([r EXCEPT !.saved = b]).id = r.id
  BY <1>1, SameId
<1>3. CASE PutValue(w)
  <2>1. CASE holder = "internal"
    BY <1>1, <1>2, <1>3, <2>1, QuietApart DEF PutValue
  <2>2. CASE holder # "internal"
    <3>1. (~r.handler) \in BOOLEAN
      OBVIOUS
    <3>2. Stores(w, AfterSet([r EXCEPT !.saved = ~r.handler])) /\ holder # "jwt"
      BY <1>3, <2>2, Zenon DEF PutValue
    <3>3. AfterSet([r EXCEPT !.saved = ~r.handler]).id = r.id
      BY <1>2, <3>1
    <3> QED
      BY <1>1, <2>2, <3>2, <3>3, StoresApart
  <2> QED
    BY <2>1, <2>2
<1>4. CASE PutValueRefused(w)
  BY <1>1, <1>2, <1>4, QuietApart DEF PutValueRefused
<1>5. CASE PutValueFails(w)
  <2> DEFINE t == IF MoreAttempts(r) THEN [r EXCEPT !.step = "set", !.attempts = @ - 1]
                                     ELSE SaveThrows(r)
  <2>1. t.id = r.id
    BY <1>2
  <2> HIDE DEF t
  <2>2. holder = "redis" /\ ((Does(w, t) /\ store' = store) \/ Stores(w, t))
    BY <1>1, <1>5, Zenon DEF PutValueFails, t, At
  <2> QED
    BY <1>1, <2>1, <2>2, QuietApart, StoresApart
<1>6. CASE ConnectFails(w)
  <2>1. Does(w, SaveThrows(r)) /\ store' = store
    BY <1>1, <1>6 DEF ConnectFails, At
  <2> QED
    BY <1>1, <1>2, <2>1, QuietApart
<1>7. CASE HandleFails(w)
  <2> DEFINE t == IF At(w, "get") THEN Opens(r) ELSE SaveThrows(r)
  <2>1. t.id = r.id
    BY <1>1, <1>2 DEF At
  <2> HIDE DEF t
  <2>2. holder = "memcached" /\ ((Does(w, t) /\ store' = store) \/ Stores(w, t))
    BY <1>7, Zenon DEF HandleFails, t
  <2> QED
    BY <1>1, <2>1, <2>2, QuietApart, StoresApart
<1>8. CASE SaveToken(w)
  <2> DEFINE t == Sends(r)
  <2>1. t \in Request /\ t.id = r.id
    BY <1>1, SendsIs
  <2> HIDE DEF t
  <2>2. CASE Does(w, [t EXCEPT !.saved = r.id \notin expired]) /\ store' = store
    <3>1. [t EXCEPT !.saved = r.id \notin expired].id = r.id
      BY <2>1 DEF Request
    <3> QED
      BY <1>1, <2>2, <3>1, QuietApart
  <2>3. CASE /\ Unknown # {}
             /\ Does(w, [t EXCEPT !.saved = TRUE, !.id = Uuid, !.set_cookie = "session"])
             /\ store' = [store EXCEPT ![Uuid] = r.user]
    <3> DEFINE u == [t EXCEPT !.saved = TRUE, !.id = Uuid, !.set_cookie = "session"]
    <3>1. Uuid \in Ids /\ Uuid # NoId
      BY <2>3, UuidIs, SessionAssumption
    <3>2. u.id = Uuid
      BY <2>1 DEF Request
    <3>3. work'[w] = u
      BY <1>1, <2>3 DEF Does, TypeOK
    <3> HIDE DEF u
    <3>4. Content(work[w].id)' = r.user
      BY <1>1, <2>3, <3>1, <3>2, <3>3 DEF Content
    <3>5. \A x \in Vars \ Touched(r) : r.user[x] = Content(r.id)[x]
      <4>1. holder = "jwt"
        BY <1>8 DEF SaveToken
      <4>2. \A x \in Vars \ Touched(r) : r.user[x] = IF r.id = NoId THEN NoValue ELSE store[r.id][x]
        BY <1>1, <4>1 DEF Loaded
      <4>3. \A x \in Vars : Content(r.id)[x] = IF r.id = NoId THEN NoValue ELSE store[r.id][x]
        BY DEF Content, NoVars
      <4> QED
        BY <4>2, <4>3
    <3> QED
      BY <3>4, <3>5 DEF KeepsUntouched
  <2> QED
    BY <1>8, <2>2, <2>3, Zenon DEF SaveToken, t
<1>9. ~(GetValue(w) \/ GetValueFails(w) \/ GetValueRefused(w) \/ TokenExpired(w) \/ GetApp(w)
        \/ Assign(w) \/ EndScript(w) \/ SetExpiry(w) \/ SendResponse(w))
  BY <1>1 DEF GetValue, GetValueFails, GetValueRefused, TokenExpired, GetApp, Assign,
     EndScript, SetExpiry, SendResponse, At
<1> QED
  BY <1>3, <1>4, <1>5, <1>6, <1>7, <1>8, <1>9 DEF Step

--------------------------------------------------------------------------------
(* Theorems *)

LEMMA Starts == Init => IInv
<1> SUFFICES ASSUME Init PROVE IInv
  OBVIOUS
<1>1. Idle \in Request
  BY IdleFine DEF Fine
<1>2. TypeOK
  BY <1>1, NoVarsTypes DEF Init, TypeOK
<1>3. Requests
  BY IdleFine DEF Init, Requests
<1>4. StoredPlain
  BY NoVarsTypes DEF Init, StoredPlain
<1>5. CookieStored
  BY DEF Init, CookieStored
<1> QED
  BY <1>2, <1>3, <1>4, <1>5 DEF IInv

LEMMA Inductive == IInv /\ [Next]_vars => IInv'
<1> SUFFICES ASSUME IInv, [Next]_vars PROVE IInv'
  OBVIOUS
<1>1. CASE Expire
  BY <1>1, ExpireKeeps
<1>2. ASSUME NEW w \in Workers, Accept(w) PROVE IInv'
  BY <1>2, AcceptKeeps
<1>3. ASSUME NEW w \in Workers, Step(w) PROVE IInv'
  BY <1>3, LoadKeeps, ScriptKeeps, SaveKeeps, RefusedKeeps, TokenKeeps, SendKeeps DEF Step
<1>4. CASE UNCHANGED vars
  <2>1. UNCHANGED <<holder, work, store, cookie, expired, pool, refused>>
    BY <1>4 DEF vars
  <2> QED
    BY <2>1 DEF IInv, TypeOK, Requests, StoredPlain, CookieStored
<1> QED
  BY <1>1, <1>2, <1>3, <1>4 DEF Next

\* What holds of the workers, the store and the cookies at every moment.
THEOREM Invariance == Spec => []IInv
BY Starts, Inductive, PTL DEF Spec

\* The requests, the store, the cookies and the pool of handles have their types; the
\* attempts of mod_session_redis do not run below zero, nor does the pool.
THEOREM TypeCorrect == Spec => []TypeOK
<1>1. IInv => TypeOK
  BY DEF IInv
<1> QED
  BY <1>1, Invariance, PTL

\* A normal answer to a script that has assigned variables means that they are stored,
\* for every holder but the built-in one, any number of workers and clients and any
\* faults of the server, unless Redis has refused the SET or the token has expired.
THEOREM AnswersSaved == Spec => []AnswerMeansSaved
<1>1. IInv => AnswerMeansSaved
  BY DEF IInv, AnswerMeansSaved, Requests, Fine, Backed, At
<1> QED
  BY <1>1, Invariance, PTL

\* A client never holds the cookie of a session that was not stored.
THEOREM CookiesStored == Spec => []CookieStored
<1>1. IInv => CookieStored
  BY DEF IInv
<1> QED
  BY <1>1, Invariance, PTL

\* A request that could load its session, and whose session no other has stored
\* since, takes no variable from the client that its script has not touched, however
\* often put_value is tried and whatever the handlers save again.
THEOREM UntouchedKept == Spec => LoadedSessionKept
<1> DEFINE Kind == \A w \in Workers : At(w, "set") /\ Acts(w) /\ work[w].fresh => KeepsUntouched(w)
<1>1. ASSUME IInv, [Next]_vars PROVE [Kind]_vars
  <2>1. CASE UNCHANGED vars
    BY <2>1
  <2>2. CASE Next
    <3> SUFFICES ASSUME NEW w \in Workers, At(w, "set"), Acts(w), work[w].fresh
                 PROVE  KeepsUntouched(w)
      OBVIOUS
    <3>1. TypeOK /\ work[w] \in Request
      BY <1>1, RequestIs
    <3>2. ~Expire
      <4>1. work' = work => ~Acts(w)
        BY <3>1, SameFresh DEF Acts
      <4> QED
        BY <4>1 DEF Expire
    <3>3. PICK v \in Workers : Accept(v) \/ Step(v)
      BY <2>2, <3>2 DEF Next
    <3>4. v = w
      BY <3>1, <3>3, OneMoves, OthersStay
    <3>5. ~Accept(w)
      BY DEF Accept, At
    <3> QED
      BY <1>1, <3>3, <3>4, <3>5, SaveApart
  <2> QED
    BY <1>1, <2>1, <2>2
<1>2. [][Kind]_vars => LoadedSessionKept
  BY DEF LoadedSessionKept
<1> HIDE DEF Kind
<1> QED
  BY <1>1, <1>2, Invariance, PTL DEF Spec

==================================================================================
