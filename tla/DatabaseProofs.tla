----------------------------- MODULE DatabaseProofs -----------------------------
(***************************************************************************)
(* Theorems about leased connections, transactions and repeated updates    *)
(* for any number of workers, data sources and connections, and for any    *)
(* scripts.                                                                *)
(***************************************************************************)
EXTENDS Database, Induction, SequenceTheorems, FiniteSetTheorems, TLAPS

--------------------------------------------------------------------------------
(* The inductive invariant *)

LastConn(s) == Last(s).conn
Kind(s, i, kind) == i \in DOMAIN s /\ s[i].kind = kind

\* The tags of stack s are tags of script t.
Opened(t, s) == \A i \in DOMAIN s : s[i].at \in DOMAIN t /\ t[s[i].at].op # "end"

\* What the mode tells of the stack.
Placed(s, m) ==
    /\ m = "idle" => s = <<>>
    /\ m = "connect" => s # <<>> /\ Kind(s, Len(s), "database")

\* Worker w leases the connections of its database tags from the objects C, each
\* tag its own, and only the innermost tag may be without a handle.
Leases(C, w, s, m) == \A i \in DOMAIN s : s[i].kind = "database" =>
    /\ s[i].conn \in Conns /\ s[i].tries # 0
    /\ C[s[i].conn].owner = w /\ C[s[i].conn].id = s[i].id
    /\ m = "run" \/ i < Len(s) => C[s[i].conn].state # "closed"
    /\ \A j \in DOMAIN s : Kind(s, j, "database") /\ s[j].conn = s[i].conn => i = j

\* What the server of connection r has of the transaction tag at i: when no
\* statement of it has failed, its transaction, unless the server is gone; a tag
\* around another one on the same connection has failed; and what has been done
\* is what the innermost tag did.
Inner(s, i) ==
    {j \in DOMAIN s : s[j].kind = "transaction" /\ s[j].conn = s[i].conn /\ i < j}
Whole(r, s, i) ==
    /\ ~s[i].failed => r.tx = IF r.state = "open" THEN "open" ELSE "aborted"
    /\ Inner(s, i) # {} => s[i].failed
    /\ Inner(s, i) = {} /\ r.tx = "open" => r.pending = s[i].done

Transactions(C, s) == \A i \in DOMAIN s : s[i].kind = "transaction" =>
    /\ \E j \in DOMAIN s : Kind(s, j, "database") /\ s[j].conn = s[i].conn /\ j < i
    /\ Whole(C[s[i].conn], s, i)

\* No transaction without its tag.
Tagged(C, w, s) == \A c \in Conns : C[c].owner = w /\ C[c].tx # "none" =>
    \E i \in DOMAIN s : s[i].kind = "transaction" /\ s[i].conn = c

Held(C, w, s, m) ==
    Placed(s, m) /\ Leases(C, w, s, m) /\ Transactions(C, s) /\ Tagged(C, w, s)

Clean(r) ==
    /\ r.id = NoId => r.owner = NoWorker
    /\ r.owner = NoWorker => r.tx = "none"
    /\ r.tx # "open" => r.pending = {}

Sound(C, w, r) == Opened(r.script, r.stack) /\ Held(C, w, r.stack, r.mode)

IInv ==
    /\ TypeOK
    /\ \A w \in Workers : Sound(conn, w, run[w])
    /\ \A c \in Conns : Clean(conn[c])

--------------------------------------------------------------------------------
(* Stacks *)

LEMMA Appended ==
    ASSUME NEW S, NEW s \in Seq(S), NEW f \in S
    PROVE  /\ Append(s, f) \in Seq(S) /\ Len(s) \in Nat /\ Len(Append(s, f)) = Len(s) + 1
           /\ DOMAIN s = 1..Len(s) /\ DOMAIN Append(s, f) = 1..(Len(s) + 1)
           /\ \A i \in 1..Len(s) : Append(s, f)[i] = s[i]
           /\ Append(s, f)[Len(s) + 1] = f
<1>1. /\ Append(s, f) \in Seq(S) /\ Len(Append(s, f)) = Len(s) + 1
      /\ \A i \in 1..Len(s) : Append(s, f)[i] = s[i]
      /\ Append(s, f)[Len(s) + 1] = f
  BY AppendProperties
<1>2. Len(s) \in Nat /\ DOMAIN s = 1..Len(s)
  BY LenProperties
<1> QED
  BY <1>1, <1>2, LenProperties

LEMMA FunctionSeq ==
    ASSUME NEW S, NEW n \in Nat, NEW f \in [1..n -> S]
    PROVE  f \in Seq(S) /\ Len(f) = n
OBVIOUS

LEMMA Shortened ==
    ASSUME NEW S, NEW s \in Seq(S), s # <<>>
    PROVE  /\ Front(s) \in Seq(S) /\ Len(s) \in Nat \ {0} /\ Len(Front(s)) = Len(s) - 1
           /\ DOMAIN s = 1..Len(s) /\ DOMAIN Front(s) = 1..(Len(s) - 1)
           /\ \A i \in 1..(Len(s) - 1) : Front(s)[i] = s[i]
           /\ Last(s) = s[Len(s)] /\ Last(s) \in S
<1>1. Len(s) \in Nat \ {0} /\ DOMAIN s = 1..Len(s)
  BY EmptySeq, LenProperties
<1>2. \A i \in 1..(Len(s) - 1) : s[i] \in S
  BY <1>1, ElementOfSeq
<1>3. /\ SubSeq(s, 1, Len(s) - 1) \in Seq(S)
      /\ Len(SubSeq(s, 1, Len(s) - 1)) = Len(s) - 1
      /\ \A i \in 1..(Len(s) - 1) : SubSeq(s, 1, Len(s) - 1)[i] = s[1 + i - 1]
  BY <1>1, SubSeqProperties
<1>4. \A i \in 1..(Len(s) - 1) : Front(s)[i] = s[i]
  BY <1>1, <1>3 DEF Front
<1>5. DOMAIN Front(s) = 1..(Len(s) - 1)
  BY <1>3, LenProperties DEF Front
<1>6. Last(s) = s[Len(s)] /\ Last(s) \in S
  BY <1>1, ElementOfSeq DEF Last
<1> QED
  BY <1>1, <1>3, <1>4, <1>5, <1>6 DEF Front

--------------------------------------------------------------------------------
(* What a step of one worker does to its own leases *)

\* The tags of another worker are on other connections.
LEMMA OthersHeld ==
    ASSUME NEW C \in [Conns -> Conn], NEW D \in [Conns -> Conn],
           NEW v \in Workers, NEW s \in Seq(Frame), NEW m \in Modes, Held(C, v, s, m),
           \A c \in Conns : D[c] = C[c] \/ (C[c].owner # v /\ D[c].owner # v)
    PROVE  Held(D, v, s, m)
<1>1. Leases(D, v, s, m)
  BY DEF Held, Leases
<1>2. \A i \in DOMAIN s : s[i].kind = "transaction" => D[s[i].conn] = C[s[i].conn]
  BY DEF Held, Leases, Transactions, Kind
<1>3. Transactions(D, s)
  BY <1>2, Zenon DEF Held, Transactions
<1>4. Tagged(D, v, s)
  BY DEF Held, Tagged
<1> QED
  BY <1>1, <1>3, <1>4 DEF Held

LEMMA PushPlain ==
    ASSUME NEW C \in [Conns -> Conn], NEW w \in Workers, NEW s \in Seq(Frame),
           NEW f \in Frame, Held(C, w, s, "run"),
           f.kind \in {"try", "nested", "query"}
    PROVE  Held(C, w, Append(s, f), "run")
<1> DEFINE t == Append(s, f)
<1>1. /\ Len(s) \in Nat /\ Len(t) = Len(s) + 1
      /\ DOMAIN s = 1..Len(s) /\ DOMAIN t = 1..(Len(s) + 1)
      /\ (\A i \in 1..Len(s) : t[i] = s[i]) /\ t[Len(s) + 1] = f
  BY Appended
<1> HIDE DEF t
<1>2. Leases(C, w, t, "run")
  BY <1>1 DEF Held, Leases, Kind
<1>3. \A i \in DOMAIN s : Inner(t, i) = Inner(s, i)
  BY <1>1 DEF Inner
<1>4. ASSUME NEW i \in DOMAIN t, t[i].kind = "transaction"
      PROVE  /\ \E j \in DOMAIN t : Kind(t, j, "database") /\ t[j].conn = t[i].conn /\ j < i
             /\ Whole(C[t[i].conn], t, i)
  <2>1. i \in DOMAIN s /\ t[i] = s[i]
    BY <1>1, <1>4
  <2>2. PICK j \in DOMAIN s : Kind(s, j, "database") /\ s[j].conn = s[i].conn /\ j < i
    BY <1>4, <2>1 DEF Held, Transactions
  <2>3. Kind(t, j, "database") /\ t[j].conn = t[i].conn
    BY <1>1, <2>1, <2>2 DEF Kind
  <2>4. Whole(C[s[i].conn], s, i)
    BY <1>4, <2>1 DEF Held, Transactions
  <2>5. Whole(C[t[i].conn], t, i)
    BY <1>3, <2>1, <2>4 DEF Whole
  <2> QED
    BY <1>1, <2>2, <2>3, <2>5
<1>5. Transactions(C, t)
  BY <1>4 DEF Transactions
<1>6. Tagged(C, w, t)
  BY <1>1 DEF Held, Tagged
<1> QED
  BY <1>2, <1>5, <1>6 DEF Held, Placed, t

LEMMA PopPlain ==
    ASSUME NEW C \in [Conns -> Conn], NEW w \in Workers, NEW s \in Seq(Frame), s # <<>>,
           NEW m \in Modes, Held(C, w, s, m),
           Last(s).kind \in {"try", "nested", "query"}, NEW n \in {"run", "error", "broken"}
    PROVE  Held(C, w, Front(s), n)
<1> DEFINE t == Front(s)
<1>1. /\ Len(s) \in Nat \ {0} /\ Len(t) = Len(s) - 1
      /\ DOMAIN s = 1..Len(s) /\ DOMAIN t = 1..(Len(s) - 1)
      /\ (\A i \in 1..(Len(s) - 1) : t[i] = s[i]) /\ Last(s) = s[Len(s)]
  BY Shortened
<1> HIDE DEF t
<1>2. Leases(C, w, t, n)
  BY <1>1 DEF Held, Leases, Kind
<1>3. \A i \in DOMAIN t : Inner(t, i) = Inner(s, i)
  BY <1>1 DEF Inner
<1>4. ASSUME NEW i \in DOMAIN t, t[i].kind = "transaction"
      PROVE  /\ \E j \in DOMAIN t : Kind(t, j, "database") /\ t[j].conn = t[i].conn /\ j < i
             /\ Whole(C[t[i].conn], t, i)
  <2>1. i \in DOMAIN s /\ t[i] = s[i]
    BY <1>1, <1>4
  <2>2. PICK j \in DOMAIN s : Kind(s, j, "database") /\ s[j].conn = s[i].conn /\ j < i
    BY <1>4, <2>1 DEF Held, Transactions
  <2>3. j \in DOMAIN t /\ Kind(t, j, "database") /\ t[j].conn = t[i].conn
    BY <1>1, <2>1, <2>2 DEF Kind
  <2>4. Whole(C[s[i].conn], s, i)
    BY <1>4, <2>1 DEF Held, Transactions
  <2>5. Whole(C[t[i].conn], t, i)
    BY <1>3, <2>1, <2>4 DEF Whole
  <2> QED
    BY <2>2, <2>3, <2>5
<1>5. Transactions(C, t)
  BY <1>4 DEF Transactions
<1>6. Tagged(C, w, t)
  <2> SUFFICES ASSUME NEW c \in Conns, C[c].owner = w, C[c].tx # "none"
               PROVE  \E i \in DOMAIN t : t[i].kind = "transaction" /\ t[i].conn = c
    BY DEF Tagged
  <2>1. PICK i \in DOMAIN s : s[i].kind = "transaction" /\ s[i].conn = c
    BY DEF Held, Tagged
  <2>2. i \in DOMAIN t /\ t[i] = s[i]
    BY <1>1, <2>1
  <2> QED
    BY <2>1, <2>2
<1> QED
  BY <1>2, <1>5, <1>6 DEF Held, Placed, t

LEMMA PushDatabase ==
    ASSUME NEW C \in [Conns -> Conn], NEW D \in [Conns -> Conn],
           NEW w \in Workers, NEW s \in Seq(Frame), NEW f \in Frame,
           NEW c \in Conns, Held(C, w, s, "run"), f.kind = "database", f.conn = c,
           f.tries # 0, C[c].owner = NoWorker, C[c].tx = "none",
           D[c].owner = w, D[c].id = f.id, D[c].tx = "none",
           \A d \in Conns : d # c => D[d] = C[d]
    PROVE  Held(D, w, Append(s, f), "connect")
<1> DEFINE t == Append(s, f)
<1>1. /\ Len(s) \in Nat /\ Len(t) = Len(s) + 1 /\ t # <<>>
      /\ DOMAIN s = 1..Len(s) /\ DOMAIN t = 1..(Len(s) + 1)
      /\ (\A i \in 1..Len(s) : t[i] = s[i]) /\ t[Len(s) + 1] = f
  BY Appended, EmptySeq
<1> HIDE DEF t
<1>2. NoWorker \notin Workers
  BY DatabaseAssumption
<1>3. \A i \in DOMAIN s : s[i].kind = "database" =>
          s[i].conn \in Conns /\ s[i].conn # c /\ D[s[i].conn] = C[s[i].conn]
  BY <1>2 DEF Held, Leases
<1>4. Leases(D, w, t, "connect")
  BY <1>1, <1>3, SMTT(30) DEF Held, Leases, Kind
<1>5. \A i \in DOMAIN s : Inner(t, i) = Inner(s, i)
  BY <1>1 DEF Inner
<1>6. ASSUME NEW i \in DOMAIN t, t[i].kind = "transaction"
      PROVE  /\ \E j \in DOMAIN t : Kind(t, j, "database") /\ t[j].conn = t[i].conn /\ j < i
             /\ Whole(D[t[i].conn], t, i)
  <2>1. i \in DOMAIN s /\ t[i] = s[i]
    BY <1>1, <1>6
  <2>2. PICK j \in DOMAIN s : Kind(s, j, "database") /\ s[j].conn = s[i].conn /\ j < i
    BY <1>6, <2>1 DEF Held, Transactions
  <2>3. Kind(t, j, "database") /\ t[j].conn = t[i].conn /\ j \in DOMAIN t
    BY <1>1, <2>1, <2>2 DEF Kind
  <2>4. D[s[i].conn] = C[s[i].conn]
    BY <1>3, <2>2 DEF Kind
  <2>5. Whole(C[s[i].conn], s, i)
    BY <1>6, <2>1 DEF Held, Transactions
  <2>6. Whole(D[t[i].conn], t, i)
    BY <1>5, <2>1, <2>4, <2>5 DEF Whole
  <2> QED
    BY <2>2, <2>3, <2>6
<1>7. Transactions(D, t)
  BY <1>6 DEF Transactions
<1>8. Tagged(D, w, t)
  BY <1>1 DEF Held, Tagged
<1>9. Placed(t, "connect")
  BY <1>1 DEF Placed, Kind
<1> QED
  BY <1>4, <1>7, <1>8, <1>9 DEF Held, t

\* When the innermost tag is a database tag, nothing else is on its connection.
LEMMA TopDatabase ==
    ASSUME NEW C \in [Conns -> Conn], NEW w \in Workers, NEW s \in Seq(Frame), s # <<>>,
           NEW m \in Modes, Held(C, w, s, m),
           Last(s).kind = "database"
    PROVE  /\ LastConn(s) \in Conns /\ C[LastConn(s)].owner = w
           /\ C[LastConn(s)].tx = "none" /\ C[LastConn(s)].id = Last(s).id
           /\ Last(s).tries # 0
           /\ \A i \in DOMAIN s : s[i].kind = "transaction" => s[i].conn # LastConn(s)
           /\ \A i \in DOMAIN s : s[i].kind = "database" /\ s[i].conn = LastConn(s) => i = Len(s)
<1> USE DEF LastConn
<1> DEFINE c == LastConn(s)
<1>1. /\ Len(s) \in Nat \ {0} /\ DOMAIN s = 1..Len(s) /\ Last(s) = s[Len(s)]
  BY Shortened
<1>2. /\ c \in Conns /\ C[c].owner = w /\ C[c].id = Last(s).id /\ Last(s).tries # 0
      /\ \A i \in DOMAIN s : s[i].kind = "database" /\ s[i].conn = c => i = Len(s)
  BY <1>1 DEF Held, Leases, Kind
<1>3. ASSUME NEW i \in DOMAIN s, s[i].kind = "transaction", s[i].conn = c PROVE FALSE
  <2>1. PICK j \in DOMAIN s : Kind(s, j, "database") /\ s[j].conn = c /\ j < i
    BY <1>3 DEF Held, Transactions
  <2> QED
    BY <1>1, <1>2, <2>1 DEF Kind
<1>4. C[c].tx = "none"
  BY <1>2, <1>3 DEF Held, Tagged
<1> QED
  BY <1>2, <1>3, <1>4

\* The innermost tag is a database tag that goes on with the same connection.
Stays(C, D, s, t, n) ==
    /\ Len(t) = Len(s) /\ \A i \in DOMAIN s : i # Len(s) => t[i] = s[i]
    /\ t[Len(s)].kind = "database" /\ t[Len(s)].conn = LastConn(s)
    /\ t[Len(s)].id = s[Len(s)].id /\ t[Len(s)].tries # 0
    /\ D[LastConn(s)].owner = C[LastConn(s)].owner /\ D[LastConn(s)].id = C[LastConn(s)].id
    /\ D[LastConn(s)].tx = "none"
    /\ \A d \in Conns : d # LastConn(s) => D[d] = C[d]
    /\ n = "run" => D[LastConn(s)].state # "closed"

LEMMA StayDatabase ==
    ASSUME NEW C \in [Conns -> Conn], NEW D \in [Conns -> Conn],
           NEW w \in Workers, NEW s \in Seq(Frame), s # <<>>, NEW m \in Modes, Held(C, w, s, m),
           Last(s).kind = "database", NEW t \in Seq(Frame),
           NEW n \in {"run", "connect", "error", "broken"}, Stays(C, D, s, t, n)
    PROVE  Held(D, w, t, n)
<1> USE DEF Stays
<1> USE DEF LastConn
<1> DEFINE c == LastConn(s)
<1>1. /\ Len(s) \in Nat \ {0} /\ DOMAIN s = 1..Len(s) /\ Last(s) = s[Len(s)]
      /\ DOMAIN t = 1..Len(s) /\ t # <<>>
  BY Shortened, LenProperties, EmptySeq
<1>2. /\ c \in Conns /\ C[c].owner = w /\ C[c].tx = "none" /\ C[c].id = Last(s).id
      /\ \A i \in DOMAIN s : s[i].kind = "transaction" => s[i].conn # c
      /\ \A i \in DOMAIN s : s[i].kind = "database" /\ s[i].conn = c => i = Len(s)
  BY TopDatabase
<1>3. \A i \in DOMAIN s : s[i].kind = "database" /\ i # Len(s) =>
          s[i].conn \in Conns /\ s[i].conn # c /\ D[s[i].conn] = C[s[i].conn]
  BY <1>2 DEF Held, Leases
<1>4. Leases(D, w, t, n)
  BY <1>1, <1>2, <1>3 DEF Held, Leases, Kind
<1>5. \A i \in DOMAIN s : s[i].kind = "transaction" => Inner(t, i) = Inner(s, i)
  BY <1>1 DEF Inner
<1>6. ASSUME NEW i \in DOMAIN t, t[i].kind = "transaction"
      PROVE  /\ \E j \in DOMAIN t : Kind(t, j, "database") /\ t[j].conn = t[i].conn /\ j < i
             /\ Whole(D[t[i].conn], t, i)
  <2>1. i \in DOMAIN s /\ t[i] = s[i] /\ i # Len(s)
    BY <1>1, <1>6
  <2>2. PICK j \in DOMAIN s : Kind(s, j, "database") /\ s[j].conn = s[i].conn /\ j < i
    BY <1>6, <2>1 DEF Held, Transactions
  <2>3. Kind(t, j, "database") /\ t[j].conn = t[i].conn /\ j \in DOMAIN t /\ j # Len(s)
    BY <1>1, <2>1, <2>2 DEF Kind
  <2>4. D[s[i].conn] = C[s[i].conn]
    BY <1>3, <2>2, <2>3 DEF Kind
  <2>5. Whole(C[s[i].conn], s, i)
    BY <1>6, <2>1 DEF Held, Transactions
  <2>6. Whole(D[t[i].conn], t, i)
    BY <1>5, <1>6, <2>1, <2>4, <2>5 DEF Whole
  <2> QED
    BY <2>2, <2>3, <2>6
<1>7. Transactions(D, t)
  BY <1>6 DEF Transactions
<1>8. Tagged(D, w, t)
  BY <1>1, <1>2 DEF Held, Tagged
<1>9. Placed(t, n)
  BY <1>1 DEF Placed, Kind
<1> QED
  BY <1>4, <1>7, <1>8, <1>9 DEF Held

LEMMA PopDatabase ==
    ASSUME NEW C \in [Conns -> Conn], NEW D \in [Conns -> Conn],
           NEW w \in Workers, NEW s \in Seq(Frame), s # <<>>, NEW m \in Modes, Held(C, w, s, m),
           Last(s).kind = "database",
           D[LastConn(s)].owner # w, \A d \in Conns : d # LastConn(s) => D[d] = C[d],
           NEW n \in {"run", "error", "broken"}
    PROVE  Held(D, w, Front(s), n)
<1> USE DEF LastConn
<1> DEFINE c == LastConn(s)
<1> DEFINE t == Front(s)
<1>1. /\ Len(s) \in Nat \ {0} /\ Len(t) = Len(s) - 1
      /\ DOMAIN s = 1..Len(s) /\ DOMAIN t = 1..(Len(s) - 1)
      /\ (\A i \in 1..(Len(s) - 1) : t[i] = s[i]) /\ Last(s) = s[Len(s)]
  BY Shortened
<1> HIDE DEF t
<1>2. /\ c \in Conns
      /\ \A i \in DOMAIN s : s[i].kind = "transaction" => s[i].conn # c
      /\ \A i \in DOMAIN s : s[i].kind = "database" /\ s[i].conn = c => i = Len(s)
  BY TopDatabase
<1>3. \A i \in DOMAIN t : t[i].kind = "database" =>
          t[i].conn \in Conns /\ D[t[i].conn] = C[t[i].conn]
  BY <1>1, <1>2 DEF Held, Leases
<1>4. Leases(D, w, t, n)
  BY <1>1, <1>3, SMTT(30) DEF Held, Leases, Kind
<1>5. \A i \in DOMAIN t : Inner(t, i) = Inner(s, i)
  BY <1>1 DEF Inner
<1>6. ASSUME NEW i \in DOMAIN t, t[i].kind = "transaction"
      PROVE  /\ \E j \in DOMAIN t : Kind(t, j, "database") /\ t[j].conn = t[i].conn /\ j < i
             /\ Whole(D[t[i].conn], t, i)
  <2>1. i \in DOMAIN s /\ t[i] = s[i]
    BY <1>1, <1>6
  <2>2. PICK j \in DOMAIN s : Kind(s, j, "database") /\ s[j].conn = s[i].conn /\ j < i
    BY <1>6, <2>1 DEF Held, Transactions
  <2>3. Kind(t, j, "database") /\ t[j].conn = t[i].conn /\ j \in DOMAIN t
    BY <1>1, <2>1, <2>2 DEF Kind
  <2>4. D[t[i].conn] = C[t[i].conn]
    BY <1>3, <2>3 DEF Kind
  <2>5. Whole(C[s[i].conn], s, i)
    BY <1>6, <2>1 DEF Held, Transactions
  <2>6. Whole(D[t[i].conn], t, i)
    BY <1>5, <2>1, <2>4, <2>5 DEF Whole
  <2> QED
    BY <2>2, <2>3, <2>6
<1>7. Transactions(D, t)
  BY <1>6 DEF Transactions
<1>8. Tagged(D, w, t)
  <2> SUFFICES ASSUME NEW d \in Conns, D[d].owner = w, D[d].tx # "none"
               PROVE  \E i \in DOMAIN t : t[i].kind = "transaction" /\ t[i].conn = d
    BY DEF Tagged
  <2>1. PICK i \in DOMAIN s : s[i].kind = "transaction" /\ s[i].conn = d
    BY DEF Held, Tagged
  <2>2. i \in DOMAIN t /\ t[i] = s[i]
    BY <1>1, <2>1
  <2> QED
    BY <2>1, <2>2
<1> QED
  BY <1>4, <1>7, <1>8 DEF Held, Placed, t

LEMMA PushTransaction ==
    ASSUME NEW C \in [Conns -> Conn], NEW D \in [Conns -> Conn],
           NEW w \in Workers, NEW s \in Seq(Frame), NEW f \in Frame, NEW c \in Conns,
           Held(C, w, s, "run"), f.kind = "transaction", f.conn = c, f.done = {},
           NEW k \in DOMAIN s, s[k].kind = "database", s[k].conn = c,
           C[c].tx = "none", C[c].pending = {},
           D[c].owner = C[c].owner, D[c].id = C[c].id, D[c].tx = "open", D[c].state = "open",
           D[c].pending = C[c].pending,
           \A d \in Conns : d # c => D[d] = C[d]
    PROVE  Held(D, w, Append(s, f), "run")
<1> DEFINE t == Append(s, f)
<1>1. /\ Len(s) \in Nat /\ Len(t) = Len(s) + 1
      /\ DOMAIN s = 1..Len(s) /\ DOMAIN t = 1..(Len(s) + 1)
      /\ (\A i \in 1..Len(s) : t[i] = s[i]) /\ t[Len(s) + 1] = f
  BY Appended
<1> HIDE DEF t
<1>2. Leases(D, w, t, "run")
  <2>1. \A i \in DOMAIN s : s[i].kind = "database" =>
          /\ s[i].conn \in Conns /\ D[s[i].conn].owner = w
          /\ D[s[i].conn].id = s[i].id /\ D[s[i].conn].state # "closed"
    BY DEF Held, Leases
  <2> QED
    BY <1>1, <2>1 DEF Held, Leases, Kind
<1>3. \A i \in DOMAIN s : s[i].conn # c => Inner(t, i) = Inner(s, i)
  BY <1>1 DEF Inner
<1>4. Inner(t, Len(s) + 1) = {}
  BY <1>1 DEF Inner
<1>5. ASSUME NEW i \in DOMAIN t, t[i].kind = "transaction"
      PROVE  /\ \E j \in DOMAIN t : Kind(t, j, "database") /\ t[j].conn = t[i].conn /\ j < i
             /\ Whole(D[t[i].conn], t, i)
  <2>1. CASE i = Len(s) + 1
    <3>1. Kind(t, k, "database") /\ t[k].conn = t[i].conn /\ k \in DOMAIN t /\ k < i
      BY <1>1, <2>1 DEF Kind
    <3>2. Whole(D[t[i].conn], t, i)
      BY <1>1, <1>4, <2>1 DEF Whole
    <3> QED
      BY <3>1, <3>2
  <2>2. CASE i # Len(s) + 1
    <3>1. i \in DOMAIN s /\ t[i] = s[i]
      BY <1>1, <2>2
    <3>2. PICK j \in DOMAIN s : Kind(s, j, "database") /\ s[j].conn = s[i].conn /\ j < i
      BY <1>5, <3>1 DEF Held, Transactions
    <3>3. Kind(t, j, "database") /\ t[j].conn = t[i].conn /\ j \in DOMAIN t
      BY <1>1, <3>1, <3>2 DEF Kind
    <3>4. Whole(C[s[i].conn], s, i) /\ s[i].conn \in Conns
      BY <1>5, <3>1, <3>2 DEF Held, Transactions, Leases, Kind
    <3>5. CASE s[i].conn # c
      <4>1. D[t[i].conn] = C[s[i].conn] /\ Inner(t, i) = Inner(s, i)
        BY <1>3, <3>1, <3>4, <3>5
      <4> QED
        BY <3>1, <3>2, <3>3, <3>4, <4>1 DEF Whole
    <3>6. CASE s[i].conn = c
      <4>1. s[i].failed
        BY <3>4, <3>6 DEF Whole
      <4>2. Len(s) + 1 \in Inner(t, i)
        BY <1>1, <3>1, <3>6 DEF Inner
      <4>3. Whole(D[t[i].conn], t, i)
        BY <3>1, <4>1, <4>2 DEF Whole
      <4> QED
        BY <3>2, <3>3, <4>3
    <3> QED
      BY <3>5, <3>6
  <2> QED
    BY <2>1, <2>2
<1>6. Transactions(D, t)
  BY <1>5 DEF Transactions
<1>7. Tagged(D, w, t)
  <2> SUFFICES ASSUME NEW d \in Conns, D[d].owner = w, D[d].tx # "none"
               PROVE  \E i \in DOMAIN t : t[i].kind = "transaction" /\ t[i].conn = d
    BY DEF Tagged
  <2>1. CASE d = c
    BY <1>1, <2>1
  <2>2. CASE d # c
    <3>1. PICK i \in DOMAIN s : s[i].kind = "transaction" /\ s[i].conn = d
      BY <2>2 DEF Held, Tagged
    <3> QED
      BY <1>1, <3>1
  <2> QED
    BY <2>1, <2>2
<1> QED
  BY <1>2, <1>6, <1>7 DEF Held, Placed, t

LEMMA PopTransaction ==
    ASSUME NEW C \in [Conns -> Conn], NEW D \in [Conns -> Conn],
           NEW w \in Workers, NEW s \in Seq(Frame), s # <<>>, NEW m \in Modes, Held(C, w, s, m),
           Last(s).kind = "transaction",
           D[LastConn(s)].owner = C[LastConn(s)].owner, D[LastConn(s)].id = C[LastConn(s)].id,
           D[LastConn(s)].tx = "none",
           C[LastConn(s)].state # "closed" => D[LastConn(s)].state # "closed",
           \A d \in Conns : d # LastConn(s) => D[d] = C[d],
           NEW n \in {"run", "error", "broken"}
    PROVE  Held(D, w, Front(s), n)
<1> USE DEF LastConn
<1> DEFINE c == LastConn(s)
<1> DEFINE t == Front(s)
<1>1. /\ Len(s) \in Nat \ {0} /\ Len(t) = Len(s) - 1
      /\ DOMAIN s = 1..Len(s) /\ DOMAIN t = 1..(Len(s) - 1)
      /\ (\A i \in 1..(Len(s) - 1) : t[i] = s[i]) /\ Last(s) = s[Len(s)]
  BY Shortened
<1> HIDE DEF t
<1>2. Leases(D, w, t, n)
  <2>1. \A i \in DOMAIN t : t[i].kind = "database" =>
          /\ t[i].conn \in Conns /\ D[t[i].conn].owner = w
          /\ D[t[i].conn].id = t[i].id /\ D[t[i].conn].state # "closed"
    BY <1>1 DEF Held, Leases
  <2> QED
    BY <1>1, <2>1 DEF Held, Leases, Kind
<1>3. \A i \in DOMAIN t : s[i].conn # c => Inner(t, i) = Inner(s, i)
  BY <1>1 DEF Inner
<1>4. ASSUME NEW i \in DOMAIN t, t[i].kind = "transaction"
      PROVE  /\ \E j \in DOMAIN t : Kind(t, j, "database") /\ t[j].conn = t[i].conn /\ j < i
             /\ Whole(D[t[i].conn], t, i)
  <2>1. i \in DOMAIN s /\ t[i] = s[i]
    BY <1>1, <1>4
  <2>2. PICK j \in DOMAIN s : Kind(s, j, "database") /\ s[j].conn = s[i].conn /\ j < i
    BY <1>4, <2>1 DEF Held, Transactions
  <2>3. Kind(t, j, "database") /\ t[j].conn = t[i].conn /\ j \in DOMAIN t
    BY <1>1, <2>1, <2>2 DEF Kind
  <2>4. Whole(C[s[i].conn], s, i) /\ s[i].conn \in Conns
    BY <1>4, <2>1, <2>2 DEF Held, Transactions, Leases, Kind
  <2>5. CASE s[i].conn # c
    <3>1. D[t[i].conn] = C[s[i].conn] /\ Inner(t, i) = Inner(s, i)
      BY <1>3, <2>1, <2>4, <2>5
    <3> QED
      BY <2>1, <2>2, <2>3, <2>4, <3>1 DEF Whole
  <2>6. CASE s[i].conn = c
    <3>1. Len(s) \in Inner(s, i)
      BY <1>1, <2>1, <2>6 DEF Inner
    <3>2. s[i].failed
      BY <2>4, <3>1 DEF Whole
    <3>3. Whole(D[t[i].conn], t, i)
      BY <2>1, <2>6, <3>2 DEF Whole
    <3> QED
      BY <2>2, <2>3, <3>3
  <2> QED
    BY <2>5, <2>6
<1>5. Transactions(D, t)
  BY <1>4 DEF Transactions
<1>6. Tagged(D, w, t)
  <2> SUFFICES ASSUME NEW d \in Conns, D[d].owner = w, D[d].tx # "none"
               PROVE  \E i \in DOMAIN t : t[i].kind = "transaction" /\ t[i].conn = d
    BY DEF Tagged
  <2>1. PICK i \in DOMAIN s : s[i].kind = "transaction" /\ s[i].conn = d
    BY DEF Held, Tagged
  <2>2. i \in DOMAIN t /\ t[i] = s[i]
    BY <1>1, <2>1
  <2> QED
    BY <2>1, <2>2
<1> QED
  BY <1>2, <1>5, <1>6 DEF Held, Placed, t

\* The tags on connection c after a statement on it: the stack keeps its shape.
Marks(C, D, c, s, t) ==
    /\ Len(t) = Len(s)
    /\ \A i \in DOMAIN s :
         /\ t[i].kind = s[i].kind /\ t[i].conn = s[i].conn /\ t[i].at = s[i].at
         /\ t[i].id = s[i].id /\ t[i].tries = s[i].tries
         /\ s[i].conn # c => t[i].failed = s[i].failed /\ t[i].done = s[i].done
         /\ s[i].kind = "transaction" /\ s[i].conn = c /\ Whole(C[c], s, i)
              => Whole(D[c], t, i)

Keeps(C, D, c) ==
    /\ D[c].owner = C[c].owner /\ D[c].id = C[c].id
    /\ D[c].tx # "none" => C[c].tx # "none"
    /\ C[c].state # "closed" => D[c].state # "closed"
    /\ \A d \in Conns : d # c => D[d] = C[d]

\* A statement on connection c changes what its transaction tags have done.
LEMMA StayTransaction ==
    ASSUME NEW C \in [Conns -> Conn], NEW D \in [Conns -> Conn], NEW w \in Workers,
           NEW s \in Seq(Frame), NEW t \in Seq(Frame), NEW c \in Conns,
           Held(C, w, s, "run"), Marks(C, D, c, s, t), Keeps(C, D, c), NEW n \in {"run", "error"}
    PROVE  Held(D, w, t, n)
<1> USE DEF Marks, Keeps
<1>1. Len(s) \in Nat /\ DOMAIN s = 1..Len(s) /\ DOMAIN t = 1..Len(s)
  BY LenProperties
<1>2. Leases(D, w, t, n)
  <2>1. \A i \in DOMAIN t : t[i].kind = "database" =>
          /\ t[i].conn \in Conns /\ D[t[i].conn].owner = w /\ t[i].tries # 0
          /\ D[t[i].conn].id = t[i].id /\ D[t[i].conn].state # "closed"
    BY <1>1 DEF Held, Leases
  <2>2. \A i, j \in DOMAIN s :
          s[i].kind = "database" /\ s[j].kind = "database" /\ s[j].conn = s[i].conn => i = j
    BY DEF Held, Leases, Kind
  <2>3. \A i, j \in DOMAIN t :
          t[i].kind = "database" /\ t[j].kind = "database" /\ t[j].conn = t[i].conn => i = j
    BY <1>1, <2>2
  <2> QED
    BY <2>1, <2>3 DEF Leases, Kind
<1>3. \A i \in DOMAIN s : Inner(t, i) = Inner(s, i)
  BY <1>1 DEF Inner
<1>4. ASSUME NEW i \in DOMAIN t, t[i].kind = "transaction"
      PROVE  /\ \E j \in DOMAIN t : Kind(t, j, "database") /\ t[j].conn = t[i].conn /\ j < i
             /\ Whole(D[t[i].conn], t, i)
  <2>1. i \in DOMAIN s /\ s[i].kind = "transaction" /\ t[i].conn = s[i].conn
    BY <1>1, <1>4
  <2>2. PICK j \in DOMAIN s : Kind(s, j, "database") /\ s[j].conn = s[i].conn /\ j < i
    BY <2>1 DEF Held, Transactions
  <2>3. Kind(t, j, "database") /\ t[j].conn = t[i].conn /\ j \in DOMAIN t
    BY <1>1, <2>1, <2>2 DEF Kind
  <2>4. Whole(C[s[i].conn], s, i) /\ s[i].conn \in Conns
    BY <2>1, <2>2 DEF Held, Transactions, Leases, Kind
  <2>5. CASE s[i].conn # c
    <3>1. /\ D[t[i].conn] = C[s[i].conn] /\ Inner(t, i) = Inner(s, i)
          /\ t[i].failed = s[i].failed /\ t[i].done = s[i].done
      BY <1>3, <2>1, <2>4, <2>5
    <3> QED
      BY <2>2, <2>3, <2>4, <3>1 DEF Whole
  <2>6. CASE s[i].conn = c
    BY <2>1, <2>2, <2>3, <2>4, <2>6
  <2> QED
    BY <2>5, <2>6
<1>5. Transactions(D, t)
  BY <1>4 DEF Transactions
<1>6. Tagged(D, w, t)
  BY <1>1 DEF Held, Tagged
<1> QED
  BY <1>2, <1>5, <1>6 DEF Held, Placed

--------------------------------------------------------------------------------
(* What a step of one worker leaves to the others *)

\* Worker w turns the objects C into D: it does not touch what others lease.
Apart(C, D, w) == \A c \in Conns :
    D[c] = C[c] \/ (C[c].owner \in {w, NoWorker} /\ D[c].owner \in {w, NoWorker})

Neat(D) == D \in [Conns -> Conn] /\ \A c \in Conns : Clean(D[c])

LEMMA StepSound ==
    ASSUME IInv, NEW w \in Workers, NEW r \in Run, Goes(w, r), Neat(conn'),
           Apart(conn, conn', w), Sound(conn', w, r), driver' = driver,
           applied' \in [Workers -> [Positions -> Nat]], broke' \in [Workers -> BOOLEAN]
    PROVE  IInv'
<1>1. run \in [Workers -> Run] /\ NoWorker \notin Workers
  BY DatabaseAssumption DEF IInv, TypeOK
<1>2. run' \in [Workers -> Run] /\ run'[w] = r /\ \A v \in Workers : v # w => run'[v] = run[v]
  BY <1>1 DEF Goes
<1>3. TypeOK'
  BY <1>2 DEF IInv, TypeOK, Neat
<1>4. ASSUME NEW v \in Workers PROVE Sound(conn', v, run'[v])
  <2>1. CASE v = w
    BY <1>2, <2>1
  <2>2. CASE v # w
    <3>1. run'[v] = run[v] /\ run[v].stack \in Seq(Frame)
      BY <1>1, <1>2, <2>2 DEF Run
    <3>2. \A c \in Conns : conn'[c] = conn[c] \/ (conn[c].owner # v /\ conn'[c].owner # v)
      BY <1>1, <2>2 DEF Apart
    <3>3. Sound(conn, v, run[v])
      BY DEF IInv
    <3>4. conn' \in [Conns -> Conn] /\ conn \in [Conns -> Conn] /\ run[v].mode \in Modes
      BY <1>1 DEF Neat, IInv, TypeOK, Run
    <3>5. Held(conn', v, run[v].stack, run[v].mode)
      BY <3>1, <3>2, <3>3, <3>4, OthersHeld DEF Sound
    <3> QED
      BY <3>1, <3>3, <3>5 DEF Sound
  <2> QED
    BY <2>1, <2>2
<1> QED
  BY <1>3, <1>4 DEF IInv, Neat

\* The stack and the script of a worker.
LEMMA Facts ==
    ASSUME IInv, NEW w \in Workers
    PROVE  /\ run[w] \in Run /\ run[w].stack \in Seq(Frame) /\ run[w].pc \in Nat
           /\ run[w].script \in AllScripts \cup {<<>>} /\ run[w].mode \in Modes
           /\ Opened(run[w].script, run[w].stack)
           /\ Held(conn, w, run[w].stack, run[w].mode)
           /\ Neat(conn) /\ driver \in Drivers /\ conn \in [Conns -> Conn]
           /\ applied \in [Workers -> [Positions -> Nat]] /\ broke \in [Workers -> BOOLEAN]
<1>1. run[w] \in Run
  BY DEF IInv, TypeOK
<1>2. /\ run[w].stack \in Seq(Frame) /\ run[w].pc \in Nat
      /\ run[w].script \in AllScripts \cup {<<>>} /\ run[w].mode \in Modes
  BY <1>1 DEF Run
<1> QED
  BY <1>1, <1>2 DEF IInv, TypeOK, Sound, Neat

LEMMA ScriptTypes ==
    ASSUME NEW t \in AllScripts \cup {<<>>}, NEW p \in DOMAIN t
    PROVE  /\ p \in Nat \ {0} /\ p \in Positions /\ t[p] \in Instruction
           /\ t[p].op # "end" => EndOf(t, p) \in Nat
<1>1. PICK w \in Workers : t \in Scripts[w]
  BY EmptySeq DEF AllScripts
<1>2. t \in Seq(Instruction) /\ t \in AllScripts
  BY <1>1, DatabaseAssumption DEF AllScripts
<1>3. Len(t) \in Nat /\ DOMAIN t = 1..Len(t)
  BY <1>2, LenProperties
<1>4. p \in Nat \ {0} /\ p \in Positions /\ t[p] \in Instruction
  BY <1>2, <1>3, ElementOfSeq DEF Positions
<1>5. ASSUME t[p].op # "end" PROVE EndOf(t, p) \in Nat
  <2>1. \E q \in p..Len(t) : Closes(t, p, q)
    BY <1>1, <1>5, DatabaseAssumption
  <2>2. EndOf(t, p) \in p..Len(t)
    BY <2>1, Zenon DEF EndOf
  <2> QED
    BY <1>3, <1>4, <2>2
<1> QED
  BY <1>4, <1>5

LEMMA PositionTypes == Positions \subseteq Nat
<1>1. ASSUME NEW t \in AllScripts PROVE 1..Len(t) \subseteq Nat
  BY DatabaseAssumption DEF AllScripts
<1> QED
  BY <1>1 DEF Positions

LEMMA AtTypes ==
    ASSUME IInv, NEW w \in Workers, NEW op, At(w, op)
    PROVE  /\ run[w].mode = "run" /\ run[w].pc \in DOMAIN run[w].script
           /\ run[w].pc \in Positions /\ Instr(w) = run[w].script[run[w].pc]
           /\ Instr(w).op = op /\ Instr(w) \in Instruction
           /\ Instr(w).id \in Ids \cup {NoId} /\ (op \notin {"try", "end"} => Instr(w).id \in Ids)
           /\ op # "end" => EndOf(run[w].script, run[w].pc) \in Nat
<1>1. run[w].mode = "run" /\ run[w].pc \in DOMAIN run[w].script /\ Instr(w).op = op
  BY DEF At
<1>2. Instr(w) = run[w].script[run[w].pc]
  BY DEF Instr
<1>3. run[w].script \in AllScripts \cup {<<>>}
  BY Facts
<1>4. Instr(w) \in Instruction /\ run[w].pc \in Positions
  BY <1>1, <1>2, <1>3, ScriptTypes
<1>5. op # "end" => EndOf(run[w].script, run[w].pc) \in Nat
  BY <1>1, <1>2, <1>3, ScriptTypes
<1>6. Instr(w).id \in Ids \cup {NoId} /\ (op \notin {"try", "end"} => Instr(w).id \in Ids)
  BY <1>1, <1>4 DEF Instruction
<1> QED
  BY <1>1, <1>2, <1>4, <1>5, <1>6

LEMMA NewFrameTypes ==
    ASSUME IInv, NEW w \in Workers, NEW op, At(w, op), op # "end",
           NEW kind \in Kinds \cup {"nested"}, NEW c \in Conns \cup {NoConn}
    PROVE  /\ NewFrame(w, kind, c) \in Frame
           /\ [NewFrame(w, kind, c) EXCEPT !.tries = 3] \in Frame
<1>1. run[w].pc \in Positions /\ Instr(w).id \in Ids \cup {NoId}
  BY AtTypes
<1>2. 0 \in 0..3 /\ 3 \in 0..3 /\ {} \in SUBSET Positions
  OBVIOUS
<1> QED
  BY <1>1, <1>2 DEF NewFrame, Frame

\* A new frame is that of the tag at the program counter.
LEMMA PushOpened ==
    ASSUME IInv, NEW w \in Workers, NEW op, At(w, op), op # "end", NEW f \in Frame,
           f.at = run[w].pc, NEW s \in Seq(Frame), Opened(run[w].script, s)
    PROVE  Opened(run[w].script, Append(s, f))
<1>1. /\ Len(s) \in Nat /\ DOMAIN s = 1..Len(s) /\ DOMAIN Append(s, f) = 1..(Len(s) + 1)
      /\ (\A i \in 1..Len(s) : Append(s, f)[i] = s[i]) /\ Append(s, f)[Len(s) + 1] = f
  BY Appended
<1>2. run[w].pc \in DOMAIN run[w].script /\ run[w].script[run[w].pc].op # "end"
  BY AtTypes
<1>3. ASSUME NEW i \in DOMAIN Append(s, f)
      PROVE  /\ Append(s, f)[i].at \in DOMAIN run[w].script
             /\ run[w].script[Append(s, f)[i].at].op # "end"
  <2>1. CASE i = Len(s) + 1
    BY <1>1, <1>2, <2>1
  <2>2. CASE i # Len(s) + 1
    BY <1>1, <1>3, <2>2 DEF Opened
  <2> QED
    BY <2>1, <2>2
<1> QED
  BY <1>3 DEF Opened

LEMMA PopOpened ==
    ASSUME NEW t, NEW s \in Seq(Frame), s # <<>>, Opened(t, s)
    PROVE  Opened(t, Front(s))
<1>1. /\ Len(s) \in Nat \ {0} /\ DOMAIN s = 1..Len(s) /\ DOMAIN Front(s) = 1..(Len(s) - 1)
      /\ \A i \in 1..(Len(s) - 1) : Front(s)[i] = s[i]
  BY Shortened
<1> QED
  BY <1>1 DEF Opened

\* What a connection of the context is.
LEMMA VisibleLeased ==
    ASSUME IInv, NEW w \in Workers, NEW id, Visible(w, id) # NoConn
    PROVE  \E k \in DOMAIN run[w].stack :
              /\ run[w].stack[k].kind = "database" /\ run[w].stack[k].conn = Visible(w, id)
              /\ run[w].stack[k].id = id /\ Visible(w, id) \in Conns
              /\ conn[Visible(w, id)].owner = w
<1> DEFINE S == {i \in Frames(w, "database") : run[w].stack[i].id = id}
<1>1. S # {} /\ Visible(w, id) = run[w].stack[CHOOSE i \in S : TRUE].conn
  BY DEF Visible
<1>2. (CHOOSE i \in S : TRUE) \in S
  BY <1>1
<1>3. PICK k \in S : Visible(w, id) = run[w].stack[k].conn
  BY <1>1, <1>2
<1>4. k \in DOMAIN run[w].stack /\ run[w].stack[k].kind = "database" /\ run[w].stack[k].id = id
  BY DEF Frames
<1>5. Leases(conn, w, run[w].stack, run[w].mode)
  BY Facts DEF Held
<1> QED
  BY <1>3, <1>4, <1>5 DEF Leases

\* Steps that push or pop a frame, and steps that keep the stack's shape.
LEMMA PushSound ==
    ASSUME IInv, NEW w \in Workers, NEW op, At(w, op), op # "end", NEW f \in Frame,
           f.at = run[w].pc, NEW m \in Modes, Push(w, f, m),
           Held(conn', w, Append(run[w].stack, f), m), Neat(conn'),
           Apart(conn, conn', w), UNCHANGED <<driver, applied, broke>>
    PROVE  IInv'
<1> DEFINE r == [run[w] EXCEPT !.stack = Append(@, f), !.pc = @ + 1, !.mode = m]
<1>1. run[w] \in Run /\ run[w].stack \in Seq(Frame) /\ run[w].pc + 1 \in Nat
  BY Facts
<1>2. Append(run[w].stack, f) \in Seq(Frame)
  BY <1>1, AppendProperties
<1>3. /\ r \in Run /\ r.script = run[w].script /\ r.stack = Append(run[w].stack, f)
      /\ r.mode = m
  BY <1>1, <1>2 DEF Run
<1>4. Goes(w, r)
  BY DEF Push
<1> HIDE DEF r
<1>5. Opened(run[w].script, Append(run[w].stack, f))
  BY <1>1, PushOpened, Facts
<1>6. Sound(conn', w, r)
  BY <1>3, <1>5 DEF Sound
<1> QED
  BY <1>3, <1>4, <1>6, StepSound, Facts

LEMMA PopSound ==
    ASSUME IInv, NEW w \in Workers, run[w].stack # <<>>, NEW pc \in Nat, NEW m \in Modes,
           Pop(w, pc, m), Held(conn', w, Front(run[w].stack), m), Neat(conn'),
           Apart(conn, conn', w), driver' = driver,
           applied' \in [Workers -> [Positions -> Nat]], broke' \in [Workers -> BOOLEAN]
    PROVE  IInv'
<1> DEFINE r == [run[w] EXCEPT !.stack = Front(@), !.pc = pc, !.mode = m]
<1>1. run[w] \in Run /\ run[w].stack \in Seq(Frame)
  BY Facts
<1>2. Front(run[w].stack) \in Seq(Frame)
  BY <1>1, Shortened
<1>3. r \in Run /\ r.script = run[w].script /\ r.stack = Front(run[w].stack) /\ r.mode = m
  BY <1>1, <1>2 DEF Run
<1>4. Goes(w, r)
  BY DEF Pop
<1> HIDE DEF r
<1>5. Opened(run[w].script, Front(run[w].stack))
  BY <1>1, PopOpened, Facts
<1>6. Sound(conn', w, r)
  BY <1>3, <1>5 DEF Sound
<1> QED
  BY <1>3, <1>4, <1>6, StepSound

LEMMA OneChanged ==
    ASSUME IInv, NEW w \in Workers, NEW D \in [Conns -> Conn], NEW c \in Conns,
           \A d \in Conns : d # c => D[d] = conn[d], Clean(D[c]),
           conn[c].owner \in {w, NoWorker}, D[c].owner \in {w, NoWorker}
    PROVE  Neat(D) /\ Apart(conn, D, w)
<1>1. \A d \in Conns : Clean(conn[d])
  BY DEF IInv
<1>2. \A d \in Conns : Clean(D[d])
  BY <1>1
<1> QED
  BY <1>2 DEF Neat, Apart

LEMMA ModeTypes == {"idle", "run", "connect", "broken", "error"} = Modes
BY DEF Modes

LEMMA SameConns ==
    ASSUME IInv, NEW w \in Workers, conn' = conn PROVE Neat(conn') /\ Apart(conn, conn', w)
BY DEF IInv, TypeOK, Neat, Apart

\* What Commit does, which only adds.
LEMMA CommitTypes ==
    ASSUME IInv, NEW w \in Workers, NEW S, Commit(w, S)
    PROVE  /\ applied' \in [Workers -> [Positions -> Nat]]
           /\ applied'[w] = [p \in Positions |-> applied[w][p] + (IF p \in S THEN 1 ELSE 0)]
<1>1. applied \in [Workers -> [Positions -> Nat]]
  BY Facts
<1> DEFINE a == [p \in Positions |-> applied[w][p] + (IF p \in S THEN 1 ELSE 0)]
<1>2. a \in [Positions -> Nat]
  BY <1>1
<1>3. applied' = [applied EXCEPT ![w] = a]
  BY DEF Commit
<1> HIDE DEF a
<1>4. applied' \in [Workers -> [Positions -> Nat]] /\ applied'[w] = a
  BY <1>1, <1>2, <1>3
<1> QED
  BY <1>4 DEF a

--------------------------------------------------------------------------------
(* The invariant is inductive *)

LEMMA InitSound == Init => IInv
<1> SUFFICES ASSUME Init PROVE IInv
  OBVIOUS
<1>1. <<>> \in Seq(Frame) /\ 1 \in Nat
  BY EmptySeq
<1>2. Idle \in Run
  BY <1>1, ModeTypes DEF Idle, Run
<1>3. Unused \in Conn
  BY DEF Unused, Conn
<1>4. NothingApplied \in [Positions -> Nat]
  BY DEF NothingApplied
<1>5. TypeOK
  BY <1>2, <1>3, <1>4 DEF Init, TypeOK
<1>6. \A c \in Conns : Clean(conn[c])
  BY DEF Init, Unused, Clean
<1>7. ASSUME NEW w \in Workers PROVE Sound(conn, w, run[w])
  <2>1. run[w].stack = <<>> /\ run[w].mode = "idle"
    BY DEF Init, Idle
  <2>2. DOMAIN run[w].stack = {}
    BY <2>1
  <2>3. Opened(run[w].script, run[w].stack) /\ Placed(run[w].stack, run[w].mode)
    BY <2>1, <2>2 DEF Opened, Placed
  <2>4. Leases(conn, w, run[w].stack, run[w].mode) /\ Transactions(conn, run[w].stack)
    BY <2>2 DEF Leases, Transactions
  <2>5. Tagged(conn, w, run[w].stack)
    BY DEF Init, Unused, Tagged
  <2> QED
    BY <2>3, <2>4, <2>5 DEF Sound, Held
<1> QED
  BY <1>5, <1>6, <1>7 DEF IInv

\* Without open tags there are no leases.
LEMMA NothingHeld ==
    ASSUME NEW C, NEW w, NEW m, NEW n \in {"idle", "run"}, Held(C, w, <<>>, m)
    PROVE  Held(C, w, <<>>, n) /\ \A t : Opened(t, <<>>)
<1>1. DOMAIN <<>> = {}
  OBVIOUS
<1>2. Leases(C, w, <<>>, n) /\ Transactions(C, <<>>) /\ \A t : Opened(t, <<>>)
  BY <1>1 DEF Leases, Transactions, Opened
<1> QED
  BY <1>2 DEF Held, Placed

LEMMA StartStep == ASSUME IInv, NEW w \in Workers, Start(w) PROVE IInv'
<1>1. PICK s \in Scripts[w] : Goes(w, [Idle EXCEPT !.script = s, !.mode = "run"])
  BY DEF Start
<1> DEFINE r == [Idle EXCEPT !.script = s, !.mode = "run"]
<1>2. <<>> \in Seq(Frame) /\ 1 \in Nat /\ s \in AllScripts
  BY EmptySeq DEF AllScripts
<1>3. r \in Run /\ r.stack = <<>> /\ r.mode = "run"
  BY <1>2, ModeTypes DEF Idle, Run
<1>4. Goes(w, r)
  BY <1>1
<1> HIDE DEF r
<1>5. run[w].stack = <<>> /\ Held(conn, w, run[w].stack, run[w].mode)
  BY Facts DEF Held, Placed, Start
<1>6. Sound(conn, w, r)
  BY <1>3, <1>5, NothingHeld DEF Sound
<1>7. conn' = conn /\ UNCHANGED <<driver, applied, broke>>
  BY DEF Start
<1> QED
  BY <1>3, <1>4, <1>6, <1>7, StepSound, SameConns, Facts

LEMMA FinishStep == ASSUME IInv, NEW w \in Workers, Finish(w) PROVE IInv'
<1>1. run[w].stack = <<>> /\ Goes(w, Idle) /\ conn' = conn /\ driver' = driver
  BY DEF Finish
<1>2. <<>> \in Seq(Frame) /\ 1 \in Nat
  BY EmptySeq
<1>3. Idle \in Run /\ Idle.stack = <<>> /\ Idle.mode = "idle"
  BY <1>2, ModeTypes DEF Idle, Run
<1>4. Sound(conn, w, Idle)
  BY <1>1, <1>3, NothingHeld, Facts DEF Sound
<1>5. NothingApplied \in [Positions -> Nat]
  BY DEF NothingApplied
<1>6. applied' \in [Workers -> [Positions -> Nat]] /\ broke' \in [Workers -> BOOLEAN]
  BY <1>5, Facts DEF Finish
<1> QED
  BY <1>1, <1>3, <1>4, <1>6, StepSound, SameConns

LEMMA EnterTryStep == ASSUME IInv, NEW w \in Workers, EnterTry(w) PROVE IInv'
<1> DEFINE f == NewFrame(w, "try", NoConn)
<1>1. /\ At(w, "try") /\ Push(w, f, "run") /\ conn' = conn
      /\ UNCHANGED <<driver, applied, broke>>
  BY DEF EnterTry
<1>2. f \in Frame
  BY <1>1, NewFrameTypes DEF Kinds
<1>3. f.kind = "try" /\ f.at = run[w].pc
  BY DEF NewFrame
<1> HIDE DEF f
<1>4. /\ run[w].mode = "run" /\ run[w].stack \in Seq(Frame)
      /\ Held(conn, w, run[w].stack, run[w].mode)
      /\ conn \in [Conns -> Conn]
  BY <1>1, Facts, AtTypes
<1>5. Held(conn', w, Append(run[w].stack, f), "run")
  BY <1>1, <1>2, <1>3, <1>4, PushPlain
<1> QED
  BY <1>1, <1>2, <1>3, <1>5, PushSound, SameConns, ModeTypes

LEMMA EnterDatabaseStep == ASSUME IInv, NEW w \in Workers, EnterDatabase(w) PROVE IInv'
<1>1. At(w, "database") /\ UNCHANGED <<driver, applied, broke>>
  BY DEF EnterDatabase
<1>2. /\ run[w].mode = "run" /\ run[w].stack \in Seq(Frame) /\ Held(conn, w, run[w].stack, "run")
      /\ conn \in [Conns -> Conn]
  BY <1>1, Facts, AtTypes
<1>3. Instr(w).id \in Ids /\ NoId \notin Ids /\ NoWorker \notin Workers
  BY <1>1, AtTypes, DatabaseAssumption
<1>4. CASE Push(w, NewFrame(w, "nested", NoConn), "run") /\ UNCHANGED conn
  <2> DEFINE f == NewFrame(w, "nested", NoConn)
  <2>1. f \in Frame
    BY <1>1, NewFrameTypes
  <2>2. f.kind = "nested" /\ f.at = run[w].pc
    BY DEF NewFrame
  <2>3. Push(w, f, "run")
    BY <1>4
  <2> HIDE DEF f
  <2>4. Held(conn', w, Append(run[w].stack, f), "run")
    BY <1>2, <1>4, <2>1, <2>2, PushPlain
  <2> QED
    BY <1>1, <1>4, <2>1, <2>2, <2>3, <2>4, PushSound, SameConns, ModeTypes
<1>5. ASSUME NEW c \in Pooled(Instr(w).id),
             conn' = [conn EXCEPT ![c].owner = w, ![c].id = Instr(w).id],
             Push(w, [NewFrame(w, "database", c) EXCEPT !.tries = 3], "connect")
      PROVE  IInv'
  <2> DEFINE f == [NewFrame(w, "database", c) EXCEPT !.tries = 3]
             id == Instr(w).id
  <2>1. c \in Conns /\ (conn[c].owner = NoWorker \/ conn[c].id = NoId)
    BY DEF Pooled
  <2>2. Clean(conn[c]) /\ conn \in [Conns -> Conn]
    BY <2>1 DEF IInv, TypeOK
  <2>3. conn[c].owner = NoWorker /\ conn[c].tx = "none" /\ conn[c].pending = {}
    BY <2>1, <2>2 DEF Clean
  <2>4. f \in Frame
    BY <1>1, <2>1, NewFrameTypes DEF Kinds
  <2>5. /\ f.kind = "database" /\ f.at = run[w].pc /\ f.tries # 0 /\ f.conn = c
        /\ f.id = id
    BY DEF NewFrame
  <2>6. Push(w, f, "connect")
    BY <1>5
  <2> HIDE DEF f, id
  <2>7. id \in Ids /\ conn' = [conn EXCEPT ![c].owner = w, ![c].id = id]
    BY <1>3, <1>5 DEF id
  <2>8. /\ conn' \in [Conns -> Conn] /\ conn'[c].owner = w /\ conn'[c].id = id
        /\ conn'[c].tx = "none" /\ conn'[c].pending = {}
        /\ \A d \in Conns : d # c => conn'[d] = conn[d]
    BY <2>1, <2>2, <2>3, <2>7, ZenonT(30) DEF Conn
  <2>9. Clean(conn'[c])
    BY <1>3, <2>7, <2>8 DEF Clean
  <2>10. Neat(conn') /\ Apart(conn, conn', w)
    BY <2>1, <2>3, <2>8, <2>9, OneChanged
  <2>11. Held(conn', w, Append(run[w].stack, f), "connect")
    <3>1. conn'[c].id = f.id
      BY <2>5, <2>8
    <3> QED
      BY <1>2, <2>1, <2>3, <2>4, <2>5, <2>8, <3>1, PushDatabase, SMTT(60)
  <2> QED
    BY <1>1, <2>4, <2>5, <2>6, <2>10, <2>11, PushSound, ModeTypes
<1> QED
  BY <1>4, <1>5 DEF EnterDatabase

Sets(c, q) == conn' = [conn EXCEPT ![c] = q]

\* A connection that its worker has leased may change, but not its owner or id.
LEMMA OwnChanged ==
    ASSUME IInv, NEW w \in Workers, NEW c \in Conns, conn[c].owner = w,
           NEW q \in Conn, q.owner \in {w, NoWorker}, q.id = conn[c].id,
           q.owner = NoWorker => q.tx = "none", q.tx # "open" => q.pending = {},
           Sets(c, q)
    PROVE  /\ Neat(conn') /\ Apart(conn, conn', w) /\ conn'[c] = q /\ conn' \in [Conns -> Conn]
           /\ \A d \in Conns : d # c => conn'[d] = conn[d]
<1>1. conn \in [Conns -> Conn] /\ Clean(conn[c]) /\ NoWorker \notin Workers
  BY DatabaseAssumption DEF IInv, TypeOK
<1>2. conn' \in [Conns -> Conn] /\ conn'[c] = q /\ \A d \in Conns : d # c => conn'[d] = conn[d]
  BY <1>1 DEF Sets
<1>3. Clean(q)
  BY <1>1 DEF Clean
<1> QED
  BY <1>2, <1>3, OneChanged

\* The innermost tag of w is a database tag.
LEMMA InnermostDatabase ==
    ASSUME IInv, NEW w \in Workers, run[w].stack # <<>>, Last(run[w].stack).kind = "database"
    PROVE  /\ LastConn(run[w].stack) \in Conns /\ conn[LastConn(run[w].stack)] \in Conn
           /\ conn[LastConn(run[w].stack)].owner = w /\ conn[LastConn(run[w].stack)].tx = "none"
           /\ conn[LastConn(run[w].stack)].pending = {} /\ Last(run[w].stack).tries \in 1..3
           /\ Last(run[w].stack) \in Frame
<1> DEFINE c == LastConn(run[w].stack)
<1>1. /\ run[w].stack \in Seq(Frame) /\ Held(conn, w, run[w].stack, run[w].mode)
      /\ conn \in [Conns -> Conn] /\ run[w].mode \in Modes
  BY Facts
<1>2. /\ c \in Conns /\ conn[c].owner = w /\ conn[c].tx = "none"
      /\ Last(run[w].stack).tries # 0
  BY <1>1, TopDatabase
<1>3. conn[c] \in Conn /\ conn[c].pending = {}
  BY <1>2 DEF IInv, TypeOK, Clean
<1>4. Last(run[w].stack) \in Frame
  BY <1>1, Shortened
<1> QED
  BY <1>2, <1>3, <1>4 DEF Frame

Resumes(w, n, pc, tries) ==
    Goes(w, [run[w] EXCEPT !.mode = n, !.pc = pc, !.stack[Len(run[w].stack)].tries = tries])

\* It goes on with its connection: connected, refused or connecting again.
LEMMA DatabaseStays ==
    ASSUME IInv, NEW w \in Workers, run[w].stack # <<>>, Last(run[w].stack).kind = "database",
           NEW q \in Conn, Sets(LastConn(run[w].stack), q),
           q.owner = w, q.id = conn[LastConn(run[w].stack)].id, q.tx = "none", q.pending = {},
           NEW n \in {"run", "connect", "error", "broken"}, n = "run" => q.state # "closed",
           NEW pc \in Nat, NEW tries \in 1..3,
           Resumes(w, n, pc, tries),
           driver' = driver, applied' = applied, broke' \in [Workers -> BOOLEAN]
    PROVE  IInv'
<1> DEFINE c == LastConn(run[w].stack)
<1> DEFINE s == run[w].stack
           g == [Last(s) EXCEPT !.tries = tries]
           t == [s EXCEPT ![Len(s)] = g]
           r == [run[w] EXCEPT !.mode = n, !.pc = pc, !.stack = t]
<1>1. /\ s \in Seq(Frame) /\ Len(s) \in Nat \ {0} /\ DOMAIN s = 1..Len(s)
      /\ Last(s) = s[Len(s)] /\ Last(s) \in Frame
  BY Shortened, Facts
<1>2. /\ g \in Frame /\ g.kind = "database" /\ g.conn = c /\ g.id = s[Len(s)].id
      /\ g.tries # 0 /\ g.at = s[Len(s)].at
  BY <1>1 DEF Frame, LastConn
<1>3. [run[w] EXCEPT !.mode = n, !.pc = pc, !.stack[Len(run[w].stack)].tries = tries] = r
  BY <1>1, Facts DEF Run
<1> HIDE DEF g
<1>4. /\ t \in Seq(Frame) /\ Len(t) = Len(s) /\ t[Len(s)] = g /\ DOMAIN t = DOMAIN s
      /\ \A i \in DOMAIN s : i # Len(s) => t[i] = s[i]
  BY <1>1, <1>2, ExceptSeq
<1> HIDE DEF t
<1>5. r \in Run /\ r.script = run[w].script /\ r.stack = t /\ r.mode = n
  BY <1>4, Facts, ModeTypes DEF Run
<1>6. Goes(w, r)
  BY <1>3 DEF Resumes
<1> HIDE DEF r
<1>7. /\ Neat(conn') /\ Apart(conn, conn', w) /\ conn'[c] = q /\ conn' \in [Conns -> Conn]
      /\ \A d \in Conns : d # c => conn'[d] = conn[d]
  <2>1. c \in Conns /\ conn[c].owner = w
    BY InnermostDatabase
  <2> QED
    BY <2>1, OwnChanged
<1>8. conn'[c].owner = conn[c].owner /\ conn'[c].id = conn[c].id /\ conn'[c].tx = "none"
  BY <1>7, InnermostDatabase
<1>9. Held(conn', w, t, n)
  <2>1. Held(conn, w, s, run[w].mode) /\ conn \in [Conns -> Conn] /\ run[w].mode \in Modes
    BY Facts
  <2>2. /\ t[Len(s)].kind = "database" /\ t[Len(s)].conn = c /\ t[Len(s)].id = s[Len(s)].id
        /\ t[Len(s)].tries # 0
    BY <1>2, <1>4
  <2>3. n = "run" => conn'[c].state # "closed"
    BY <1>7
  <2>4. s # <<>> /\ Last(s).kind = "database" /\ c = LastConn(s) /\ s \in Seq(Frame)
    BY <1>1
  <2>5. Stays(conn, conn', s, t, n)
    BY <1>4, <1>7, <1>8, <2>2, <2>3 DEF Stays
  <2>6. t \in Seq(Frame) /\ conn' \in [Conns -> Conn]
    BY <1>4, <1>7
  <2> QED
    BY <2>1, <2>4, <2>5, <2>6, StayDatabase
<1>10. Opened(run[w].script, t)
  <2>1. Opened(run[w].script, s)
    BY Facts
  <2> QED
    BY <1>1, <1>2, <1>4, <2>1 DEF Opened
<1>11. Sound(conn', w, r)
  BY <1>5, <1>9, <1>10 DEF Sound
<1> QED
  BY <1>5, <1>6, <1>7, <1>11, StepSound, Facts

\* It gives its connection back.
LEMMA DatabaseGoes ==
    ASSUME IInv, NEW w \in Workers, run[w].stack # <<>>, Last(run[w].stack).kind = "database",
           NEW q \in Conn, Sets(LastConn(run[w].stack), q),
           q.owner = NoWorker, q.id = conn[LastConn(run[w].stack)].id, q.tx = "none",
           q.pending = {},
           NEW n \in {"run", "error", "broken"}, NEW pc \in Nat, Pop(w, pc, n),
           UNCHANGED <<driver, applied, broke>>
    PROVE  IInv'
<1> DEFINE c == LastConn(run[w].stack)
<1>1. c \in Conns /\ conn[c].owner = w /\ NoWorker \notin Workers
  BY InnermostDatabase, DatabaseAssumption
<1>2. /\ Neat(conn') /\ Apart(conn, conn', w) /\ conn'[c] = q /\ conn' \in [Conns -> Conn]
      /\ \A d \in Conns : d # c => conn'[d] = conn[d]
  BY <1>1, OwnChanged
<1>3. /\ run[w].stack \in Seq(Frame) /\ Held(conn, w, run[w].stack, run[w].mode)
      /\ conn \in [Conns -> Conn] /\ run[w].mode \in Modes
  BY Facts
<1>4. conn'[c].owner # w
  BY <1>1, <1>2
<1>5. Held(conn', w, Front(run[w].stack), n)
  BY <1>2, <1>3, <1>4, PopDatabase
<1> QED
  BY <1>2, <1>5, PopSound, Facts, ModeTypes

LEMMA ConnectMode ==
    ASSUME IInv, NEW w \in Workers, run[w].mode = "connect"
    PROVE  run[w].stack # <<>> /\ Last(run[w].stack).kind = "database"
BY Facts DEF Held, Placed, Kind, Last

\* A step that leaves the number of attempts as it is.
LEMMA SameTries ==
    ASSUME IInv, NEW w \in Workers, run[w].stack # <<>>, Last(run[w].stack).kind = "database",
           NEW m, NEW pc
    PROVE  [run[w] EXCEPT !.mode = m, !.pc = pc] =
           [run[w] EXCEPT !.mode = m, !.pc = pc,
                          !.stack[Len(run[w].stack)].tries = Last(run[w].stack).tries]
<1> DEFINE s == run[w].stack
<1>1. /\ s \in Seq(Frame) /\ Len(s) \in Nat \ {0} /\ DOMAIN s = 1..Len(s)
      /\ Last(s) = s[Len(s)] /\ Last(s) \in Frame
  BY Shortened, Facts
<1>2. [Last(s) EXCEPT !.tries = Last(s).tries] = Last(s)
  BY <1>1 DEF Frame
<1>3. [s EXCEPT ![Len(s)].tries = Last(s).tries] = s
  BY <1>1, <1>2
<1> QED
  BY <1>3, Facts DEF Run

LEMMA ConnectStep == ASSUME IInv, NEW w \in Workers, Connect(w) PROVE IInv'
<1> DEFINE c == LastConn(run[w].stack)
           q == IF conn[c].state = "closed" THEN [conn[c] EXCEPT !.state = "open"] ELSE conn[c]
<1>1. run[w].stack # <<>> /\ Last(run[w].stack).kind = "database"
  BY ConnectMode DEF Connect
<1>2. /\ c \in Conns /\ conn[c] \in Conn /\ conn[c].owner = w /\ conn[c].tx = "none"
      /\ conn[c].pending = {} /\ Last(run[w].stack).tries \in 1..3
  BY <1>1, InnermostDatabase
<1>3. conn \in [Conns -> Conn]
  BY DEF IInv, TypeOK
<1>4. /\ q \in Conn /\ q.owner = w /\ q.id = conn[c].id /\ q.tx = "none" /\ q.pending = {}
      /\ q.state # "closed"
  BY <1>2 DEF Conn
<1>5. Sets(c, q)
  BY <1>2, <1>3 DEF Connect, LastConn, Sets
<1>6. Goes(w, [run[w] EXCEPT !.mode = "run", !.pc = run[w].pc])
  BY Facts DEF Connect, Goes, Run
<1>7. Resumes(w, "run", run[w].pc, Last(run[w].stack).tries)
  BY <1>1, <1>6, SameTries, ZenonT(60) DEF Resumes
<1> HIDE DEF q
<1>8. UNCHANGED <<driver, applied, broke>>
  BY DEF Connect
<1> QED
  BY <1>1, <1>2, <1>4, <1>5, <1>7, <1>8, DatabaseStays, Facts

LEMMA BrokeTypes ==
    ASSUME IInv, NEW w \in Workers, NEW b \in BOOLEAN, broke' = [broke EXCEPT ![w] = @ \/ b]
    PROVE  broke' \in [Workers -> BOOLEAN]
BY Facts

LEMMA ConnectFailsStep == ASSUME IInv, NEW w \in Workers, ConnectFails(w) PROVE IInv'
<1> DEFINE c == LastConn(run[w].stack)
           q == IF driver = "sqlite" THEN [conn[c] EXCEPT !.state = "dead"] ELSE conn[c]
           n == IF driver = "pgsql" THEN "broken" ELSE "error"
<1>1. run[w].stack # <<>> /\ Last(run[w].stack).kind = "database"
  BY ConnectMode DEF ConnectFails
<1>2. /\ c \in Conns /\ conn[c] \in Conn /\ conn[c].owner = w /\ conn[c].tx = "none"
      /\ conn[c].pending = {} /\ Last(run[w].stack).tries \in 1..3
  BY <1>1, InnermostDatabase
<1>3. conn \in [Conns -> Conn]
  BY DEF IInv, TypeOK
<1>4. q \in Conn /\ q.owner = w /\ q.id = conn[c].id /\ q.tx = "none" /\ q.pending = {}
  BY <1>2 DEF Conn
<1>5. Sets(c, q)
  BY <1>2, <1>3 DEF ConnectFails, LastConn, Sets
<1>6. Goes(w, [run[w] EXCEPT !.mode = n, !.pc = run[w].pc])
  BY Facts DEF ConnectFails, Goes, Run
<1> HIDE DEF n
<1>7. Resumes(w, n, run[w].pc, Last(run[w].stack).tries)
  BY <1>1, <1>6, SameTries, ZenonT(60) DEF Resumes
<1>8. n \in {"run", "connect", "error", "broken"} /\ n # "run"
  BY DEF n
<1>9. broke' \in [Workers -> BOOLEAN] /\ driver' = driver /\ applied' = applied
  BY BrokeTypes DEF ConnectFails
<1> HIDE DEF q
<1> QED
  BY <1>1, <1>2, <1>4, <1>5, <1>7, <1>8, <1>9, DatabaseStays, Facts

LEMMA LeaveDatabaseStep == ASSUME IInv, NEW w \in Workers, LeaveDatabase(w) PROVE IInv'
<1> DEFINE c == LastConn(run[w].stack)
           q == Released(conn[c])
<1>1. run[w].stack # <<>> /\ Last(run[w].stack).kind = "database"
  BY DEF LeaveDatabase, Within
<1>2. /\ c \in Conns /\ conn[c] \in Conn /\ conn[c].tx = "none" /\ conn[c].pending = {}
  BY <1>1, InnermostDatabase
<1>3. /\ q \in Conn /\ q.owner = NoWorker /\ q.id = conn[c].id /\ q.tx = "none"
      /\ q.pending = {}
  BY <1>2 DEF Conn, Released
<1>4. Sets(c, q)
  BY <1>2, Facts DEF LeaveDatabase, LastConn, Sets, Released
<1>5. run[w].pc + 1 \in Nat
  BY Facts
<1>6. Pop(w, run[w].pc + 1, "run") /\ UNCHANGED <<driver, applied, broke>>
  BY DEF LeaveDatabase
<1> HIDE DEF q
<1> QED
  BY <1>1, <1>3, <1>4, <1>5, <1>6, DatabaseGoes

LEMMA UnwindDatabaseStep == ASSUME IInv, NEW w \in Workers, UnwindDatabase(w) PROVE IInv'
<1> DEFINE c == LastConn(run[w].stack)
           q == Released(IF driver \in {"odbc", "redis"} THEN Closed(conn[c]) ELSE conn[c])
<1>1. run[w].stack # <<>> /\ Last(run[w].stack).kind = "database"
  BY DEF UnwindDatabase, Within
<1>2. /\ c \in Conns /\ conn[c] \in Conn /\ conn[c].tx = "none" /\ conn[c].pending = {}
  BY <1>1, InnermostDatabase
<1>3. /\ q \in Conn /\ q.owner = NoWorker /\ q.id = conn[c].id /\ q.tx = "none"
      /\ q.pending = {}
  BY <1>2 DEF Conn, Released, Closed
<1>4. Sets(c, q)
  BY <1>2, Facts DEF UnwindDatabase, LastConn, Sets, Released
<1>5. run[w].pc \in Nat /\ run[w].mode \in {"run", "error", "broken"}
  BY Facts DEF UnwindDatabase, Unwinding
<1>6. Pop(w, run[w].pc, run[w].mode) /\ UNCHANGED <<driver, applied, broke>>
  BY DEF UnwindDatabase
<1> HIDE DEF q
<1> QED
  BY <1>1, <1>3, <1>4, <1>5, <1>6, DatabaseGoes

LEMMA ReconnectStep == ASSUME IInv, NEW w \in Workers, Reconnect(w) PROVE IInv'
<1> DEFINE f == Last(run[w].stack)
           c == LastConn(run[w].stack)
<1>1. run[w].stack # <<>> /\ f.kind = "database" /\ UNCHANGED <<driver, applied, broke>>
  BY DEF Reconnect, Within
<1>2. /\ c \in Conns /\ conn[c] \in Conn /\ conn[c].owner = w /\ conn[c].tx = "none"
      /\ f.tries \in 1..3 /\ f.at \in Positions
  BY <1>1, InnermostDatabase DEF Frame
<1>3. run[w].pc \in Nat
  BY Facts
<1>4. CASE f.tries = 1
  <2> DEFINE q == Released(Closed(conn[c]))
  <2>1. /\ q \in Conn /\ q.owner = NoWorker /\ q.id = conn[c].id /\ q.tx = "none"
        /\ q.pending = {}
    BY <1>2 DEF Conn, Released, Closed
  <2>2. Sets(c, q)
    BY <1>2, <1>4, Facts DEF Reconnect, LastConn, Sets, Released
  <2>3. Pop(w, run[w].pc, "error")
    BY <1>4 DEF Reconnect
  <2> HIDE DEF q
  <2> QED
    BY <1>1, <1>3, <2>1, <2>2, <2>3, DatabaseGoes
<1>5. CASE f.tries # 1
  <2> DEFINE q == Closed(conn[c])
  <2>1. /\ q \in Conn /\ q.owner = w /\ q.id = conn[c].id /\ q.tx = "none" /\ q.pending = {}
    BY <1>2 DEF Conn, Closed
  <2>2. Sets(c, q)
    BY <1>2, <1>5, Facts DEF Reconnect, LastConn, Sets, Closed
  <2>3. Resumes(w, "connect", f.at + 1, f.tries - 1)
    BY <1>5 DEF Reconnect, Resumes
  <2>4. f.tries - 1 \in 1..3
    BY <1>2, <1>5
  <2>5. f.at + 1 \in Nat
    <3>1. f.at \in Nat
      BY <1>2, PositionTypes, Zenon
    <3> QED
      BY <3>1
  <2>6. broke' \in [Workers -> BOOLEAN]
    BY <1>1, Facts
  <2> HIDE DEF q
  <2> QED
    BY <1>1, <2>1, <2>2, <2>3, <2>4, <2>5, <2>6, DatabaseStays
<1> QED
  BY <1>4, <1>5

\* The innermost tag of w is a transaction tag.
LEMMA InnermostTransaction ==
    ASSUME IInv, NEW w \in Workers, run[w].stack # <<>>,
           Last(run[w].stack).kind = "transaction"
    PROVE  /\ LastConn(run[w].stack) \in Conns /\ conn[LastConn(run[w].stack)] \in Conn
           /\ conn[LastConn(run[w].stack)].owner = w
           /\ conn[LastConn(run[w].stack)].state # "closed"
           /\ Whole(conn[LastConn(run[w].stack)], run[w].stack, Len(run[w].stack))
           /\ Inner(run[w].stack, Len(run[w].stack)) = {}
<1> DEFINE s == run[w].stack
<1>1. /\ s \in Seq(Frame) /\ Held(conn, w, s, run[w].mode) /\ conn \in [Conns -> Conn]
  BY Facts
<1>2. Len(s) \in Nat \ {0} /\ DOMAIN s = 1..Len(s) /\ Last(s) = s[Len(s)]
  BY <1>1, Shortened
<1>3. Len(s) \in DOMAIN s /\ s[Len(s)].kind = "transaction" /\ s[Len(s)].conn = LastConn(s)
  BY <1>2 DEF LastConn
<1>4. PICK j \in DOMAIN s : Kind(s, j, "database") /\ s[j].conn = LastConn(s) /\ j < Len(s)
  BY <1>1, <1>3 DEF Held, Transactions
<1>5. Whole(conn[LastConn(s)], s, Len(s))
  BY <1>1, <1>3 DEF Held, Transactions
<1>6. /\ LastConn(s) \in Conns /\ conn[LastConn(s)].owner = w
      /\ conn[LastConn(s)].state # "closed"
  BY <1>1, <1>4 DEF Held, Leases, Kind
<1>7. Inner(s, Len(s)) = {}
  BY <1>2 DEF Inner
<1> QED
  BY <1>1, <1>5, <1>6, <1>7

\* It ends, however that may be.
LEMMA TransactionGoes ==
    ASSUME IInv, NEW w \in Workers, run[w].stack # <<>>,
           Last(run[w].stack).kind = "transaction",
           NEW q \in Conn, Sets(LastConn(run[w].stack), q), q.owner = w,
           q.id = conn[LastConn(run[w].stack)].id, q.tx = "none", q.pending = {},
           q.state # "closed",
           NEW n \in {"run", "error", "broken"}, NEW pc \in Nat, Pop(w, pc, n), driver' = driver,
           applied' \in [Workers -> [Positions -> Nat]], broke' \in [Workers -> BOOLEAN]
    PROVE  IInv'
<1> DEFINE c == LastConn(run[w].stack)
<1>1. c \in Conns /\ conn[c].owner = w
  BY InnermostTransaction
<1>2. NoWorker \notin Workers
  BY DatabaseAssumption
<1>3. /\ Neat(conn') /\ Apart(conn, conn', w) /\ conn'[c] = q /\ conn' \in [Conns -> Conn]
      /\ \A d \in Conns : d # c => conn'[d] = conn[d]
  BY <1>1, <1>2, OwnChanged
<1>4. /\ run[w].stack \in Seq(Frame) /\ Held(conn, w, run[w].stack, run[w].mode)
      /\ conn \in [Conns -> Conn] /\ run[w].mode \in Modes
  BY Facts
<1>5. /\ conn'[c].owner = conn[c].owner /\ conn'[c].id = conn[c].id
      /\ conn'[c].tx = "none" /\ conn'[c].state # "closed"
  BY <1>1, <1>3
<1>6. Held(conn', w, Front(run[w].stack), n)
  BY <1>3, <1>4, <1>5, PopTransaction
<1> QED
  BY <1>3, <1>6, PopSound, ModeTypes

LEMMA NoTxSets ==
    ASSUME IInv, NEW c \in Conns
    PROVE  NoTx(c) = [conn EXCEPT ![c] = [conn[c] EXCEPT !.tx = "none", !.pending = {}]]
BY Facts DEF NoTx, IInv, TypeOK, Conn

LEMMA CommitTransactionStep == ASSUME IInv, NEW w \in Workers, CommitTransaction(w) PROVE IInv'
<1> DEFINE c == LastConn(run[w].stack)
           q == [conn[c] EXCEPT !.tx = "none", !.pending = {}]
<1>1. run[w].stack # <<>> /\ Last(run[w].stack).kind = "transaction"
  BY DEF CommitTransaction, Within
<1>2. c \in Conns /\ conn[c] \in Conn /\ conn[c].owner = w /\ conn[c].state # "closed"
  BY <1>1, InnermostTransaction
<1>3. /\ q \in Conn /\ q.owner = w /\ q.id = conn[c].id /\ q.tx = "none" /\ q.pending = {}
      /\ q.state # "closed"
  BY <1>2 DEF Conn
<1>4. Sets(c, q)
  BY <1>2, NoTxSets DEF CommitTransaction, LastConn, Sets
<1>5. applied' \in [Workers -> [Positions -> Nat]] /\ broke' \in [Workers -> BOOLEAN]
  <2>1. (\E S : Commit(w, S)) \/ applied' = applied
    BY DEF CommitTransaction
  <2>2. broke' = broke
    BY DEF CommitTransaction
  <2> QED
    BY <2>1, <2>2, CommitTypes, Facts
<1>6. Pop(w, run[w].pc + 1, "run") /\ driver' = driver /\ run[w].pc + 1 \in Nat
  BY Facts DEF CommitTransaction
<1> HIDE DEF q
<1> QED
  BY <1>1, <1>3, <1>4, <1>5, <1>6, TransactionGoes

LEMMA CommitFailsStep == ASSUME IInv, NEW w \in Workers, CommitFails(w) PROVE IInv'
<1> DEFINE c == LastConn(run[w].stack)
           q == [conn[c] EXCEPT !.tx = "none", !.pending = {}]
           d == [q EXCEPT !.state = "dead"]
           n == IF driver = "pgsql" THEN "broken" ELSE "error"
<1>1. run[w].stack # <<>> /\ Last(run[w].stack).kind = "transaction" /\ driver' = driver
  BY DEF CommitFails, Within
<1>2. /\ c \in Conns /\ conn[c] \in Conn /\ conn[c].owner = w /\ conn[c].state # "closed"
      /\ conn \in [Conns -> Conn] /\ run[w].pc \in Nat
  BY <1>1, InnermostTransaction, Facts
<1>3. /\ q \in Conn /\ q.owner = w /\ q.id = conn[c].id /\ q.tx = "none" /\ q.pending = {}
      /\ q.state # "closed"
  BY <1>2 DEF Conn
<1>4. /\ d \in Conn /\ d.owner = w /\ d.id = conn[c].id /\ d.tx = "none" /\ d.pending = {}
      /\ d.state # "closed"
  BY <1>3 DEF Conn
<1>5. NoTx(c) = [conn EXCEPT ![c] = q]
  BY <1>2, NoTxSets
<1> HIDE DEF q
<1>6. [NoTx(c) EXCEPT ![c].state = "dead"] = [conn EXCEPT ![c] = d]
  BY <1>2, <1>5
<1> HIDE DEF d, n
<1>7. \/ conn' = NoTx(c) /\ Pop(w, run[w].pc, "error") /\ UNCHANGED <<applied, broke>>
      \/ /\ conn' = [NoTx(c) EXCEPT ![c].state = "dead"]
         /\ \/ /\ UNCHANGED applied /\ Pop(w, run[w].pc, n)
               /\ broke' = [broke EXCEPT ![w] = @ \/ driver = "pgsql"]
            \/ /\ Commit(w, conn[c].pending) /\ Pop(w, run[w].pc, "error") /\ UNCHANGED broke
  BY DEF CommitFails, LastConn, n
<1>8. applied' \in [Workers -> [Positions -> Nat]] /\ broke' \in [Workers -> BOOLEAN]
  BY <1>7, CommitTypes, BrokeTypes, Facts
<1>9. Sets(c, q) \/ Sets(c, d)
  BY <1>5, <1>6, <1>7 DEF Sets
<1>10. Pop(w, run[w].pc, "error") \/ Pop(w, run[w].pc, n)
  BY <1>7
<1>11. n \in {"run", "error", "broken"}
  BY DEF n
<1>12. CASE Sets(c, q)
  BY <1>1, <1>2, <1>3, <1>8, <1>10, <1>11, <1>12, TransactionGoes
<1>13. CASE Sets(c, d)
  BY <1>1, <1>2, <1>4, <1>8, <1>10, <1>11, <1>13, TransactionGoes
<1> QED
  BY <1>9, <1>12, <1>13

LEMMA UnwindTransactionStep == ASSUME IInv, NEW w \in Workers, UnwindTransaction(w) PROVE IInv'
<1> DEFINE c == LastConn(run[w].stack)
           q == [conn[c] EXCEPT !.tx = "none", !.pending = {}]
<1>1. run[w].stack # <<>> /\ Last(run[w].stack).kind = "transaction"
  BY DEF UnwindTransaction, Within
<1>2. c \in Conns /\ conn[c] \in Conn /\ conn[c].owner = w /\ conn[c].state # "closed"
  BY <1>1, InnermostTransaction
<1>3. /\ q \in Conn /\ q.owner = w /\ q.id = conn[c].id /\ q.tx = "none" /\ q.pending = {}
      /\ q.state # "closed"
  BY <1>2 DEF Conn
<1>4. Sets(c, q)
  BY <1>2, NoTxSets DEF UnwindTransaction, LastConn, Sets
<1>5. Pop(w, run[w].pc, run[w].mode) /\ UNCHANGED <<driver, applied, broke>>
  BY DEF UnwindTransaction
<1>6. run[w].pc \in Nat /\ run[w].mode \in {"run", "error", "broken"}
  BY Facts DEF UnwindTransaction, Unwinding
<1>7. applied' \in [Workers -> [Positions -> Nat]] /\ broke' \in [Workers -> BOOLEAN]
  BY <1>5, Facts
<1> HIDE DEF q
<1> QED
  BY <1>1, <1>3, <1>4, <1>5, <1>6, <1>7, TransactionGoes

LEMMA LeavePlainStep == ASSUME IInv, NEW w \in Workers, LeavePlain(w) PROVE IInv'
<1>1. run[w].stack # <<>> /\ Last(run[w].stack).kind \in {"try", "nested", "query"}
  BY DEF LeavePlain, Within
<1>2. Pop(w, run[w].pc + 1, "run") /\ UNCHANGED <<driver, conn, applied, broke>>
  BY DEF LeavePlain
<1>3. /\ run[w].stack \in Seq(Frame) /\ Held(conn, w, run[w].stack, run[w].mode)
      /\ conn \in [Conns -> Conn] /\ run[w].mode \in Modes /\ run[w].pc + 1 \in Nat
  BY Facts
<1>4. Held(conn', w, Front(run[w].stack), "run")
  BY <1>1, <1>2, <1>3, PopPlain
<1> QED
  BY <1>1, <1>2, <1>3, <1>4, PopSound, SameConns, ModeTypes, Facts

LEMMA UnwindPlainStep == ASSUME IInv, NEW w \in Workers, UnwindPlain(w) PROVE IInv'
<1>1. run[w].stack # <<>> /\ Last(run[w].stack).kind \in {"try", "nested", "query"}
  BY DEF UnwindPlain, Within
<1>2. UNCHANGED <<driver, conn, applied, broke>>
  BY DEF UnwindPlain
<1>3. /\ run[w].stack \in Seq(Frame) /\ Held(conn, w, run[w].stack, run[w].mode)
      /\ conn \in [Conns -> Conn] /\ run[w].mode \in Modes /\ run[w].pc \in Nat
      /\ run[w].script \in AllScripts \cup {<<>>} /\ Opened(run[w].script, run[w].stack)
  BY Facts
<1>4. ASSUME NEW n \in {"run", "error", "broken"}, NEW pc \in Nat, Pop(w, pc, n) PROVE IInv'
  <2>1. Held(conn', w, Front(run[w].stack), n)
    BY <1>1, <1>2, <1>3, PopPlain
  <2> QED
    BY <1>1, <1>2, <1>3, <1>4, <2>1, PopSound, SameConns, ModeTypes, Facts
<1>5. EndOf(run[w].script, Last(run[w].stack).at) + 1 \in Nat
  <2>1. /\ Len(run[w].stack) \in DOMAIN run[w].stack
        /\ Last(run[w].stack) = run[w].stack[Len(run[w].stack)]
    <3>1. /\ Len(run[w].stack) \in Nat \ {0} /\ DOMAIN run[w].stack = 1..Len(run[w].stack)
          /\ Last(run[w].stack) = run[w].stack[Len(run[w].stack)]
      BY <1>1, <1>3, Shortened
    <3> QED
      BY <3>1
  <2>2. /\ Last(run[w].stack).at \in DOMAIN run[w].script
        /\ run[w].script[Last(run[w].stack).at].op # "end"
    BY <1>3, <2>1 DEF Opened
  <2>3. EndOf(run[w].script, Last(run[w].stack).at) \in Nat
    BY <1>3, <2>2, ScriptTypes
  <2> QED
    BY <2>3
<1>6. run[w].mode \in {"run", "error", "broken"}
  BY DEF UnwindPlain, Unwinding
<1>7. \/ Pop(w, run[w].pc, run[w].mode)
      \/ Pop(w, EndOf(run[w].script, Last(run[w].stack).at) + 1, "run")
  BY DEF UnwindPlain
<1> QED
  BY <1>3, <1>4, <1>5, <1>6, <1>7

LEMMA BeginTransactionStep == ASSUME IInv, NEW w \in Workers, BeginTransaction(w) PROVE IInv'
<1> DEFINE c == Visible(w, Instr(w).id)
           f == NewFrame(w, "transaction", c)
           q == [conn[c] EXCEPT !.tx = "open", !.state = "open"]
           s == run[w].stack
<1>1. /\ At(w, "transaction") /\ c # NoConn /\ conn[c].tx = "none"
      /\ Push(w, f, "run") /\ UNCHANGED <<driver, applied, broke>>
  BY DEF BeginTransaction
<1>2. /\ run[w].mode = "run" /\ s \in Seq(Frame) /\ Held(conn, w, s, "run")
      /\ conn \in [Conns -> Conn] /\ NoWorker \notin Workers
  BY <1>1, Facts, AtTypes, DatabaseAssumption
<1>3. PICK k \in DOMAIN s :
        s[k].kind = "database" /\ s[k].conn = c /\ c \in Conns /\ conn[c].owner = w
  BY <1>1, VisibleLeased
<1>4. f \in Frame /\ f.kind = "transaction" /\ f.conn = c /\ f.done = {} /\ f.at = run[w].pc
  <2>1. f \in Frame
    BY <1>1, <1>3, NewFrameTypes DEF Kinds
  <2> QED
    BY <2>1 DEF NewFrame
<1>5. conn[c] \in Conn /\ conn[c].pending = {}
  BY <1>1, <1>2, <1>3 DEF IInv, Clean
<1>6. /\ q \in Conn /\ q.owner = w /\ q.id = conn[c].id /\ q.tx = "open"
      /\ q.state = "open" /\ q.pending = conn[c].pending
  BY <1>3, <1>5 DEF Conn
<1>7. Sets(c, q)
  BY <1>2, <1>3 DEF BeginTransaction, Sets
<1> HIDE DEF c, f, q
<1>8. /\ Neat(conn') /\ Apart(conn, conn', w) /\ conn'[c] = q /\ conn' \in [Conns -> Conn]
      /\ \A d \in Conns : d # c => conn'[d] = conn[d]
  BY <1>2, <1>3, <1>6, <1>7, OwnChanged
<1>9. /\ conn'[c].owner = conn[c].owner /\ conn'[c].id = conn[c].id /\ conn'[c].tx = "open"
      /\ conn'[c].state = "open" /\ conn'[c].pending = conn[c].pending
  BY <1>3, <1>6, <1>8
<1>10. Held(conn', w, Append(s, f), "run")
  BY <1>1, <1>2, <1>3, <1>4, <1>5, <1>8, <1>9, PushTransaction
<1> QED
  BY <1>1, <1>4, <1>8, <1>10, PushSound, ModeTypes

\* A statement on a connection that w leases.
LEMMA StatementHeld ==
    ASSUME IInv, NEW w \in Workers, run[w].mode = "run", NEW c \in Conns, conn[c].owner = w,
           NEW q \in Conn, Sets(c, q), q.owner = w, q.id = conn[c].id,
           q.tx # "none" => conn[c].tx # "none", q.tx # "open" => q.pending = {},
           conn[c].state # "closed" => q.state # "closed",
           NEW STATE t, t \in Seq(Frame), Marks(conn, conn', c, run[w].stack, t),
           NEW n \in {"run", "error"}
    PROVE  /\ Held(conn', w, t, n) /\ Opened(run[w].script, t)
           /\ Neat(conn') /\ Apart(conn, conn', w)
<1> DEFINE s == run[w].stack
<1>1. /\ s \in Seq(Frame) /\ Held(conn, w, s, "run") /\ Opened(run[w].script, s)
      /\ conn \in [Conns -> Conn] /\ NoWorker \notin Workers
  BY Facts, DatabaseAssumption
<1>2. /\ Neat(conn') /\ Apart(conn, conn', w) /\ conn'[c] = q /\ conn' \in [Conns -> Conn]
      /\ \A d \in Conns : d # c => conn'[d] = conn[d]
  BY <1>1, OwnChanged
<1>3. Keeps(conn, conn', c)
  BY <1>2 DEF Keeps
<1>4. Held(conn', w, t, n)
  BY <1>1, <1>2, <1>3, StayTransaction
<1>5. DOMAIN t = DOMAIN s
  BY <1>1, LenProperties DEF Marks
<1>6. Opened(run[w].script, t)
  BY <1>1, <1>5 DEF Opened, Marks
<1> QED
  BY <1>2, <1>4, <1>6

\* Worker w goes on at pc with stack t.
Turns(w, pc, t, m) == Goes(w, [run[w] EXCEPT !.pc = pc, !.stack = t, !.mode = m])

LEMMA TurnSound ==
    ASSUME IInv, NEW w \in Workers, NEW STATE t, t \in Seq(Frame), NEW STATE pc, pc \in Nat,
           NEW m \in Modes, Turns(w, pc, t, m), Held(conn', w, t, m), Opened(run[w].script, t),
           Neat(conn'), Apart(conn, conn', w), driver' = driver,
           applied' \in [Workers -> [Positions -> Nat]], broke' \in [Workers -> BOOLEAN]
    PROVE  IInv'
<1> DEFINE r == [run[w] EXCEPT !.pc = pc, !.stack = t, !.mode = m]
<1>1. r \in Run /\ r.script = run[w].script /\ r.stack = t /\ r.mode = m
  BY Facts DEF Run
<1>2. Goes(w, r)
  BY DEF Turns
<1> HIDE DEF r
<1>3. Sound(conn', w, r)
  BY <1>1 DEF Sound
<1> QED
  BY <1>1, <1>2, <1>3, StepSound

LEMMA ThrowTurns ==
    ASSUME IInv, NEW w \in Workers, Throw(w)
    PROVE  Turns(w, run[w].pc, run[w].stack, "error")
BY Facts DEF Throw, Turns, Run

LEMMA ThrowHeld ==
    ASSUME IInv, NEW w \in Workers, run[w].mode = "run", conn' = conn
    PROVE  Held(conn', w, run[w].stack, "error")
BY Facts DEF Held, Placed, Leases

LEMMA BeginTransactionFailsStep ==
    ASSUME IInv, NEW w \in Workers, BeginTransactionFails(w) PROVE IInv'
<1> DEFINE c == Visible(w, Instr(w).id)
           s == run[w].stack
           q == [conn[c] EXCEPT !.state = "dead",
                                !.tx = IF @ = "none" THEN "none" ELSE "aborted", !.pending = {}]
<1>1. At(w, "transaction") /\ Throw(w) /\ UNCHANGED <<driver, applied, broke>>
  BY DEF BeginTransactionFails
<1>2. /\ run[w].mode = "run" /\ s \in Seq(Frame) /\ Opened(run[w].script, s)
      /\ run[w].pc \in Nat /\ conn \in [Conns -> Conn]
      /\ applied' \in [Workers -> [Positions -> Nat]] /\ broke' \in [Workers -> BOOLEAN]
  BY <1>1, Facts, AtTypes
<1>3. Turns(w, run[w].pc, s, "error")
  BY <1>1, ThrowTurns
<1>4. ASSUME Held(conn', w, s, "error"), Neat(conn'), Apart(conn, conn', w) PROVE IInv'
  BY <1>1, <1>2, <1>3, <1>4, TurnSound, ModeTypes
<1>5. CASE conn' = conn
  BY <1>2, <1>4, <1>5, ThrowHeld, SameConns
<1>6. CASE /\ c # NoConn
           /\ conn' = [conn EXCEPT ![c].state = "dead",
                          ![c].tx = IF @ = "none" THEN "none" ELSE "aborted", ![c].pending = {}]
  <2>1. c \in Conns /\ conn[c].owner = w
    BY <1>6, VisibleLeased
  <2>2. /\ q \in Conn /\ q.owner = w /\ q.id = conn[c].id /\ q.pending = {}
        /\ q.tx = IF conn[c].tx = "none" THEN "none" ELSE "aborted"
        /\ q.state = "dead"
    BY <1>2, <2>1, ZenonT(30) DEF Conn
  <2>3. Sets(c, q)
    BY <1>2, <1>6, <2>1 DEF Sets
  <2> HIDE DEF q, c
  <2>4. conn'[c] = q
    BY <1>2, <2>1, <2>3 DEF Sets
  <2>5. Marks(conn, conn', c, s, s)
    BY <2>2, <2>4 DEF Marks, Whole
  <2>6. Held(conn', w, s, "error") /\ Neat(conn') /\ Apart(conn, conn', w)
    BY <1>2, <2>1, <2>2, <2>3, <2>5, StatementHeld
  <2> QED
    BY <1>4, <2>6
<1> QED
  BY <1>5, <1>6 DEF BeginTransactionFails

\* The frames of w after an update, and after a statement that failed.
Done(w, c, p, e) == [k \in DOMAIN run[w].stack |->
    IF e = "update" /\ k \in OnConn(w, c) THEN [run[w].stack[k] EXCEPT !.done = @ \cup {p}]
                                ELSE run[w].stack[k]]
Failed(w, c) == [k \in DOMAIN run[w].stack |->
    [run[w].stack[k] EXCEPT !.failed = @ \/ k \in OnConn(w, c)]]

Updated(s, t, c, p, e) ==
    /\ Len(t) = Len(s)
    /\ \A k \in DOMAIN s :
         /\ t[k].kind = s[k].kind /\ t[k].conn = s[k].conn /\ t[k].at = s[k].at
         /\ t[k].id = s[k].id /\ t[k].tries = s[k].tries /\ t[k].failed = s[k].failed
         /\ t[k].done = IF e = "update" /\ s[k].kind = "transaction" /\ s[k].conn = c
                          THEN s[k].done \cup {p} ELSE s[k].done

LEMMA DoneFrames ==
    ASSUME IInv, NEW w \in Workers, NEW c, NEW p \in Positions, NEW e
    PROVE  Done(w, c, p, e) \in Seq(Frame) /\ Updated(run[w].stack, Done(w, c, p, e), c, p, e)
<1> DEFINE s == run[w].stack
           t == Done(w, c, p, e)
<1>1. s \in Seq(Frame) /\ Len(s) \in Nat /\ DOMAIN s = 1..Len(s)
  BY Facts, LenProperties
<1>2. \A k \in DOMAIN s :
          /\ s[k] \in Frame
          /\ k \in OnConn(w, c) <=> s[k].kind = "transaction" /\ s[k].conn = c
  BY <1>1, ElementOfSeq DEF OnConn, Frames
<1>3. \A k \in DOMAIN s :
          t[k] = IF e = "update" /\ k \in OnConn(w, c)
                   THEN [s[k] EXCEPT !.done = @ \cup {p}] ELSE s[k]
  BY DEF Done
<1>4. DOMAIN t = 1..Len(s)
  BY <1>1 DEF Done
<1> HIDE DEF s, t
<1>5. \A f \in Frame : /\ [f EXCEPT !.done = @ \cup {p}] \in Frame
                       /\ f.done \cup {p} \in SUBSET Positions
  BY DEF Frame
<1>6. ASSUME NEW k \in DOMAIN s
      PROVE  /\ t[k] \in Frame
             /\ t[k].kind = s[k].kind /\ t[k].conn = s[k].conn /\ t[k].at = s[k].at
             /\ t[k].id = s[k].id /\ t[k].tries = s[k].tries /\ t[k].failed = s[k].failed
             /\ t[k].done = IF e = "update" /\ s[k].kind = "transaction" /\ s[k].conn = c
                              THEN s[k].done \cup {p} ELSE s[k].done
  <2>1. s[k] \in Frame
    BY <1>2
  <2>2. CASE e = "update" /\ k \in OnConn(w, c)
    <3>1. t[k] = [s[k] EXCEPT !.done = @ \cup {p}]
      BY <1>3, <2>2
    <3>2. e = "update" /\ s[k].kind = "transaction" /\ s[k].conn = c
      BY <1>2, <2>2
    <3> QED
      BY <1>5, <2>1, <3>1, <3>2 DEF Frame
  <2>3. CASE ~(e = "update" /\ k \in OnConn(w, c))
    BY <1>2, <1>3, <2>1, <2>3
  <2> QED
    BY <2>2, <2>3
<1>7. t \in [1..Len(s) -> Frame]
  <2>1. t = [k \in 1..Len(s) |-> t[k]]
    BY <1>1, <1>4 DEF t, Done, s
  <2> QED
    BY <1>1, <1>6, <2>1
<1>8. t \in Seq(Frame) /\ Len(t) = Len(s)
  BY <1>1, <1>7, FunctionSeq
<1> QED
  BY <1>6, <1>8 DEF s, t, Updated

Refused(s, t, c) ==
    /\ Len(t) = Len(s)
    /\ \A k \in DOMAIN s :
         /\ t[k].kind = s[k].kind /\ t[k].conn = s[k].conn /\ t[k].at = s[k].at
         /\ t[k].id = s[k].id /\ t[k].tries = s[k].tries /\ t[k].done = s[k].done
         /\ s[k].conn # c => t[k].failed = s[k].failed
         /\ s[k].kind = "transaction" /\ s[k].conn = c => t[k].failed

LEMMA FailedFrames ==
    ASSUME IInv, NEW w \in Workers, NEW c
    PROVE  Failed(w, c) \in Seq(Frame) /\ Refused(run[w].stack, Failed(w, c), c)
<1> DEFINE s == run[w].stack
           t == Failed(w, c)
<1>1. s \in Seq(Frame) /\ Len(s) \in Nat /\ DOMAIN s = 1..Len(s)
  BY Facts, LenProperties
<1>2. \A k \in DOMAIN s :
          /\ s[k] \in Frame
          /\ k \in OnConn(w, c) <=> s[k].kind = "transaction" /\ s[k].conn = c
  BY <1>1, ElementOfSeq DEF OnConn, Frames
<1>3. \A k \in DOMAIN s : t[k] = [s[k] EXCEPT !.failed = @ \/ k \in OnConn(w, c)]
  BY DEF Failed
<1>4. DOMAIN t = 1..Len(s)
  BY <1>1 DEF Failed
<1> HIDE DEF s, t
<1>5. ASSUME NEW k \in DOMAIN s
      PROVE  /\ t[k] \in Frame
             /\ t[k].kind = s[k].kind /\ t[k].conn = s[k].conn /\ t[k].at = s[k].at
             /\ t[k].id = s[k].id /\ t[k].tries = s[k].tries /\ t[k].done = s[k].done
             /\ s[k].conn # c => t[k].failed = s[k].failed
             /\ s[k].kind = "transaction" /\ s[k].conn = c => t[k].failed
  <2> DEFINE b == s[k].failed \/ k \in OnConn(w, c)
  <2>1. s[k] \in Frame /\ t[k] = [s[k] EXCEPT !.failed = b]
    BY <1>2, <1>3
  <2>2. b \in BOOLEAN
    OBVIOUS
  <2>3. s[k].kind = "transaction" /\ s[k].conn = c => b
    BY <1>2
  <2>4. s[k].conn # c => b = s[k].failed
    BY <1>2, <2>1 DEF Frame
  <2> HIDE DEF b
  <2> QED
    BY <2>1, <2>2, <2>3, <2>4 DEF Frame
<1>6. t \in [1..Len(s) -> Frame]
  <2>1. t = [k \in 1..Len(s) |-> t[k]]
    BY <1>1, <1>4 DEF t, Failed, s
  <2> QED
    BY <1>1, <1>5, <2>1
<1>7. t \in Seq(Frame) /\ Len(t) = Len(s)
  BY <1>1, <1>6, FunctionSeq
<1> QED
  BY <1>5, <1>7 DEF s, t, Refused

LEMMA QueryStep == ASSUME IInv, NEW w \in Workers, Query(w) PROVE IInv'
<1> DEFINE i == Instr(w)
           c == Target(w, i.id)
           p == run[w].pc
           u == i.stmt = "update"
           s == run[w].stack
           t == Done(w, c, p, i.stmt)
           f == NewFrame(w, "query", NoConn)
<1>1. /\ At(w, "query") /\ c # NoConn /\ c = Visible(w, i.id) /\ conn[c].tx # "aborted"
      /\ conn[c].state = "open" \/ conn[c].tx = "none"
      /\ driver' = driver /\ broke' = broke
  BY DEF Query
<1>2. /\ run[w].mode = "run" /\ s \in Seq(Frame) /\ conn \in [Conns -> Conn]
      /\ p \in Positions /\ p \in Nat
  BY <1>1, Facts, AtTypes
<1>3. EndOf(run[w].script, p) + 1 \in Nat
  <2>1. EndOf(run[w].script, p) \in Nat
    BY <1>1, AtTypes
  <2> QED
    BY <2>1
<1>4. c \in Conns /\ conn[c].owner = w /\ conn[c] \in Conn
  BY <1>1, <1>2, VisibleLeased
<1>5. f \in Frame /\ f.kind = "query" /\ f.at = p
  <2>1. f \in Frame
    BY <1>1, NewFrameTypes DEF Kinds
  <2> QED
    BY <2>1 DEF NewFrame
<1>6. t \in Seq(Frame) /\ Updated(s, t, c, p, i.stmt)
  BY <1>2, DoneFrames
<1>7. /\ t \in Seq(Frame) /\ Len(t) = Len(s)
      /\ \A k \in DOMAIN s :
           /\ t[k].kind = s[k].kind /\ t[k].conn = s[k].conn /\ t[k].at = s[k].at
           /\ t[k].id = s[k].id /\ t[k].tries = s[k].tries /\ t[k].failed = s[k].failed
           /\ t[k].done = IF u /\ s[k].kind = "transaction" /\ s[k].conn = c
                            THEN s[k].done \cup {p} ELSE s[k].done
  <2> HIDE DEF t, c, p, s
  <2> QED
    BY <1>6 DEF Updated
<1>7a. PICK x \in BOOLEAN :
         conn' = [conn EXCEPT ![c].state = "open", ![c].changes = x,
                    ![c].pending = IF u /\ conn[c].tx = "open" THEN @ \cup {p} ELSE @]
  <2>1. Changes(c, i.stmt) \subseteq BOOLEAN
    BY <1>4 DEF Changes, Conn
  <2> QED
    BY <2>1 DEF Query
<1> DEFINE q == [conn[c] EXCEPT !.state = "open", !.changes = x,
                                !.pending = IF u /\ conn[c].tx = "open" THEN @ \cup {p} ELSE @]
<1>8. Sets(c, q)
  BY <1>2, <1>4, <1>7a DEF Sets
<1>9. /\ q \in Conn /\ q.owner = w /\ q.id = conn[c].id /\ q.tx = conn[c].tx
      /\ q.state = "open"
      /\ q.pending = IF u /\ conn[c].tx = "open" THEN conn[c].pending \cup {p}
                                                 ELSE conn[c].pending
  BY <1>2, <1>4 DEF Conn
<1>10. Turns(w, p + 1, Append(t, f), "run") \/ Turns(w, EndOf(run[w].script, p) + 1, t, "run")
  <2>1. \/ Goes(w, [run[w] EXCEPT !.pc = p + 1, !.stack = Append(t, f)])
        \/ Goes(w, [run[w] EXCEPT !.pc = EndOf(run[w].script, p) + 1, !.stack = t])
    BY DEF Query, Done
  <2> QED
    BY <1>2, <2>1, Facts DEF Turns, Run
<1>11. applied' \in [Workers -> [Positions -> Nat]] /\ broke' \in [Workers -> BOOLEAN]
  <2>1. Commit(w, {p}) \/ applied' = applied
    BY DEF Query
  <2> QED
    BY <1>1, <2>1, CommitTypes, Facts
<1> HIDE DEF q, t, f, c, p, u
<1>12. conn'[c] = q
  BY <1>2, <1>4, <1>8 DEF Sets
<1>13. \A k \in DOMAIN s : Inner(t, k) = Inner(s, k)
  <2>1. DOMAIN t = DOMAIN s
    BY <1>2, <1>7, LenProperties
  <2> QED
    BY <1>7, <2>1 DEF Inner
<1>14. ASSUME NEW k \in DOMAIN s, s[k].kind = "transaction", s[k].conn = c, Whole(conn[c], s, k)
       PROVE  Whole(conn'[c], t, k)
  <2>1. ~t[k].failed => q.tx = IF q.state = "open" THEN "open" ELSE "aborted"
    BY <1>1, <1>4, <1>7, <1>9, <1>14 DEF Whole, Conn
  <2>2. Inner(t, k) # {} => t[k].failed
    BY <1>7, <1>13, <1>14 DEF Whole
  <2>3. ASSUME Inner(t, k) = {}, q.tx = "open" PROVE q.pending = t[k].done
    <3>1. conn[c].pending = s[k].done
      BY <1>9, <1>13, <1>14, <2>3 DEF Whole
    <3> QED
      BY <1>7, <1>9, <1>14, <2>3, <3>1, ZenonT(30)
  <2> QED
    BY <1>12, <2>1, <2>2, <2>3 DEF Whole
<1>15. Marks(conn, conn', c, s, t)
  BY <1>7, <1>14 DEF Marks
<1>16. conn[c].tx # "open" => conn[c].pending = {}
  BY <1>4 DEF IInv, Clean
<1>17. /\ Held(conn', w, t, "run") /\ Opened(run[w].script, t)
       /\ Neat(conn') /\ Apart(conn, conn', w)
  <2>1. q.tx # "open" => q.pending = {}
    BY <1>9, <1>16
  <2> QED
    BY <1>2, <1>4, <1>7, <1>8, <1>9, <1>15, <2>1, StatementHeld
<1>18. CASE Turns(w, EndOf(run[w].script, p) + 1, t, "run")
  BY <1>1, <1>3, <1>7, <1>11, <1>17, <1>18, TurnSound, ModeTypes
<1>19. CASE Turns(w, p + 1, Append(t, f), "run")
  <2>1. conn' \in [Conns -> Conn] /\ p + 1 \in Nat
    BY <1>2, <1>17 DEF Neat
  <2>2. Append(t, f) \in Seq(Frame)
    BY <1>5, <1>7, AppendProperties
  <2>3. Held(conn', w, Append(t, f), "run")
    BY <1>5, <1>7, <1>17, <2>1, PushPlain
  <2>4. Opened(run[w].script, Append(t, f))
    <3>1. f.at = run[w].pc
      BY <1>5 DEF p
    <3> QED
      BY <1>1, <1>5, <1>7, <1>17, <3>1, PushOpened
  <2> QED
    BY <1>1, <1>11, <1>17, <1>19, <2>1, <2>2, <2>3, <2>4, TurnSound, ModeTypes
<1> QED
  BY <1>10, <1>18, <1>19

LEMMA QueryFailsStep == ASSUME IInv, NEW w \in Workers, QueryFails(w) PROVE IInv'
<1> DEFINE c == Target(w, Instr(w).id)
           s == run[w].stack
           t == Failed(w, c)
<1>1. At(w, "query") /\ driver' = driver /\ broke' = broke
  BY DEF QueryFails
<1>2. /\ run[w].mode = "run" /\ s \in Seq(Frame) /\ Opened(run[w].script, s)
      /\ run[w].pc \in Nat /\ conn \in [Conns -> Conn]
  BY <1>1, Facts, AtTypes
<1>3. broke' \in [Workers -> BOOLEAN] /\ applied \in [Workers -> [Positions -> Nat]]
  BY <1>1, Facts
<1>4. CASE UNCHANGED <<conn, applied>> /\ Throw(w)
  <2>1. Turns(w, run[w].pc, s, "error")
    BY <1>4, ThrowTurns
  <2>2. Held(conn', w, s, "error") /\ Neat(conn') /\ Apart(conn, conn', w)
    BY <1>2, <1>4, ThrowHeld, SameConns
  <2> QED
    BY <1>1, <1>2, <1>3, <1>4, <2>1, <2>2, TurnSound, ModeTypes
<1>5. CASE c # NoConn /\ c = Visible(w, Instr(w).id)
  <2>1. c \in Conns /\ conn[c].owner = w /\ conn[c] \in Conn
    BY <1>2, <1>5, VisibleLeased
  <2>2. t \in Seq(Frame) /\ Refused(s, t, c)
    BY FailedFrames
  <2>3. Turns(w, run[w].pc, t, "error")
    <3>1. Goes(w, [run[w] EXCEPT !.mode = "error", !.stack = t])
      BY <1>5 DEF QueryFails, Failed
    <3> QED
      BY <1>2, <3>1, Facts DEF Turns, Run
  <2>4. applied' \in [Workers -> [Positions -> Nat]]
    <3>1. applied' = applied \/ Commit(w, {run[w].pc})
      BY <1>5 DEF QueryFails
    <3> QED
      BY <1>3, <3>1, CommitTypes
  <2>5. \E st \in {conn[c].state, "dead"} :
          \/ conn' = [conn EXCEPT ![c].state = st]
          \/ conn' = NoTx(c)
          \/ /\ conn[c].tx # "none"
             /\ conn' = [conn EXCEPT ![c].state = st, ![c].tx = "aborted", ![c].pending = {}]
    BY <1>5 DEF QueryFails
  <2> HIDE DEF c
  <2>6. PICK st \in {conn[c].state, "dead"} :
          \/ conn' = [conn EXCEPT ![c].state = st]
          \/ conn' = NoTx(c)
          \/ /\ conn[c].tx # "none"
             /\ conn' = [conn EXCEPT ![c].state = st, ![c].tx = "aborted", ![c].pending = {}]
    BY <2>5
  <2> DEFINE q1 == [conn[c] EXCEPT !.state = st]
             q2 == [conn[c] EXCEPT !.tx = "none", !.pending = {}]
             q3 == [conn[c] EXCEPT !.state = st, !.tx = "aborted", !.pending = {}]
  <2>7. Sets(c, q1) \/ Sets(c, q2) \/ (conn[c].tx # "none" /\ Sets(c, q3))
    <3>1. NoTx(c) = [conn EXCEPT ![c] = q2]
      BY <2>1, NoTxSets
    <3>2. [conn EXCEPT ![c].state = st] = [conn EXCEPT ![c] = q1]
      BY <1>2, <2>1
    <3>3. [conn EXCEPT ![c].state = st, ![c].tx = "aborted", ![c].pending = {}] =
          [conn EXCEPT ![c] = q3]
      BY <1>2, <2>1
    <3>4. CASE conn' = [conn EXCEPT ![c].state = st]
      BY <3>4 DEF Sets
    <3>5. CASE conn' = NoTx(c)
      BY <3>1, <3>5 DEF Sets
    <3>6. CASE /\ conn[c].tx # "none"
               /\ conn' = [conn EXCEPT ![c].state = st, ![c].tx = "aborted", ![c].pending = {}]
      BY <3>3, <3>6, Zenon DEF Sets
    <3> QED
      BY <2>6, <3>4, <3>5, <3>6, Zenon
  <2>8. conn[c].tx # "open" => conn[c].pending = {}
    BY <2>1 DEF IInv, Clean
  <2>9. st = "dead" \/ st = conn[c].state
    BY <2>6
  <2>10. ASSUME NEW q \in Conn, Sets(c, q), q.owner = w, q.id = conn[c].id,
                q.tx # "none" => conn[c].tx # "none", q.tx # "open" => q.pending = {},
                q.tx = "open" => conn[c].tx = "open" /\ q.pending = conn[c].pending,
                conn[c].state # "closed" => q.state # "closed"
         PROVE  IInv'
    <3>1. conn'[c] = q
      BY <1>2, <2>1, <2>10 DEF Sets
    <3>2. DOMAIN t = DOMAIN s
      BY <1>2, <2>2, LenProperties DEF Refused
    <3> HIDE DEF s, t
    <3>3. \A k \in DOMAIN s : Inner(t, k) = Inner(s, k)
      BY <2>2, <3>2 DEF Refused, Inner
    <3>4. ASSUME NEW k \in DOMAIN s, s[k].kind = "transaction", s[k].conn = c,
                 Whole(conn[c], s, k)
          PROVE  Whole(conn'[c], t, k)
      <4>1. t[k].failed /\ t[k].done = s[k].done
        BY <2>2, <3>4 DEF Refused
      <4>2. ASSUME Inner(t, k) = {}, q.tx = "open" PROVE q.pending = t[k].done
        BY <2>10, <3>3, <3>4, <4>1, <4>2 DEF Whole
      <4> QED
        BY <3>1, <4>1, <4>2 DEF Whole
    <3>5. Marks(conn, conn', c, s, t)
      BY <2>2, <3>4 DEF Marks, Refused
    <3> USE DEF s
    <3>6. /\ Held(conn', w, t, "error") /\ Opened(run[w].script, t)
          /\ Neat(conn') /\ Apart(conn, conn', w)
      BY <1>2, <2>1, <2>2, <2>10, <3>5, StatementHeld
    <3> QED
      BY <1>1, <1>2, <1>3, <2>2, <2>3, <2>4, <3>6, TurnSound, ModeTypes
  <2>11. CASE Sets(c, q1)
    <3>1. /\ q1 \in Conn /\ q1.owner = w /\ q1.id = conn[c].id /\ q1.tx = conn[c].tx
          /\ q1.pending = conn[c].pending /\ q1.state = st
      BY <2>1, <2>9 DEF Conn
    <3> HIDE DEF q1
    <3> QED
      BY <2>8, <2>9, <2>10, <2>11, <3>1
  <2>12. CASE Sets(c, q2)
    <3>1. /\ q2 \in Conn /\ q2.owner = w /\ q2.id = conn[c].id /\ q2.tx = "none"
          /\ q2.pending = {} /\ q2.state = conn[c].state
      BY <2>1 DEF Conn
    <3> HIDE DEF q2
    <3> QED
      BY <2>10, <2>12, <3>1
  <2>13. CASE conn[c].tx # "none" /\ Sets(c, q3)
    <3>1. /\ q3 \in Conn /\ q3.owner = w /\ q3.id = conn[c].id /\ q3.tx = "aborted"
          /\ q3.pending = {} /\ q3.state = st
      BY <2>1, <2>9 DEF Conn
    <3> HIDE DEF q3
    <3> QED
      BY <2>9, <2>10, <2>13, <3>1
  <2> QED
    BY <2>7, <2>11, <2>12, <2>13
<1>6. \/ UNCHANGED <<conn, applied>> /\ Throw(w)
      \/ c # NoConn /\ c = Visible(w, Instr(w).id)
  BY DEF QueryFails
<1> QED
  BY <1>4, <1>5, <1>6

LEMMA StepKeeps == ASSUME IInv, NEW w \in Workers, Step(w) PROVE IInv'
BY FinishStep, EnterTryStep, EnterDatabaseStep, ConnectStep, ConnectFailsStep,
   LeaveDatabaseStep, UnwindDatabaseStep, ReconnectStep, BeginTransactionStep,
   BeginTransactionFailsStep, CommitTransactionStep, CommitFailsStep,
   UnwindTransactionStep, QueryStep, QueryFailsStep, LeavePlainStep, UnwindPlainStep
   DEF Step

\* The invariant is inductive: it holds first and every step of a worker, connecting,
\* querying, committing, failing or unwinding, keeps it.
THEOREM Invariance == Spec => []IInv
<1>1. Init => IInv
  BY InitSound
<1>2. IInv /\ [Next]_vars => IInv'
  <2> SUFFICES ASSUME IInv, [Next]_vars PROVE IInv'
    OBVIOUS
  <2>1. ASSUME NEW w \in Workers, Start(w) PROVE IInv'
    BY <2>1, StartStep
  <2>2. ASSUME NEW w \in Workers, Step(w) PROVE IInv'
    BY <2>2, StepKeeps
  <2>3. CASE UNCHANGED vars
    BY <2>3 DEF vars, IInv, TypeOK
  <2> QED
    BY <2>1, <2>2, <2>3 DEF Next
<1> QED
  BY <1>1, <1>2, PTL DEF Spec

\* Every object, frame and counter keeps its type: a database tag is never left
\* with more than its three attempts or with less than one.
THEOREM TypeCorrect == Spec => []TypeOK
<1>1. IInv => TypeOK
  BY DEF IInv
<1> QED
  BY <1>1, Invariance, PTL

\* The connections that tags find in the context are leased by their worker, for
\* their data source, shared with nobody and not freed.
THEOREM Leased == Spec => []LeaseAlive
<1>1. IInv => LeaseAlive
  <2> SUFFICES ASSUME IInv PROVE LeaseAlive
    OBVIOUS
  <2>1. ASSUME NEW w \in Workers
        PROVE  /\ Leases(conn, w, run[w].stack, run[w].mode) /\ Transactions(conn, run[w].stack)
    BY Facts DEF Held
  <2>2. TransactionLeased
    BY <2>1 DEF TransactionLeased, Transactions, Frames, Kind
  <2>3. ASSUME NEW w \in Workers, NEW i \in Frames(w, "database")
        PROVE  LET f == run[w].stack[i] IN
               /\ conn[f.conn].owner = w /\ conn[f.conn].id = f.id
               /\ run[w].mode = "run" => conn[f.conn].state # "closed"
               /\ \A j \in Frames(w, "database") : run[w].stack[j].conn = f.conn => i = j
    BY <2>1 DEF Leases, Frames, Kind
  <2> QED
    BY <2>2, <2>3 DEF LeaseAlive
<1> QED
  BY <1>1, Invariance, PTL

\* No transaction, and nothing that one has done, waits in the pool for the next
\* request.
THEOREM PoolClean == Spec => []IdleClean
<1>1. IInv => IdleClean
  BY DEF IInv, Clean, IdleClean
<1> QED
  BY <1>1, Invariance, PTL

\* While no statement has failed, the server keeps what the transaction tag did.
THEOREM TransactionsWhole == Spec => []TransactionWhole
<1>1. IInv => TransactionWhole
  <2> SUFFICES ASSUME IInv, NEW w \in Workers, NEW i \in Frames(w, "transaction"),
                      ~run[w].stack[i].failed, conn[run[w].stack[i].conn].state = "open"
               PROVE  /\ conn[run[w].stack[i].conn].tx = "open"
                      /\ conn[run[w].stack[i].conn].pending = run[w].stack[i].done
    BY DEF TransactionWhole
  <2>1. i \in DOMAIN run[w].stack /\ run[w].stack[i].kind = "transaction"
    BY DEF Frames
  <2>2. Whole(conn[run[w].stack[i].conn], run[w].stack, i)
    BY <2>1, Facts DEF Held, Transactions
  <2> QED
    BY <2>2 DEF Whole
<1> QED
  BY <1>1, Invariance, PTL

--------------------------------------------------------------------------------
(* The end of a transaction tag *)

\* What AllOrNothing says of worker v.
EndsWhole(v) ==
    LET s == run[v].stack
        f == Last(s)
    IN  s # <<>> /\ f.kind = "transaction" /\ Len(run'[v].stack) < Len(s) =>
           \/ /\ applied'[v] = applied[v]
              /\ f.failed \/ run'[v].mode # "run" \/ f.done = {}
           \/ /\ applied'[v] = [p \in Positions |->
                    applied[v][p] + (IF p \in f.done THEN 1 ELSE 0)]
              /\ run[v].mode = "run"

\* A worker whose stack does not get shorter ends nothing.
LEMMA LongerEnds ==
    ASSUME IInv, NEW w \in Workers, NEW r, Goes(w, r), ~(Len(r.stack) < Len(run[w].stack)),
           NEW v \in Workers
    PROVE  EndsWhole(v)
<1>1. run \in [Workers -> Run]
  BY DEF IInv, TypeOK
<1>2. CASE v = w
  <2>1. run'[v] = r
    BY <1>1, <1>2 DEF Goes
  <2> QED
    BY <1>2, <2>1 DEF EndsWhole
<1>3. CASE v # w
  <2>1. run'[v] = run[v]
    BY <1>1, <1>3 DEF Goes
  <2>2. Len(run[v].stack) \in Nat
    BY Facts, LenProperties
  <2> QED
    BY <2>1, <2>2 DEF EndsWhole
<1> QED
  BY <1>2, <1>3

\* Nor does one that pops another tag.
LEMMA OtherPopEnds ==
    ASSUME IInv, NEW w \in Workers, NEW r, Goes(w, r), NEW v \in Workers,
           v = w => run[w].stack = <<>> \/ Last(run[w].stack).kind # "transaction"
    PROVE  EndsWhole(v)
<1>1. run \in [Workers -> Run]
  BY DEF IInv, TypeOK
<1>2. CASE v = w
  BY <1>2 DEF EndsWhole
<1>3. CASE v # w
  <2>1. run'[v] = run[v]
    BY <1>1, <1>3 DEF Goes
  <2>2. Len(run[v].stack) \in Nat
    BY Facts, LenProperties
  <2> QED
    BY <2>1, <2>2 DEF EndsWhole
<1> QED
  BY <1>2, <1>3

\* What is committed at the end of a transaction tag.
LEMMA InnermostPending ==
    ASSUME IInv, NEW w \in Workers, run[w].stack # <<>>,
           Last(run[w].stack).kind = "transaction"
    PROVE  LET f == Last(run[w].stack)
               r == conn[LastConn(run[w].stack)]
           IN  /\ r.pending = f.done \/ r.pending = {}
               /\ r.tx = "open" => r.pending = f.done
               /\ r.tx = "aborted" /\ r.state = "open" => f.failed
<1> DEFINE s == run[w].stack
           c == LastConn(s)
<1>1. /\ c \in Conns /\ conn[c] \in Conn /\ Whole(conn[c], s, Len(s)) /\ Inner(s, Len(s)) = {}
  BY InnermostTransaction
<1>2. Last(s) = s[Len(s)]
  BY DEF Last
<1>3. conn[c].tx # "open" => conn[c].pending = {}
  BY <1>1 DEF IInv, Clean
<1> QED
  BY <1>1, <1>2, <1>3 DEF Whole

\* A commit of S adds S; that of nothing changes nothing.
LEMMA CommitNothing ==
    ASSUME IInv, NEW w \in Workers, Commit(w, {}) PROVE applied'[w] = applied[w]
<1>1. applied[w] \in [Positions -> Nat]
  BY Facts
<1>2. applied'[w] = [p \in Positions |-> applied[w][p] + 0]
  BY CommitTypes
<1>3. [p \in Positions |-> applied[w][p] + 0] = applied[w]
  BY <1>1
<1> QED
  BY <1>2, <1>3

LEMMA CommitTransactionEnds ==
    ASSUME IInv, NEW w \in Workers, CommitTransaction(w), NEW v \in Workers
    PROVE  EndsWhole(v)
<1> DEFINE f == Last(run[w].stack)
           c == LastConn(run[w].stack)
           r == [run[w] EXCEPT !.stack = Front(@), !.pc = run[w].pc + 1, !.mode = "run"]
<1>1. /\ run[w].stack # <<>> /\ f.kind = "transaction" /\ run[w].mode = "run"
      /\ conn[c].state = "open"
      /\ \/ conn[c].tx = "open" /\ Commit(w, conn[c].pending)
         \/ conn[c].tx = "aborted" /\ UNCHANGED applied
  BY DEF CommitTransaction, Within, At, LastConn
<1>2. Goes(w, r)
  BY DEF CommitTransaction, Pop
<1>3. CASE v # w
  BY <1>2, <1>3, OtherPopEnds
<1>4. CASE v = w
  <2>1. conn[c].tx = "open" => conn[c].pending = f.done
    BY <1>1, InnermostPending
  <2>2. conn[c].tx = "aborted" => f.failed
    BY <1>1, InnermostPending
  <2>3. CASE conn[c].tx = "open" /\ Commit(w, conn[c].pending)
    <3>1. applied'[w] = [p \in Positions |-> applied[w][p] + (IF p \in f.done THEN 1 ELSE 0)]
      BY <2>1, <2>3, CommitTypes
    <3> QED
      BY <1>1, <1>4, <3>1 DEF EndsWhole
  <2>4. CASE conn[c].tx = "aborted" /\ UNCHANGED applied
    BY <1>4, <2>2, <2>4 DEF EndsWhole
  <2> QED
    BY <1>1, <2>3, <2>4
<1> QED
  BY <1>3, <1>4

LEMMA CommitFailsEnds ==
    ASSUME IInv, NEW w \in Workers, CommitFails(w), NEW v \in Workers
    PROVE  EndsWhole(v)
<1> DEFINE f == Last(run[w].stack)
           c == LastConn(run[w].stack)
<1>1. /\ run[w].stack # <<>> /\ f.kind = "transaction" /\ run[w].mode = "run"
      /\ applied' = applied \/ Commit(w, conn[c].pending)
  BY DEF CommitFails, Within, At, LastConn
<1>2. PICK n \in {"error", "broken"} : Pop(w, run[w].pc, n)
  BY DEF CommitFails
<1> DEFINE r == [run[w] EXCEPT !.stack = Front(@), !.pc = run[w].pc, !.mode = n]
<1>3. Goes(w, r) /\ r.mode # "run"
  BY <1>2, Facts DEF Pop, Run
<1> HIDE DEF r
<1>4. CASE v # w
  BY <1>3, <1>4, OtherPopEnds
<1>5. CASE v = w
  <2>1. run'[w].mode # "run"
    BY <1>3 DEF Goes, IInv, TypeOK
  <2>2. conn[c].pending = f.done \/ conn[c].pending = {}
    BY <1>1, InnermostPending
  <2>3. CASE applied' = applied
    BY <1>5, <2>1, <2>3 DEF EndsWhole
  <2>4. CASE Commit(w, conn[c].pending) /\ conn[c].pending = {}
    <3>1. applied'[w] = applied[w]
      BY <2>4, CommitNothing
    <3> QED
      BY <1>5, <2>1, <3>1 DEF EndsWhole
  <2>5. CASE Commit(w, conn[c].pending) /\ conn[c].pending = f.done
    <3>1. applied'[w] = [p \in Positions |-> applied[w][p] + (IF p \in f.done THEN 1 ELSE 0)]
      BY <2>5, CommitTypes
    <3> QED
      BY <1>1, <1>5, <3>1 DEF EndsWhole
  <2> QED
    BY <1>1, <2>2, <2>3, <2>4, <2>5
<1> QED
  BY <1>4, <1>5

LEMMA UnwindTransactionEnds ==
    ASSUME IInv, NEW w \in Workers, UnwindTransaction(w), NEW v \in Workers
    PROVE  EndsWhole(v)
<1> DEFINE r == [run[w] EXCEPT !.stack = Front(@), !.pc = run[w].pc, !.mode = run[w].mode]
<1>1. Goes(w, r) /\ applied' = applied /\ run[w].mode \in {"error", "broken"}
  BY DEF UnwindTransaction, Pop, Unwinding
<1>2. r.mode = run[w].mode
  BY Facts DEF Run
<1> HIDE DEF r
<1>3. CASE v # w
  BY <1>1, <1>3, OtherPopEnds
<1>4. CASE v = w
  <2>1. run'[w].mode # "run"
    BY <1>1, <1>2 DEF Goes, IInv, TypeOK
  <2> QED
    BY <1>1, <1>4, <2>1 DEF EndsWhole
<1> QED
  BY <1>3, <1>4

LEMMA PushEnds ==
    ASSUME IInv, NEW w \in Workers, NEW f, f \in Frame, NEW m, Push(w, f, m), NEW v \in Workers
    PROVE  EndsWhole(v)
<1> DEFINE r == [run[w] EXCEPT !.stack = Append(@, f), !.pc = @ + 1, !.mode = m]
<1>1. r.stack = Append(run[w].stack, f) /\ run[w].stack \in Seq(Frame)
  BY Facts DEF Run
<1>2. Goes(w, r)
  BY DEF Push
<1> HIDE DEF r
<1>3. Len(r.stack) = Len(run[w].stack) + 1 /\ Len(run[w].stack) \in Nat
  BY <1>1, Appended
<1>4. ~(Len(r.stack) < Len(run[w].stack))
  BY <1>3
<1> QED
  BY <1>2, <1>4, LongerEnds

LEMMA TurnEnds ==
    ASSUME IInv, NEW w \in Workers, NEW STATE pc, NEW STATE t, NEW m, Turns(w, pc, t, m),
           Len(t) = Len(run[w].stack) \/ Len(t) = Len(run[w].stack) + 1, NEW v \in Workers
    PROVE  EndsWhole(v)
<1> DEFINE r == [run[w] EXCEPT !.pc = pc, !.stack = t, !.mode = m]
<1>1. r.stack = t
  BY Facts DEF Run
<1>2. Goes(w, r)
  BY DEF Turns
<1> HIDE DEF r
<1>3. Len(run[w].stack) \in Nat
  BY Facts, LenProperties
<1>4. ~(Len(r.stack) < Len(run[w].stack))
  BY <1>1, <1>3
<1> QED
  BY <1>2, <1>4, LongerEnds

\* Steps without a transaction tag on top of the stack.
LEMMA NoTagEnds ==
    ASSUME IInv, NEW w \in Workers, NEW v \in Workers,
           \/ Start(w) \/ Finish(w) \/ Connect(w) \/ ConnectFails(w) \/ LeaveDatabase(w)
           \/ UnwindDatabase(w) \/ Reconnect(w) \/ LeavePlain(w) \/ UnwindPlain(w)
    PROVE  EndsWhole(v)
<1>1. \E r : Goes(w, r)
  BY Zenon DEF Start, Finish, Connect, ConnectFails, LeaveDatabase, UnwindDatabase, Reconnect,
     LeavePlain, UnwindPlain, Pop
<1>2. run[w].stack = <<>> \/ Last(run[w].stack).kind # "transaction"
  <2>1. CASE run[w].mode = "idle"
    BY <2>1, Facts DEF Held, Placed
  <2>2. CASE run[w].mode = "connect"
    BY <2>2, ConnectMode
  <2>3. CASE run[w].mode \notin {"idle", "connect"}
    BY <2>3 DEF Start, Finish, Connect, ConnectFails, LeaveDatabase, UnwindDatabase, Reconnect,
       LeavePlain, UnwindPlain, Within
  <2> QED
    BY <2>1, <2>2, <2>3
<1> QED
  BY <1>1, <1>2, OtherPopEnds

\* Steps that push a frame or leave the stack's length.
LEMMA EnterEnds ==
    ASSUME IInv, NEW w \in Workers, NEW v \in Workers,
           EnterTry(w) \/ EnterDatabase(w) \/ BeginTransaction(w)
    PROVE  EndsWhole(v)
<1>1. CASE EnterTry(w)
  <2>1. NewFrame(w, "try", NoConn) \in Frame
    BY <1>1, NewFrameTypes DEF EnterTry, Kinds
  <2> QED
    BY <1>1, <2>1, PushEnds DEF EnterTry
<1>2. CASE EnterDatabase(w)
  <2>1. At(w, "database")
    BY <1>2 DEF EnterDatabase
  <2>2. NewFrame(w, "nested", NoConn) \in Frame
    BY <2>1, NewFrameTypes
  <2>3. \A c \in Conns : [NewFrame(w, "database", c) EXCEPT !.tries = 3] \in Frame
    BY <2>1, NewFrameTypes DEF Kinds
  <2>4. \E f \in Frame, m \in Modes : Push(w, f, m)
    <3>1. CASE Push(w, NewFrame(w, "nested", NoConn), "run")
      BY <2>2, <3>1, ModeTypes
    <3>2. ASSUME NEW c \in Pooled(Instr(w).id),
                 Push(w, [NewFrame(w, "database", c) EXCEPT !.tries = 3], "connect")
          PROVE  \E f \in Frame, m \in Modes : Push(w, f, m)
      <4>1. c \in Conns
        BY DEF Pooled
      <4>2. [NewFrame(w, "database", c) EXCEPT !.tries = 3] \in Frame
        BY <2>3, <4>1
      <4> QED
        BY <3>2, <4>2, ModeTypes, Zenon
    <3> QED
      BY <1>2, <3>1, <3>2 DEF EnterDatabase
  <2> QED
    BY <2>4, PushEnds
<1>3. CASE BeginTransaction(w)
  <2> DEFINE c == Visible(w, Instr(w).id)
  <2>1. c # NoConn /\ At(w, "transaction") /\ Push(w, NewFrame(w, "transaction", c), "run")
    BY <1>3 DEF BeginTransaction
  <2>2. c \in Conns
    BY <2>1, VisibleLeased
  <2>3. NewFrame(w, "transaction", c) \in Frame
    BY <2>1, <2>2, NewFrameTypes DEF Kinds
  <2> QED
    BY <2>1, <2>3, PushEnds
<1> QED
  BY <1>1, <1>2, <1>3

LEMMA StatementEnds ==
    ASSUME IInv, NEW w \in Workers, NEW v \in Workers,
           BeginTransactionFails(w) \/ Query(w) \/ QueryFails(w)
    PROVE  EndsWhole(v)
<1>1. CASE Throw(w)
  BY <1>1, ThrowTurns, TurnEnds
<1>2. CASE Query(w)
  <2> DEFINE c == Target(w, Instr(w).id)
             p == run[w].pc
             t == Done(w, c, p, Instr(w).stmt)
             f == NewFrame(w, "query", NoConn)
  <2>1. At(w, "query")
    BY <1>2 DEF Query
  <2>2. p \in Positions /\ run[w].mode = "run"
    BY <2>1, AtTypes
  <2>3. t \in Seq(Frame) /\ Len(t) = Len(run[w].stack)
    <3>1. t \in Seq(Frame) /\ Updated(run[w].stack, t, c, p, Instr(w).stmt)
      BY <2>2, DoneFrames
    <3> HIDE DEF t
    <3> QED
      BY <3>1 DEF Updated
  <2>4. f \in Frame
    BY <2>1, NewFrameTypes DEF Kinds
  <2>5. \/ Turns(w, p + 1, Append(t, f), "run")
        \/ Turns(w, EndOf(run[w].script, p) + 1, t, "run")
    <3>1. \/ Goes(w, [run[w] EXCEPT !.pc = p + 1, !.stack = Append(t, f)])
          \/ Goes(w, [run[w] EXCEPT !.pc = EndOf(run[w].script, p) + 1, !.stack = t])
      BY <1>2 DEF Query, Done
    <3> QED
      BY <2>2, <3>1, Facts DEF Turns, Run
  <2> HIDE DEF t, f, c
  <2>6. Len(Append(t, f)) = Len(run[w].stack) + 1
    BY <2>3, <2>4, Appended
  <2> QED
    BY <2>3, <2>5, <2>6, TurnEnds
<1>3. CASE QueryFails(w) /\ ~Throw(w)
  <2> DEFINE c == Target(w, Instr(w).id)
             t == Failed(w, c)
  <2>1. Len(t) = Len(run[w].stack)
    BY FailedFrames DEF Refused
  <2>2. Turns(w, run[w].pc, t, "error")
    <3>1. Goes(w, [run[w] EXCEPT !.mode = "error", !.stack = t])
      BY <1>3 DEF QueryFails, Failed
    <3> QED
      BY <3>1, Facts DEF Turns, Run
  <2> HIDE DEF t
  <2> QED
    BY <2>1, <2>2, TurnEnds
<1>4. BeginTransactionFails(w) => Throw(w)
  BY DEF BeginTransactionFails
<1> QED
  BY <1>1, <1>2, <1>3, <1>4

LEMMA NextEnds == ASSUME IInv, [Next]_vars, NEW v \in Workers PROVE EndsWhole(v)
<1>1. CASE UNCHANGED vars
  <2>1. Len(run[v].stack) \in Nat /\ run' = run
    BY <1>1, Facts, LenProperties DEF vars
  <2> QED
    BY <2>1 DEF EndsWhole
<1>2. ASSUME NEW w \in Workers, Start(w) \/ Step(w) PROVE EndsWhole(v)
  BY <1>2, NoTagEnds, EnterEnds, StatementEnds, CommitTransactionEnds, CommitFailsEnds,
     UnwindTransactionEnds DEF Step
<1> QED
  BY <1>1, <1>2 DEF Next

--------------------------------------------------------------------------------
(* No statement in a transaction tag commits on its own *)

\* Unless SQLite rolls back by itself, the server has a transaction, which may have
\* failed, for each transaction tag, and there is one such tag on a connection.
Kept(C, s) == \A i \in DOMAIN s : s[i].kind = "transaction" =>
    /\ C[s[i].conn].tx # "none"
    /\ \A j \in DOMAIN s : s[j].kind = "transaction" /\ s[j].conn = s[i].conn => i = j

KInv == driver # "sqlite" => \A w \in Workers : Kept(conn, run[w].stack)

\* The transaction tags of stack t are some of those of stack s.
Fewer(t, s) == \A i \in DOMAIN t : t[i].kind = "transaction" =>
    i \in DOMAIN s /\ s[i].kind = "transaction" /\ t[i].conn = s[i].conn

\* No connection loses its transaction.
Lasts(C, D) == \A c \in Conns : C[c].tx # "none" => D[c].tx # "none"

\* A transaction tag is on a connection that its worker leases.
LEMMA TransactionConn ==
    ASSUME IInv, NEW v \in Workers, NEW i \in DOMAIN run[v].stack,
           run[v].stack[i].kind = "transaction"
    PROVE  run[v].stack[i].conn \in Conns /\ conn[run[v].stack[i].conn].owner = v
<1> DEFINE s == run[v].stack
<1>1. Transactions(conn, s) /\ Leases(conn, v, s, run[v].mode)
  BY Facts DEF Held
<1>2. PICK j \in DOMAIN s : Kind(s, j, "database") /\ s[j].conn = s[i].conn
  BY <1>1 DEF Transactions
<1> QED
  BY <1>1, <1>2 DEF Leases, Kind

LEMMA FewerKept ==
    ASSUME IInv, NEW w \in Workers, Kept(conn, run[w].stack), NEW t, Fewer(t, run[w].stack),
           Lasts(conn, conn')
    PROVE  Kept(conn', t)
<1> DEFINE s == run[w].stack
<1> SUFFICES ASSUME NEW i \in DOMAIN t, t[i].kind = "transaction"
             PROVE  /\ conn'[t[i].conn].tx # "none"
                    /\ \A j \in DOMAIN t :
                          t[j].kind = "transaction" /\ t[j].conn = t[i].conn => i = j
  BY DEF Kept
<1>1. i \in DOMAIN s /\ s[i].kind = "transaction" /\ t[i].conn = s[i].conn
  BY DEF Fewer
<1>2. s[i].conn \in Conns /\ conn[s[i].conn].tx # "none"
  BY <1>1, TransactionConn DEF Kept
<1>3. conn'[t[i].conn].tx # "none"
  BY <1>1, <1>2 DEF Lasts
<1>4. ASSUME NEW j \in DOMAIN t, t[j].kind = "transaction", t[j].conn = t[i].conn PROVE i = j
  <2>1. j \in DOMAIN s /\ s[j].kind = "transaction" /\ t[j].conn = s[j].conn
    BY <1>4 DEF Fewer
  <2> QED
    BY <1>1, <1>4, <2>1 DEF Kept
<1> QED
  BY <1>3, <1>4

\* A step of w that takes transactions from its own connections at most.
LEMMA StepKept ==
    ASSUME IInv, KInv, NEW w \in Workers, NEW r, Goes(w, r), driver' = driver,
           driver # "sqlite" =>
             /\ \A c \in Conns : conn[c].tx # "none" => conn'[c].tx # "none" \/ conn[c].owner = w
             /\ Kept(conn', r.stack)
    PROVE  KInv'
<1> SUFFICES ASSUME driver # "sqlite", NEW v \in Workers
             PROVE  Kept(conn', run'[v].stack)
  BY DEF KInv
<1>1. run \in [Workers -> Run]
  BY DEF IInv, TypeOK
<1>2. CASE v = w
  BY <1>1, <1>2 DEF Goes
<1>3. CASE v # w
  <2> DEFINE s == run[v].stack
  <2>1. run'[v].stack = s
    BY <1>1, <1>3 DEF Goes
  <2>2. Kept(conn, s)
    BY DEF KInv
  <2>3. ASSUME NEW i \in DOMAIN s, s[i].kind = "transaction"
        PROVE  conn'[s[i].conn].tx # "none"
    <3>1. s[i].conn \in Conns /\ conn[s[i].conn].owner = v
      BY <2>3, TransactionConn
    <3>2. conn[s[i].conn].tx # "none"
      BY <2>2, <2>3 DEF Kept
    <3> QED
      BY <1>3, <3>1, <3>2
  <2> HIDE DEF s
  <2>4. Kept(conn', s)
    BY <2>2, <2>3 DEF Kept
  <2> QED
    BY <2>1, <2>4
<1> QED
  BY <1>2, <1>3

LEMMA FewerStep ==
    ASSUME IInv, KInv, NEW w \in Workers, NEW r, Goes(w, r), driver' = driver,
           Fewer(r.stack, run[w].stack), driver # "sqlite" => Lasts(conn, conn')
    PROVE  KInv'
<1>1. ASSUME driver # "sqlite" PROVE Kept(conn', r.stack)
  BY <1>1, FewerKept DEF KInv
<1> QED
  BY <1>1, StepKept DEF Lasts

LEMMA FewerItself == \A s : Fewer(s, s)
BY DEF Fewer

LEMMA FewerPushed ==
    ASSUME IInv, NEW w \in Workers, NEW f \in Frame, f.kind # "transaction", NEW m, Push(w, f, m)
    PROVE  \E r : Goes(w, r) /\ Fewer(r.stack, run[w].stack)
<1> DEFINE r == [run[w] EXCEPT !.stack = Append(@, f), !.pc = @ + 1, !.mode = m]
<1>1. Goes(w, r)
  BY DEF Push
<1>2. r.stack = Append(run[w].stack, f) /\ run[w].stack \in Seq(Frame)
  BY Facts DEF Run
<1> HIDE DEF r
<1>3. Fewer(Append(run[w].stack, f), run[w].stack)
  BY <1>2, Appended DEF Fewer
<1> QED
  BY <1>1, <1>2, <1>3

LEMMA FewerPopped ==
    ASSUME IInv, NEW w \in Workers, run[w].stack # <<>>, NEW STATE pc, NEW STATE m, Pop(w, pc, m)
    PROVE  \E r : Goes(w, r) /\ Fewer(r.stack, run[w].stack) /\ r.stack = Front(run[w].stack)
<1> DEFINE r == [run[w] EXCEPT !.stack = Front(@), !.pc = pc, !.mode = m]
<1>1. Goes(w, r)
  BY DEF Pop
<1>2. r.stack = Front(run[w].stack) /\ run[w].stack \in Seq(Frame)
  BY Facts DEF Run
<1> HIDE DEF r
<1>3. Fewer(Front(run[w].stack), run[w].stack)
  <2>1. \A i \in DOMAIN Front(run[w].stack) :
           i \in DOMAIN run[w].stack /\ Front(run[w].stack)[i] = run[w].stack[i]
    <3> DEFINE s == run[w].stack
               t == Front(s)
    <3>1. /\ Len(s) \in Nat \ {0} /\ DOMAIN s = 1..Len(s) /\ DOMAIN t = 1..(Len(s) - 1)
          /\ \A i \in 1..(Len(s) - 1) : t[i] = s[i]
      BY <1>2, Shortened
    <3> HIDE DEF s, t
    <3>2. \A i \in DOMAIN t : i \in DOMAIN s /\ t[i] = s[i]
      BY <3>1
    <3> QED
      BY <3>2 DEF s, t
  <2> QED
    BY <2>1 DEF Fewer
<1> QED
  BY <1>1, <1>2, <1>3

LEMMA FewerTurned ==
    ASSUME IInv, NEW w \in Workers, NEW STATE pc, NEW STATE t, NEW m, Turns(w, pc, t, m),
           Fewer(t, run[w].stack)
    PROVE  \E r : Goes(w, r) /\ Fewer(r.stack, run[w].stack)
<1> DEFINE r == [run[w] EXCEPT !.pc = pc, !.stack = t, !.mode = m]
<1>1. r.stack = t
  BY Facts DEF Run
<1>2. Goes(w, r)
  BY DEF Turns
<1> HIDE DEF r
<1> QED
  BY <1>1, <1>2

\* An object that changes without losing a transaction.
LEMMA SetLasts ==
    ASSUME IInv, NEW c \in Conns, NEW q, Sets(c, q), conn[c].tx # "none" => q.tx # "none"
    PROVE  Lasts(conn, conn')
<1>1. conn \in [Conns -> Conn]
  BY DEF IInv, TypeOK
<1> QED
  BY <1>1 DEF Sets, Lasts

\* Steps that begin or end no transaction tag.
LEMMA PlainKept ==
    ASSUME IInv, KInv, NEW w \in Workers,
           Start(w) \/ Finish(w) \/ EnterTry(w) \/ LeavePlain(w) \/ UnwindPlain(w)
    PROVE  KInv'
<1>1. conn' = conn /\ driver' = driver
  BY DEF Start, Finish, EnterTry, LeavePlain, UnwindPlain
<1>2. Lasts(conn, conn')
  BY <1>1 DEF Lasts
<1>3. \E r : Goes(w, r) /\ Fewer(r.stack, run[w].stack)
  <2>1. CASE Start(w) \/ Finish(w)
    <3>1. CASE Finish(w)
      <4>1. Goes(w, Idle) /\ Idle.stack = <<>>
        BY <3>1 DEF Finish, Idle
      <4>2. Fewer(Idle.stack, run[w].stack)
        BY <4>1 DEF Fewer
      <4> QED
        BY <4>1, <4>2
    <3>2. CASE Start(w)
      <4>1. PICK t : Goes(w, [Idle EXCEPT !.script = t, !.mode = "run"])
        BY <3>2 DEF Start
      <4>2. [Idle EXCEPT !.script = t, !.mode = "run"].stack = <<>>
        BY DEF Idle
      <4>3. Fewer([Idle EXCEPT !.script = t, !.mode = "run"].stack, run[w].stack)
        BY <4>2 DEF Fewer
      <4> QED
        BY <4>1, <4>3
    <3> QED
      BY <2>1, <3>1, <3>2
  <2>2. CASE EnterTry(w)
    <3>1. NewFrame(w, "try", NoConn) \in Frame /\ NewFrame(w, "try", NoConn).kind # "transaction"
      <4>1. NewFrame(w, "try", NoConn) \in Frame
        BY <2>2, NewFrameTypes DEF EnterTry, Kinds
      <4> QED
        BY <4>1 DEF NewFrame
    <3> QED
      BY <2>2, <3>1, FewerPushed DEF EnterTry
  <2>3. CASE LeavePlain(w)
    BY <2>3, FewerPopped DEF LeavePlain, Within
  <2>4. CASE UnwindPlain(w)
    BY <2>4, FewerPopped DEF UnwindPlain, Within
  <2> QED
    BY <2>1, <2>2, <2>3, <2>4
<1> QED
  BY <1>1, <1>2, <1>3, FewerStep

LEMMA EnterDatabaseKept ==
    ASSUME IInv, KInv, NEW w \in Workers, EnterDatabase(w)
    PROVE  KInv'
<1>1. driver' = driver /\ At(w, "database") /\ conn \in [Conns -> Conn]
  BY Facts DEF EnterDatabase
<1>2. CASE Push(w, NewFrame(w, "nested", NoConn), "run") /\ UNCHANGED conn
  <2>1. NewFrame(w, "nested", NoConn) \in Frame
    BY <1>1, NewFrameTypes
  <2>2. NewFrame(w, "nested", NoConn).kind # "transaction"
    BY DEF NewFrame
  <2>3. Lasts(conn, conn')
    BY <1>2 DEF Lasts
  <2> QED
    BY <1>1, <1>2, <2>1, <2>2, <2>3, FewerPushed, FewerStep
<1>3. ASSUME NEW c \in Pooled(Instr(w).id),
             conn' = [conn EXCEPT ![c].owner = w, ![c].id = Instr(w).id],
             Push(w, [NewFrame(w, "database", c) EXCEPT !.tries = 3], "connect")
      PROVE  KInv'
  <2> DEFINE f == [NewFrame(w, "database", c) EXCEPT !.tries = 3]
  <2>1. c \in Conns
    BY DEF Pooled
  <2>2. f \in Frame
    BY <1>1, <2>1, NewFrameTypes DEF Kinds
  <2>3. f.kind # "transaction"
    BY DEF NewFrame
  <2>4. Lasts(conn, conn')
    BY <1>1, <1>3, <2>1 DEF Lasts, Conn
  <2> HIDE DEF f
  <2>5. Push(w, f, "connect")
    BY <1>3 DEF f
  <2> QED
    BY <1>1, <2>2, <2>3, <2>4, <2>5, FewerPushed, FewerStep
<1> QED
  BY <1>2, <1>3 DEF EnterDatabase

LEMMA DatabaseKept ==
    ASSUME IInv, KInv, NEW w \in Workers,
           \/ Connect(w) \/ ConnectFails(w) \/ LeaveDatabase(w) \/ UnwindDatabase(w)
           \/ Reconnect(w)
    PROVE  KInv'
<1> DEFINE s == run[w].stack
           c == LastConn(s)
<1>1. s # <<>> /\ Last(s).kind = "database" /\ driver' = driver
  BY ConnectMode DEF Connect, ConnectFails, LeaveDatabase, UnwindDatabase, Reconnect, Within
<1>2. c \in Conns /\ conn[c] \in Conn /\ conn[c].tx = "none" /\ conn \in [Conns -> Conn]
  BY <1>1, InnermostDatabase, Facts
<1>3. \A d \in Conns : d # c => conn'[d] = conn[d]
  BY <1>2 DEF Connect, ConnectFails, LeaveDatabase, UnwindDatabase, Reconnect, LastConn
<1>4. Lasts(conn, conn')
  BY <1>2, <1>3 DEF Lasts
<1>5. \E r : Goes(w, r) /\ Fewer(r.stack, s)
  <2>1. CASE Connect(w) \/ ConnectFails(w)
    <3>1. \E m \in Modes : Goes(w, [run[w] EXCEPT !.mode = m])
      BY <2>1, ModeTypes DEF Connect, ConnectFails
    <3>2. PICK m \in Modes : Goes(w, [run[w] EXCEPT !.mode = m])
      BY <3>1
    <3>3. [run[w] EXCEPT !.mode = m].stack = s
      BY Facts DEF Run
    <3> QED
      BY <3>2, <3>3, FewerItself
  <2>2. CASE \E pc \in Nat, m \in Modes : Pop(w, pc, m)
    BY <1>1, <2>2, FewerPopped
  <2>3. LeaveDatabase(w) \/ UnwindDatabase(w) => \E pc \in Nat, m \in Modes : Pop(w, pc, m)
    <3>1. run[w].pc \in Nat /\ run[w].pc + 1 \in Nat /\ run[w].mode \in Modes /\ "run" \in Modes
      BY Facts, ModeTypes
    <3> QED
      BY <3>1 DEF LeaveDatabase, UnwindDatabase
  <2>4. CASE Reconnect(w)
    <3>1. CASE Pop(w, run[w].pc, "error")
      BY <1>1, <3>1, FewerPopped
    <3> DEFINE n == Last(s).tries - 1
               r == [run[w] EXCEPT !.mode = "connect", !.pc = Last(s).at + 1,
                                   !.stack[Len(s)].tries = n]
    <3>2. CASE Goes(w, r)
      <4>1. r.stack = [s EXCEPT ![Len(s)].tries = n] /\ s \in Seq(Frame)
        BY Facts DEF Run
      <4> HIDE DEF r, n
      <4>2. Len(s) \in DOMAIN s /\ DOMAIN r.stack = DOMAIN s
        BY <1>1, <4>1, Shortened
      <4>3. ASSUME NEW i \in DOMAIN s
            PROVE  r.stack[i].kind = s[i].kind /\ r.stack[i].conn = s[i].conn
        <5>1. s[i] \in Frame
          BY <4>1, <4>3
        <5> QED
          BY <4>1, <5>1 DEF Frame
      <4>4. Fewer(r.stack, s)
        BY <4>2, <4>3 DEF Fewer
      <4> QED
        BY <3>2, <4>4
    <3> QED
      BY <2>4, <3>1, <3>2 DEF Reconnect
  <2> QED
    BY <2>1, <2>2, <2>3, <2>4
<1> HIDE DEF s, c
<1>6. PICK r : Goes(w, r) /\ Fewer(r.stack, s)
  BY <1>5
<1> QED
  BY <1>1, <1>4, <1>6, FewerStep DEF s

\* The tag of a statement keeps its transaction, except with SQLite.
LEMMA StatementKept ==
    ASSUME IInv, KInv, NEW w \in Workers, BeginTransactionFails(w) \/ Query(w) \/ QueryFails(w)
    PROVE  KInv'
<1> DEFINE s == run[w].stack
<1>1. driver' = driver /\ s \in Seq(Frame) /\ conn \in [Conns -> Conn]
  BY Facts DEF BeginTransactionFails, Query, QueryFails
<1>2. driver # "sqlite" => Lasts(conn, conn')
  <2>1. CASE BeginTransactionFails(w)
    <3>1. \A c \in Conns : conn'[c].tx = conn[c].tx \/ conn'[c].tx = "aborted"
                             \/ conn[c].tx = "none"
      BY <1>1, <2>1 DEF BeginTransactionFails, Conn
    <3> QED
      BY <3>1 DEF Lasts
  <2>2. CASE Query(w)
    <3> DEFINE c == Target(w, Instr(w).id)
    <3>1. At(w, "query") /\ c # NoConn /\ c = Visible(w, Instr(w).id)
      BY <2>2 DEF Query
    <3>2. c \in Conns
      BY <3>1, VisibleLeased
    <3> DEFINE u == Instr(w).stmt = "update"
               p == run[w].pc
    <3>3. PICK x \in Changes(c, Instr(w).stmt) :
             conn' = [conn EXCEPT ![c].state = "open", ![c].changes = x,
                        ![c].pending = IF u /\ conn[c].tx = "open" THEN @ \cup {p} ELSE @]
      BY <2>2 DEF Query
    <3> HIDE DEF c, u, p
    <3>5. conn'[c].tx = conn[c].tx /\ \A d \in Conns : d # c => conn'[d] = conn[d]
      BY <1>1, <3>2, <3>3 DEF Conn
    <3> QED
      BY <3>5 DEF Lasts
  <2>3. CASE QueryFails(w) /\ driver # "sqlite"
    <3> DEFINE c == Target(w, Instr(w).id)
    <3>1. CASE conn' = conn
      BY <3>1 DEF Lasts
    <3>2. CASE c # NoConn /\ c = Visible(w, Instr(w).id)
      <4>1. c \in Conns
        BY <3>2, VisibleLeased
      <4>2. \/ \E x : conn' = [conn EXCEPT ![c].state = x]
            \/ \E x : conn' = [conn EXCEPT ![c].state = x, ![c].tx = "aborted", ![c].pending = {}]
        BY <2>3, <3>2 DEF QueryFails
      <4> HIDE DEF c
      <4>3. CASE \E x : conn' = [conn EXCEPT ![c].state = x]
        <5>1. PICK x : conn' = [conn EXCEPT ![c].state = x]
          BY <4>3
        <5> QED
          BY <1>1, <4>1, <5>1 DEF Lasts, Conn
      <4>4. CASE \E x : conn' = [conn EXCEPT ![c].state = x, ![c].tx = "aborted",
                                            ![c].pending = {}]
        <5>1. PICK x : conn' = [conn EXCEPT ![c].state = x, ![c].tx = "aborted",
                                            ![c].pending = {}]
          BY <4>4
        <5> QED
          BY <1>1, <4>1, <5>1 DEF Lasts, Conn
      <4> QED
        BY <4>2, <4>3, <4>4
    <3> QED
      BY <2>3, <3>1, <3>2 DEF QueryFails
  <2> QED
    BY <2>1, <2>2, <2>3
<1>3. \E r : Goes(w, r) /\ Fewer(r.stack, s)
  <2>1. CASE Throw(w)
    BY <2>1, ThrowTurns, FewerTurned, FewerItself
  <2>2. CASE Query(w)
    <3> DEFINE c == Target(w, Instr(w).id)
               p == run[w].pc
               t == Done(w, c, p, Instr(w).stmt)
               f == NewFrame(w, "query", NoConn)
    <3>1. At(w, "query") /\ p \in Positions /\ run[w].mode = "run"
      BY <2>2, AtTypes DEF Query
    <3>2. t \in Seq(Frame) /\ Updated(s, t, c, p, Instr(w).stmt)
      BY <3>1, DoneFrames
    <3>3. f \in Frame /\ f.kind # "transaction"
      <4>1. f \in Frame
        BY <3>1, NewFrameTypes DEF Kinds
      <4> QED
        BY <4>1 DEF NewFrame
    <3>4. \/ Turns(w, p + 1, Append(t, f), "run")
          \/ Turns(w, EndOf(run[w].script, p) + 1, t, "run")
      <4>1. \/ Goes(w, [run[w] EXCEPT !.pc = p + 1, !.stack = Append(t, f)])
            \/ Goes(w, [run[w] EXCEPT !.pc = EndOf(run[w].script, p) + 1, !.stack = t])
        BY <2>2 DEF Query, Done
      <4> QED
        BY <3>1, <4>1, Facts DEF Turns, Run
    <3> HIDE DEF t, f, c
    <3>5. DOMAIN t = DOMAIN s
      BY <1>1, <3>2, LenProperties DEF Updated
    <3>6. Fewer(t, s)
      BY <3>2, <3>5 DEF Fewer, Updated
    <3>7. Fewer(Append(t, f), s)
      <4>1. \A i \in DOMAIN Append(t, f) : Append(t, f)[i].kind = "transaction" =>
               i \in DOMAIN t /\ Append(t, f)[i] = t[i]
        BY <3>2, <3>3, Appended
      <4> QED
        BY <3>6, <4>1 DEF Fewer
    <3> QED
      BY <3>4, <3>6, <3>7, FewerTurned
  <2>3. CASE QueryFails(w) /\ ~Throw(w)
    <3> DEFINE c == Target(w, Instr(w).id)
               t == Failed(w, c)
    <3>1. t \in Seq(Frame) /\ Refused(s, t, c)
      BY FailedFrames
    <3>2. Turns(w, run[w].pc, t, "error")
      <4>1. Goes(w, [run[w] EXCEPT !.mode = "error", !.stack = t])
        BY <2>3 DEF QueryFails, Failed
      <4> QED
        BY <4>1, Facts DEF Turns, Run
    <3> HIDE DEF t, c
    <3>3. DOMAIN t = DOMAIN s
      BY <1>1, <3>1, LenProperties DEF Refused
    <3>4. Fewer(t, s)
      BY <3>1, <3>3 DEF Fewer, Refused
    <3> QED
      BY <3>2, <3>4, FewerTurned
  <2>4. BeginTransactionFails(w) => Throw(w)
    BY DEF BeginTransactionFails
  <2> QED
    BY <2>1, <2>2, <2>3, <2>4
<1> HIDE DEF s
<1>4. PICK r : Goes(w, r) /\ Fewer(r.stack, s)
  BY <1>3
<1> QED
  BY <1>1, <1>2, <1>4, FewerStep DEF s

LEMMA BeginTransactionKept ==
    ASSUME IInv, KInv, NEW w \in Workers, BeginTransaction(w)
    PROVE  KInv'
<1> DEFINE s == run[w].stack
           c == Visible(w, Instr(w).id)
           f == NewFrame(w, "transaction", c)
           r == [run[w] EXCEPT !.stack = Append(@, f), !.pc = @ + 1, !.mode = "run"]
<1>1. /\ c # NoConn /\ At(w, "transaction") /\ conn[c].tx = "none" /\ driver' = driver
      /\ conn' = [conn EXCEPT ![c].tx = "open", ![c].state = "open"]
      /\ Goes(w, r)
  BY DEF BeginTransaction, Push
<1>2. c \in Conns /\ conn \in [Conns -> Conn] /\ s \in Seq(Frame)
  BY <1>1, VisibleLeased, Facts
<1>3. f \in Frame /\ f.conn = c
  <2>1. f \in Frame
    BY <1>1, <1>2, NewFrameTypes DEF Kinds
  <2> QED
    BY <2>1 DEF NewFrame
<1>4. r.stack = Append(s, f)
  BY Facts DEF Run
<1>5. conn'[c].tx = "open" /\ \A d \in Conns : d # c => conn'[d] = conn[d]
  BY <1>1, <1>2 DEF Conn
<1> HIDE DEF r, f, c
<1>6. Lasts(conn, conn')
  BY <1>5 DEF Lasts
<1>7. ASSUME driver # "sqlite" PROVE Kept(conn', Append(s, f))
  <2>1. Kept(conn, s)
    BY <1>7 DEF KInv
  <2>2. Kept(conn', s)
    BY <1>6, <2>1, FewerItself, FewerKept
  <2>3. \A i \in DOMAIN s : s[i].kind = "transaction" => s[i].conn # c
    BY <1>1, <2>1 DEF Kept
  <2> DEFINE t == Append(s, f)
             n == Len(s) + 1
  <2>4. t[n] = f /\ \A i \in DOMAIN t : i = n \/ (i \in DOMAIN s /\ t[i] = s[i])
    BY <1>2, <1>3, Appended
  <2> HIDE DEF t, n, s
  <2>5. Kept(conn', t)
    BY <1>3, <1>5, <2>2, <2>3, <2>4 DEF Kept
  <2> QED
    BY <2>5 DEF t
<1> QED
  BY <1>1, <1>4, <1>6, <1>7, StepKept DEF Lasts

LEMMA EndTransactionKept ==
    ASSUME IInv, KInv, NEW w \in Workers,
           CommitTransaction(w) \/ CommitFails(w) \/ UnwindTransaction(w)
    PROVE  KInv'
<1> DEFINE s == run[w].stack
           c == LastConn(s)
<1>1. s # <<>> /\ Last(s).kind = "transaction" /\ driver' = driver
  BY DEF CommitTransaction, CommitFails, UnwindTransaction, Within
<1>2. c \in Conns /\ conn[c].owner = w /\ conn \in [Conns -> Conn] /\ s \in Seq(Frame)
  BY <1>1, InnermostTransaction, Facts
<1>3. \A d \in Conns : d # c => conn'[d] = conn[d]
  BY <1>2 DEF CommitTransaction, CommitFails, UnwindTransaction, NoTx, LastConn
<1>4. \E pc \in Nat, m \in Modes : Pop(w, pc, m)
  <2>1. run[w].pc \in Nat /\ run[w].pc + 1 \in Nat /\ run[w].mode \in Modes
    BY Facts
  <2> QED
    BY <2>1, ModeTypes DEF CommitTransaction, CommitFails, UnwindTransaction
<1>5. PICK r : Goes(w, r) /\ Fewer(r.stack, s) /\ r.stack = Front(s)
  BY <1>1, <1>4, FewerPopped
<1>6. ASSUME driver # "sqlite" PROVE Kept(conn', Front(s))
  <2>1. Kept(conn, s)
    BY <1>6 DEF KInv
  <2>2. /\ Len(s) \in DOMAIN s /\ s[Len(s)].kind = "transaction" /\ s[Len(s)].conn = c
        /\ \A i \in DOMAIN Front(s) : i \in DOMAIN s /\ i # Len(s) /\ Front(s)[i] = s[i]
    <3> DEFINE t == Front(s)
    <3>1. /\ Len(s) \in Nat \ {0} /\ DOMAIN s = 1..Len(s) /\ DOMAIN t = 1..(Len(s) - 1)
          /\ \A i \in 1..(Len(s) - 1) : t[i] = s[i]
          /\ Last(s) = s[Len(s)]
      BY <1>1, <1>2, Shortened
    <3>2. s[Len(s)].kind = "transaction" /\ s[Len(s)].conn = c
      BY <1>1, <3>1 DEF LastConn
    <3> HIDE DEF s, t, c
    <3>3. Len(s) \in DOMAIN s /\ \A i \in DOMAIN t : i \in DOMAIN s /\ i # Len(s) /\ t[i] = s[i]
      BY <3>1
    <3> QED
      BY <3>2, <3>3 DEF t
  <2>3. \A i \in DOMAIN Front(s) : Front(s)[i].kind = "transaction" =>
           Front(s)[i].conn # c /\ Front(s)[i].conn \in Conns
    BY <2>1, <2>2, TransactionConn DEF Kept
  <2> HIDE DEF s, c
  <2> QED
    BY <1>3, <2>1, <2>2, <2>3 DEF Kept
<1>7. \A d \in Conns : conn[d].tx # "none" => conn'[d].tx # "none" \/ conn[d].owner = w
  BY <1>2, <1>3
<1> HIDE DEF s, c
<1> QED
  BY <1>1, <1>5, <1>6, <1>7, StepKept

LEMMA KeptInvariance == Spec => []KInv
<1>1. Init => KInv
  BY DEF Init, KInv, Kept, Idle
<1>2. IInv /\ KInv /\ [Next]_vars => KInv'
  <2> SUFFICES ASSUME IInv, KInv, [Next]_vars PROVE KInv'
    OBVIOUS
  <2>1. CASE UNCHANGED vars
    BY <2>1 DEF vars, KInv, Kept
  <2>2. ASSUME NEW w \in Workers, Start(w) \/ Step(w) PROVE KInv'
    BY <2>2, PlainKept, EnterDatabaseKept, DatabaseKept, StatementKept, BeginTransactionKept,
       EndTransactionKept DEF Step
  <2> QED
    BY <2>1, <2>2 DEF Next
<1> QED
  BY <1>1, <1>2, Invariance, PTL DEF Spec

\* What AllOrNothing says of the statements of worker v.
SendsWhole(v) == \A i \in DOMAIN run[v].stack : SendsIn(v, i) =>
    applied'[v] = applied[v] \/ (driver = "sqlite" /\ run[v].stack[i].failed)

\* A commit of one worker is none of another.
LEMMA OthersApplied ==
    ASSUME IInv, NEW w \in Workers, NEW v \in Workers, v # w, Start(w) \/ Step(w)
    PROVE  applied'[v] = applied[v]
<1>1. applied \in [Workers -> [Positions -> Nat]]
  BY DEF IInv, TypeOK
<1>2. CASE applied' = applied
  BY <1>2
<1>3. CASE \E S : Commit(w, S)
  BY <1>1, <1>3 DEF Commit
<1>4. CASE Finish(w)
  BY <1>1, <1>4 DEF Finish
<1>5. \/ applied' = applied \/ Finish(w) \/ \E S : Commit(w, S)
  BY DEF Step, Start, EnterTry, EnterDatabase, Connect, ConnectFails, LeaveDatabase,
     UnwindDatabase, Reconnect, BeginTransaction, BeginTransactionFails, CommitTransaction,
     CommitFails, UnwindTransaction, Query, QueryFails, LeavePlain, UnwindPlain
<1> QED
  BY <1>2, <1>3, <1>4, <1>5

LEMMA OwnSends ==
    ASSUME IInv, KInv, NEW w \in Workers, Start(w) \/ Step(w)
    PROVE  SendsWhole(w)
<1> SUFFICES ASSUME NEW i \in DOMAIN run[w].stack, SendsIn(w, i),
                    ~(driver = "sqlite" /\ run[w].stack[i].failed)
             PROVE  applied'[w] = applied[w]
  BY DEF SendsWhole
<1> DEFINE s == run[w].stack
           c == Target(w, Instr(w).id)
<1>1. At(w, "query") /\ s[i].kind = "transaction" /\ c = s[i].conn
  BY DEF SendsIn, Frames
<1>2. s[i].conn \in Conns /\ conn \in [Conns -> Conn]
  BY <1>1, TransactionConn, Facts
<1>3. conn[s[i].conn].tx # "none"
  <2>1. CASE driver # "sqlite"
    BY <1>1, <2>1 DEF KInv, Kept
  <2>2. CASE ~s[i].failed
    <3>1. Whole(conn[s[i].conn], s, i)
      BY <1>1, Facts DEF Held, Transactions
    <3> QED
      BY <2>2, <3>1 DEF Whole
  <2> QED
    BY <2>1, <2>2
<1>4. CASE Query(w)
  BY <1>1, <1>3, <1>4 DEF Query
<1>5. CASE QueryFails(w)
  BY <1>1, <1>3, <1>5 DEF QueryFails
<1>6. CASE ~Query(w) /\ ~QueryFails(w)
  <2>1. run[w].mode = "run" /\ run[w].pc \in DOMAIN run[w].script /\ Instr(w).op = "query"
    BY <1>1 DEF At
  <2>2. s # <<>>
    OBVIOUS
  <2>3. ~Finish(w) /\ ~CommitTransaction(w) /\ ~CommitFails(w)
    BY <2>1, <2>2 DEF Finish, CommitTransaction, CommitFails, At
  <2>4. applied' = applied
    BY <1>6, <2>3 DEF Step, Start, EnterTry, EnterDatabase, Connect, ConnectFails,
       LeaveDatabase, UnwindDatabase, Reconnect, BeginTransaction, BeginTransactionFails,
       UnwindTransaction, LeavePlain, UnwindPlain
  <2> QED
    BY <2>4
<1> QED
  BY <1>4, <1>5, <1>6

LEMMA NextSends == ASSUME IInv, KInv, [Next]_vars, NEW v \in Workers PROVE SendsWhole(v)
<1>1. CASE UNCHANGED vars
  BY <1>1 DEF vars, SendsWhole
<1>2. ASSUME NEW w \in Workers, Start(w) \/ Step(w) PROVE SendsWhole(v)
  <2>1. CASE v = w
    BY <1>2, <2>1, OwnSends
  <2>2. CASE v # w
    <3>1. applied'[v] = applied[v]
      BY <1>2, <2>2, OthersApplied
    <3> QED
      BY <3>1 DEF SendsWhole
  <2> QED
    BY <2>1, <2>2
<1> QED
  BY <1>1, <1>2 DEF Next

\* The end of a transaction tag commits what succeeded in it or nothing, and commits it
\* when the content ended normally and nothing had failed; no statement in the tag
\* commits on its own, unless SQLite has rolled back by itself.
THEOREM CommittedWhole == Spec => AllOrNothing
<1>1. IInv /\ KInv /\ [Next]_vars => \A v \in Workers : EndsWhole(v) /\ SendsWhole(v)
  BY NextEnds, NextSends
<1>2. IInv /\ KInv /\ [Next]_vars =>
        [\A w \in Workers :
         LET s == run[w].stack
             f == Last(s)
         IN
         /\ s # <<>> /\ f.kind = "transaction" /\ Len(run'[w].stack) < Len(s) =>
               \/ /\ applied'[w] = applied[w]
                  /\ f.failed \/ run'[w].mode # "run" \/ f.done = {}
               \/ /\ applied'[w] = [p \in Positions |->
                        applied[w][p] + (IF p \in f.done THEN 1 ELSE 0)]
                  /\ run[w].mode = "run"
         /\ \A i \in DOMAIN s : SendsIn(w, i) =>
               applied'[w] = applied[w] \/ (driver = "sqlite" /\ s[i].failed)]_vars
  BY <1>1, Zenon DEF EndsWhole, SendsWhole
<1> QED
  BY <1>2, Invariance, KeptInvariance, PTL DEF Spec, AllOrNothing

--------------------------------------------------------------------------------
(* Where a script is: the order in which its positions are passed *)

EndsIn(t, p, q) == {i \in p..q : t[i].op = "end"}

\* The tags between the tag at p and position q are closed.
Even(t, p, q) == 2 * Cardinality(EndsIn(t, p, q - 1)) = q - p - 1

LEMMA EndsFinite ==
    ASSUME NEW t, NEW p \in Int, NEW q \in Int
    PROVE  IsFiniteSet(EndsIn(t, p, q)) /\ Cardinality(EndsIn(t, p, q)) \in Nat
<1>1. IsFiniteSet(p..q)
  BY FS_Interval
<1>2. EndsIn(t, p, q) \in SUBSET (p..q)
  BY DEF EndsIn
<1>3. IsFiniteSet(EndsIn(t, p, q))
  BY <1>1, <1>2, FS_Subset
<1> QED BY <1>3, FS_CardinalityType

\* The ends from p to q are those before r and those from there on.
LEMMA EndsSplit ==
    ASSUME NEW t, NEW p \in Int, NEW r \in Int, NEW q \in Int, p <= r, r <= q + 1
    PROVE  Cardinality(EndsIn(t, p, q))
             = Cardinality(EndsIn(t, p, r - 1)) + Cardinality(EndsIn(t, r, q))
<1> DEFINE X == EndsIn(t, p, r - 1)
           Y == EndsIn(t, r, q)
<1>1. EndsIn(t, p, q) = X \cup Y
  BY DEF EndsIn
<1>2. X \cap Y = {}
  BY DEF EndsIn
<1>3. r - 1 \in Int
  OBVIOUS
<1>4. IsFiniteSet(X) /\ Cardinality(X) \in Nat /\ IsFiniteSet(Y) /\ Cardinality(Y) \in Nat
  BY <1>3, EndsFinite
<1> HIDE DEF X, Y
<1>5. Cardinality(X \cup Y) = Cardinality(X) + Cardinality(Y) - Cardinality(X \cap Y)
  BY <1>4, FS_Union
<1>6. Cardinality(X \cap Y) = 0
  BY <1>2, FS_EmptySet
<1> QED BY <1>1, <1>4, <1>5, <1>6 DEF X, Y

\* Closes, with EndsIn.
LEMMA ClosesEnds ==
    ASSUME NEW t, NEW p \in Int, NEW q \in Int
    PROVE  Closes(t, p, q) <=>
             /\ t[q].op = "end"
             /\ 2 * Cardinality(EndsIn(t, p, q)) = q - p + 1
             /\ \A r \in p..q-1 : 2 * Cardinality(EndsIn(t, p, r)) < r - p + 1
BY DEF Closes, EndsIn

\* A tag that begins inside another one ends inside it.
LEMMA EndInside ==
    ASSUME NEW t, NEW p \in Int, NEW q \in Int, NEW r \in Int, NEW e \in Int,
           Closes(t, p, q), Closes(t, r, e), p < r, r <= q, r <= e
    PROVE  e < q
<1> SUFFICES ASSUME q <= e PROVE FALSE
  OBVIOUS
<1> DEFINE whole == Cardinality(EndsIn(t, p, q))
           before == Cardinality(EndsIn(t, p, r - 1))
           after == Cardinality(EndsIn(t, r, q))
<1>1. whole = before + after
  BY EndsSplit
<1>2. whole \in Nat /\ before \in Nat /\ after \in Nat
  <2>1. r - 1 \in Int
    OBVIOUS
  <2> QED BY <2>1, EndsFinite
<1>3. 2 * whole = q - p + 1
  BY ClosesEnds
<1>4. 2 * before < r - 1 - p + 1
  <2>1. r - 1 \in p..q-1
    OBVIOUS
  <2> QED BY <2>1, ClosesEnds
<1>5. 2 * after <= q - r + 1
  <2>1. CASE q = e
    BY <2>1, ClosesEnds
  <2>2. CASE q # e
    <3>1. q \in r..e-1
      BY <2>2
    <3>2. 2 * after < q - r + 1
      BY <3>1, ClosesEnds
    <3> QED BY <1>2, <3>2
  <2> QED BY <2>1, <2>2
<1> HIDE DEF whole, before, after
<1> QED BY <1>1, <1>2, <1>3, <1>4, <1>5

\* A tag inside another one, from its start to its end, changes nothing between them.
LEMMA EvenAfter ==
    ASSUME NEW t, NEW p \in Int, NEW r \in Int, NEW e \in Int,
           Even(t, p, r), Closes(t, r, e), p < r, r <= e
    PROVE  Even(t, p, e + 1)
<1> DEFINE whole == Cardinality(EndsIn(t, p, e))
           before == Cardinality(EndsIn(t, p, r - 1))
           after == Cardinality(EndsIn(t, r, e))
<1>1. whole = before + after
  BY EndsSplit
<1>2. whole \in Nat /\ before \in Nat /\ after \in Nat
  <2>1. r - 1 \in Int
    OBVIOUS
  <2> QED BY <2>1, EndsFinite
<1>3. 2 * before = r - p - 1
  BY DEF Even
<1>4. 2 * after = e - r + 1
  BY ClosesEnds
<1>5. (e + 1) - 1 = e
  OBVIOUS
<1> HIDE DEF whole, before, after
<1>6. 2 * whole = (e + 1) - p - 1
  BY <1>1, <1>2, <1>3, <1>4
<1> QED BY <1>5, <1>6 DEF Even, whole

\* The content of a tag starts with nothing between.
LEMMA EvenStart ==
    ASSUME NEW t, NEW p \in Int, t[p].op # "end"
    PROVE  Even(t, p, p + 1)
<1>1. EndsIn(t, p, (p + 1) - 1) = {}
  BY DEF EndsIn
<1>2. Cardinality(EndsIn(t, p, (p + 1) - 1)) = 0
  BY <1>1, FS_EmptySet
<1> QED BY <1>2 DEF Even

\* An end with nothing between it and a tag is the end of that tag.
LEMMA EvenEnd ==
    ASSUME NEW t, NEW p \in Int, NEW q \in Int, NEW e \in Int,
           Closes(t, p, e), Even(t, p, q), p < q, q <= e, t[q].op = "end"
    PROVE  q = e
<1> SUFFICES ASSUME q # e PROVE FALSE
  OBVIOUS
<1> DEFINE whole == Cardinality(EndsIn(t, p, q))
           before == Cardinality(EndsIn(t, p, q - 1))
           after == Cardinality(EndsIn(t, q, q))
<1>1. whole = before + after
  BY EndsSplit
<1>2. EndsIn(t, q, q) = {q}
  BY DEF EndsIn
<1>3. after = 1
  BY <1>2, FS_Singleton
<1>4. whole \in Nat /\ before \in Nat
  <2>1. q - 1 \in Int
    OBVIOUS
  <2> QED BY <2>1, EndsFinite
<1>5. 2 * before = q - p - 1
  BY DEF Even
<1>6. 2 * whole < q - p + 1
  <2>1. q \in p..e-1
    OBVIOUS
  <2> QED BY <2>1, ClosesEnds
<1> HIDE DEF whole, before, after
<1> QED BY <1>1, <1>3, <1>4, <1>5, <1>6

\* Where a tag ends.
LEMMA EndOfTag ==
    ASSUME NEW t \in AllScripts, NEW p \in DOMAIN t, t[p].op # "end"
    PROVE  /\ EndOf(t, p) \in DOMAIN t /\ p < EndOf(t, p)
           /\ Closes(t, p, EndOf(t, p)) /\ t[EndOf(t, p)].op = "end"
           /\ p \in Nat \ {0} /\ EndOf(t, p) \in Nat \ {0} /\ EndOf(t, p) <= Len(t)
<1>1. PICK w \in Workers : t \in Scripts[w]
  BY DEF AllScripts
<1>2. \E q \in p..Len(t) : Closes(t, p, q)
  BY <1>1, DatabaseAssumption
<1>3. EndOf(t, p) \in p..Len(t) /\ Closes(t, p, EndOf(t, p))
  BY <1>2 DEF EndOf
<1>4. t \in Seq(Instruction)
  BY <1>1, DatabaseAssumption
<1>5. DOMAIN t = 1..Len(t) /\ Len(t) \in Nat
  BY <1>4, LenProperties
<1> DEFINE e == EndOf(t, p)
<1>6. t[e].op = "end"
  BY <1>3 DEF Closes
<1> HIDE DEF e
<1>7. e # p
  BY <1>6
<1> QED BY <1>3, <1>5, <1>6, <1>7 DEF e

Thrown == {"error", "broken"}

\* Position pc of script t lies in the content of each of the tags of stack s, each of
\* which lies in the content of the one below it, with nothing else open between them;
\* and, unless an exception is in flight, with nothing else open before pc.
Inside(t, s, pc, m) ==
    /\ \A i \in DOMAIN s : s[i].at < pc /\ pc <= EndOf(t, s[i].at)
    /\ \A i, j \in DOMAIN s : i < j => s[i].at < s[j].at
    /\ \A i \in DOMAIN s : i + 1 \in DOMAIN s => Even(t, s[i].at, s[i + 1].at)
    /\ m \notin Thrown /\ s # <<>> => Even(t, Last(s).at, pc)

\* What has been passed, or may have been, of the content of the innermost tag: up to pc,
\* or all of it when an exception is in flight.
Reach(t, s, pc, m) ==
    IF m \notin Thrown THEN pc
    ELSE IF s = <<>> THEN Len(t) + 1 ELSE EndOf(t, Last(s).at) + 1

\* Stacks of the same tags.
Alike(s, u) ==
    /\ Len(u) = Len(s)
    /\ \A i \in DOMAIN s : /\ u[i].kind = s[i].kind /\ u[i].at = s[i].at
                           /\ u[i].id = s[i].id /\ u[i].conn = s[i].conn

LEMMA ScriptSeq ==
    ASSUME NEW t \in AllScripts
    PROVE  t \in Seq(Instruction) /\ Len(t) \in Nat /\ DOMAIN t = 1..Len(t)
<1>1. t \in Seq(Instruction)
  BY DatabaseAssumption DEF AllScripts
<1> QED BY <1>1, LenProperties

LEMMA StackSeq ==
    ASSUME NEW s \in Seq(Frame)
    PROVE  Len(s) \in Nat /\ DOMAIN s = 1..Len(s) /\ \A i \in DOMAIN s : s[i] \in Frame
<1>1. Len(s) \in Nat /\ DOMAIN s = 1..Len(s)
  BY LenProperties
<1> QED BY <1>1, ElementOfSeq

\* The tags of a stack end, the outer ones after the inner ones.
LEMMA TagEnds ==
    ASSUME NEW t \in AllScripts, NEW s \in Seq(Frame), NEW pc \in Nat, NEW m \in Modes,
           Opened(t, s), Inside(t, s, pc, m), NEW i \in DOMAIN s
    PROVE  /\ s[i].at \in Nat \ {0} /\ EndOf(t, s[i].at) \in Nat \ {0}
           /\ s[i].at < EndOf(t, s[i].at) /\ EndOf(t, s[i].at) <= Len(t)
           /\ Closes(t, s[i].at, EndOf(t, s[i].at)) /\ t[s[i].at].op # "end"
           /\ t[EndOf(t, s[i].at)].op = "end"
           /\ \A j \in DOMAIN s : i < j => EndOf(t, s[j].at) < EndOf(t, s[i].at)
<1>1. ASSUME NEW j \in DOMAIN s
      PROVE  /\ s[j].at \in Nat \ {0} /\ EndOf(t, s[j].at) \in Nat \ {0}
             /\ s[j].at < EndOf(t, s[j].at) /\ EndOf(t, s[j].at) <= Len(t)
             /\ Closes(t, s[j].at, EndOf(t, s[j].at)) /\ t[s[j].at].op # "end"
             /\ t[EndOf(t, s[j].at)].op = "end"
  BY EndOfTag DEF Opened
<1>2. ASSUME NEW j \in DOMAIN s, i < j
      PROVE  EndOf(t, s[j].at) < EndOf(t, s[i].at)
  <2>1. s[i].at < s[j].at /\ s[j].at < pc /\ pc <= EndOf(t, s[i].at)
    BY <1>2 DEF Inside
  <2> DEFINE p == s[i].at
             q == EndOf(t, s[i].at)
             r == s[j].at
             e == EndOf(t, s[j].at)
  <2>2. p \in Nat /\ q \in Nat /\ r \in Nat /\ e \in Nat /\ r < e
        /\ Closes(t, p, q) /\ Closes(t, r, e)
    BY <1>1
  <2> HIDE DEF p, q, r, e
  <2>3. p < r /\ r <= q
    BY <2>1, <2>2 DEF p, q, r
  <2>4. e < q
    BY <2>2, <2>3, EndInside
  <2> QED BY <2>4 DEF q, e
<1> QED BY <1>1, <1>2

LEMMA AlikeInside ==
    ASSUME NEW t, NEW s \in Seq(Frame), NEW u \in Seq(Frame), Alike(s, u),
           NEW pc, NEW m \in Modes, NEW n \in Modes, Inside(t, s, pc, m),
           m \in Thrown => n \in Thrown
    PROVE  Inside(t, u, pc, n) /\ (Opened(t, s) => Opened(t, u)) /\ (u = <<>> <=> s = <<>>)
           /\ (s # <<>> => Last(u).at = Last(s).at)
<1>1. /\ Len(s) \in Nat /\ DOMAIN s = 1..Len(s) /\ DOMAIN u = 1..Len(s) /\ Len(u) = Len(s)
  BY StackSeq DEF Alike
<1>2. \A i \in 1..Len(s) : u[i].at = s[i].at
  BY <1>1 DEF Alike
<1>3. u = <<>> <=> s = <<>>
  BY <1>1, EmptySeq
<1>4. s # <<>> => Len(s) \in 1..Len(s)
  BY <1>1, EmptySeq
<1>5. s # <<>> => Last(u).at = Last(s).at
  BY <1>1, <1>2, <1>4 DEF Last
<1>6. Inside(t, u, pc, n)
  <2>1. \A i \in DOMAIN u : u[i].at < pc /\ pc <= EndOf(t, u[i].at)
    BY <1>1, <1>2 DEF Inside
  <2>2. \A i, j \in DOMAIN u : i < j => u[i].at < u[j].at
    BY <1>1, <1>2 DEF Inside
  <2>3. \A i \in DOMAIN u : i + 1 \in DOMAIN u => Even(t, u[i].at, u[i + 1].at)
    BY <1>1, <1>2 DEF Inside
  <2>4. n \notin Thrown /\ u # <<>> => Even(t, Last(u).at, pc)
    BY <1>3, <1>5 DEF Inside
  <2> QED BY <2>1, <2>2, <2>3, <2>4 DEF Inside
<1>7. Opened(t, s) => Opened(t, u)
  BY <1>1, <1>2 DEF Opened
<1> QED BY <1>3, <1>5, <1>6, <1>7

\* A tag starts.
LEMMA PushInside ==
    ASSUME NEW t \in AllScripts, NEW s \in Seq(Frame), NEW pc \in DOMAIN t, NEW m \in Modes,
           NEW f \in Frame, NEW n \in Modes, Opened(t, s), Inside(t, s, pc, m),
           m \notin Thrown, t[pc].op # "end", f.at = pc
    PROVE  Inside(t, Append(s, f), pc + 1, n) /\ Opened(t, Append(s, f))
<1> DEFINE u == Append(s, f)
           k == Len(s)
<1>1. /\ k \in Nat /\ Len(u) = k + 1 /\ DOMAIN s = 1..k /\ DOMAIN u = 1..(k + 1)
      /\ (\A i \in 1..k : u[i] = s[i]) /\ u[k + 1] = f /\ u \in Seq(Frame)
  BY Appended
<1> HIDE DEF u
<1>2. pc \in Nat \ {0}
  BY ScriptSeq
<1>3. \A i \in 1..k : /\ s[i].at \in Nat /\ EndOf(t, s[i].at) \in Nat
                      /\ s[i].at < pc /\ pc < EndOf(t, s[i].at)
  <2> SUFFICES ASSUME NEW i \in 1..k
               PROVE  /\ s[i].at \in Nat /\ EndOf(t, s[i].at) \in Nat
                      /\ s[i].at < pc /\ pc < EndOf(t, s[i].at)
    OBVIOUS
  <2> DEFINE e == EndOf(t, s[i].at)
  <2>1. s[i].at \in Nat /\ e \in Nat /\ t[e].op = "end"
    BY <1>1, <1>2, TagEnds
  <2>2. s[i].at < pc /\ pc <= e
    BY <1>1 DEF Inside
  <2> HIDE DEF e
  <2>3. pc # e
    BY <2>1
  <2>4. pc < e
    BY <1>2, <2>1, <2>2, <2>3
  <2> QED BY <2>1, <2>2, <2>4 DEF e
<1>4. EndOf(t, pc) \in Nat /\ pc < EndOf(t, pc)
  BY EndOfTag
<1>5. \A i \in DOMAIN u : u[i].at < pc + 1 /\ pc + 1 <= EndOf(t, u[i].at)
  <2> SUFFICES ASSUME NEW i \in 1..(k + 1)
               PROVE  u[i].at < pc + 1 /\ pc + 1 <= EndOf(t, u[i].at)
    BY <1>1
  <2>1. CASE i \in 1..k
    <3> DEFINE a == s[i].at
               e == EndOf(t, s[i].at)
    <3>1. a \in Nat /\ e \in Nat /\ a < pc /\ pc < e
      BY <1>3, <2>1
    <3>2. u[i] = s[i]
      BY <1>1, <2>1
    <3> HIDE DEF a, e
    <3>3. a < pc + 1 /\ pc + 1 <= e
      BY <1>2, <3>1
    <3> QED BY <3>2, <3>3 DEF a, e
  <2>2. CASE i = k + 1
    BY <1>1, <1>2, <1>4, <2>2
  <2> QED BY <1>1, <2>1, <2>2
<1>6. \A i, j \in DOMAIN u : i < j => u[i].at < u[j].at
  <2> SUFFICES ASSUME NEW i \in 1..(k + 1), NEW j \in 1..(k + 1), i < j
               PROVE  u[i].at < u[j].at
    BY <1>1
  <2>1. i \in 1..k /\ u[i].at = s[i].at
    BY <1>1
  <2>2. CASE j \in 1..k
    BY <1>1, <2>1, <2>2 DEF Inside
  <2>3. CASE j = k + 1
    BY <1>1, <1>3, <2>1, <2>3
  <2> QED BY <1>1, <2>2, <2>3
<1>7. \A i \in DOMAIN u : i + 1 \in DOMAIN u => Even(t, u[i].at, u[i + 1].at)
  <2> SUFFICES ASSUME NEW i \in 1..(k + 1), i + 1 \in 1..(k + 1)
               PROVE  Even(t, u[i].at, u[i + 1].at)
    BY <1>1
  <2>1. i \in 1..k /\ u[i].at = s[i].at
    BY <1>1
  <2>2. CASE i + 1 \in 1..k
    BY <1>1, <2>1, <2>2 DEF Inside
  <2>3. CASE i = k
    <3>1. s # <<>> /\ Last(s) = s[k]
      BY <1>1, <2>1, <2>3, EmptySeq DEF Last
    <3>2. Even(t, Last(s).at, pc)
      BY <3>1 DEF Inside
    <3> QED BY <1>1, <2>1, <2>3, <3>1, <3>2
  <2>4. \A l \in Nat : \A j \in 1..l : j + 1 \in 1..l \/ j = l
    OBVIOUS
  <2>5. i + 1 \in 1..k \/ i = k
    BY <1>1, <2>1, <2>4
  <2> QED BY <2>2, <2>3, <2>5
<1>8. Even(t, Last(u).at, pc + 1)
  <2>1. Last(u).at = pc
    BY <1>1 DEF Last
  <2> QED BY <1>2, <2>1, EvenStart
<1>9. Inside(t, u, pc + 1, n)
  BY <1>5, <1>6, <1>7, <1>8 DEF Inside
<1>10. Opened(t, u)
  <2> SUFFICES ASSUME NEW i \in 1..(k + 1)
               PROVE  u[i].at \in DOMAIN t /\ t[u[i].at].op # "end"
    BY <1>1 DEF Opened
  <2>1. CASE i \in 1..k
    BY <1>1, <2>1 DEF Opened
  <2>2. CASE i = k + 1
    BY <1>1, <2>2
  <2> QED BY <1>1, <2>1, <2>2
<1> QED BY <1>9, <1>10 DEF u

\* The content of the tag at pc is skipped.
LEMMA SkipInside ==
    ASSUME NEW t \in AllScripts, NEW s \in Seq(Frame), NEW pc \in DOMAIN t, NEW m \in Modes,
           NEW n \in Modes, Opened(t, s), Inside(t, s, pc, m), m \notin Thrown, t[pc].op # "end"
    PROVE  Inside(t, s, EndOf(t, pc) + 1, n)
<1> DEFINE e == EndOf(t, pc)
<1>1. pc \in Nat \ {0} /\ e \in Nat \ {0} /\ pc < e /\ Closes(t, pc, e)
  BY EndOfTag
<1> HIDE DEF e
<1>2. ASSUME NEW i \in DOMAIN s
      PROVE  s[i].at < e + 1 /\ e + 1 <= EndOf(t, s[i].at)
  <2> DEFINE a == s[i].at
             q == EndOf(t, s[i].at)
  <2>1. a \in Nat /\ q \in Nat /\ Closes(t, a, q)
    BY <1>1, TagEnds
  <2>2. a < pc /\ pc <= q
    BY DEF Inside
  <2> HIDE DEF a, q
  <2>3. e < q
    BY <1>1, <2>1, <2>2, EndInside
  <2>4. a < e + 1 /\ e + 1 <= q
    BY <1>1, <2>1, <2>2, <2>3
  <2> QED BY <2>4 DEF a, q
<1>3. ASSUME s # <<>>
      PROVE  Even(t, Last(s).at, e + 1)
  <2> DEFINE a == Last(s).at
  <2>1. Len(s) \in DOMAIN s /\ a = s[Len(s)].at
    BY <1>3, StackSeq, EmptySeq DEF Last
  <2>2. a \in Nat
    BY <1>1, <2>1, TagEnds
  <2>3. a < pc /\ Even(t, a, pc)
    BY <1>3, <2>1 DEF Inside
  <2> HIDE DEF a
  <2>4. Even(t, a, e + 1)
    BY <1>1, <2>2, <2>3, EvenAfter
  <2> QED BY <2>4 DEF a
<1>4. Inside(t, s, e + 1, n)
  BY <1>2, <1>3 DEF Inside
<1> QED BY <1>4 DEF e

\* The innermost tag goes while an exception is in flight.
LEMMA PopInside ==
    ASSUME NEW t, NEW s \in Seq(Frame), s # <<>>, NEW pc, NEW m \in Modes,
           NEW n \in Thrown, Opened(t, s), Inside(t, s, pc, m)
    PROVE  Inside(t, Front(s), pc, n) /\ Opened(t, Front(s))
<1> DEFINE u == Front(s)
           k == Len(s)
<1>1. /\ k \in Nat \ {0} /\ Len(u) = k - 1 /\ DOMAIN s = 1..k /\ DOMAIN u = 1..(k - 1)
      /\ (\A i \in 1..(k - 1) : u[i] = s[i])
  BY Shortened
<1> HIDE DEF u
<1>2. \A i \in 1..(k - 1) : i \in 1..k
  BY <1>1
<1>3. Inside(t, u, pc, n)
  <2>1. \A i \in DOMAIN u : u[i].at < pc /\ pc <= EndOf(t, u[i].at)
    BY <1>1, <1>2 DEF Inside
  <2>2. \A i, j \in DOMAIN u : i < j => u[i].at < u[j].at
    BY <1>1, <1>2 DEF Inside
  <2>3. \A i \in DOMAIN u : i + 1 \in DOMAIN u => Even(t, u[i].at, u[i + 1].at)
    BY <1>1, <1>2 DEF Inside
  <2> QED BY <2>1, <2>2, <2>3 DEF Inside
<1>4. Opened(t, u)
  BY <1>1, <1>2 DEF Opened
<1> QED BY <1>3, <1>4 DEF u

\* The script goes on behind the innermost tag.
LEMMA CloseInside ==
    ASSUME NEW t \in AllScripts, NEW s \in Seq(Frame), s # <<>>, NEW pc \in Nat,
           NEW m \in Modes, NEW n \in Modes, Opened(t, s), Inside(t, s, pc, m)
    PROVE  Inside(t, Front(s), EndOf(t, Last(s).at) + 1, n) /\ Opened(t, Front(s))
<1> DEFINE u == Front(s)
           k == Len(s)
           e == EndOf(t, Last(s).at)
           a == Last(s).at
<1>1. /\ k \in Nat \ {0} /\ Len(u) = k - 1 /\ DOMAIN s = 1..k /\ DOMAIN u = 1..(k - 1)
      /\ (\A i \in 1..(k - 1) : u[i] = s[i]) /\ Last(s) = s[k] /\ u \in Seq(Frame)
  BY Shortened
<1>2. k \in DOMAIN s
  BY <1>1
<1>3. /\ a \in Nat \ {0} /\ e \in Nat \ {0} /\ a < e /\ Closes(t, a, e)
      /\ \A i \in 1..(k - 1) : /\ i \in DOMAIN s /\ s[i].at \in Nat /\ EndOf(t, s[i].at) \in Nat
                              /\ s[i].at < a /\ e < EndOf(t, s[i].at)
  <2>1. a \in Nat \ {0} /\ e \in Nat \ {0} /\ a < e /\ Closes(t, a, e)
    BY <1>1, <1>2, TagEnds
  <2>2. ASSUME NEW i \in 1..(k - 1)
        PROVE  /\ i \in DOMAIN s /\ s[i].at \in Nat /\ EndOf(t, s[i].at) \in Nat
               /\ s[i].at < a /\ e < EndOf(t, s[i].at)
    <3>1. i \in DOMAIN s /\ i < k
      BY <1>1
    <3>2. s[i].at \in Nat /\ EndOf(t, s[i].at) \in Nat /\ e < EndOf(t, s[i].at)
      BY <1>1, <1>2, <3>1, TagEnds
    <3>3. s[i].at < a
      BY <1>1, <1>2, <3>1 DEF Inside
    <3> QED BY <3>1, <3>2, <3>3
  <2> QED BY <2>1, <2>2
<1>4. Opened(t, u)
  BY <1>1, <1>3 DEF Opened
<1>5. \A i, j \in 1..(k - 1) : i < j => s[i].at < s[j].at
  BY <1>3 DEF Inside
<1>6. \A i \in 1..(k - 1) : i + 1 \in 1..(k - 1) => Even(t, s[i].at, s[i + 1].at)
  BY <1>3 DEF Inside
<1>7. k > 1 => Even(t, s[k - 1].at, a)
  <2> SUFFICES ASSUME k > 1 PROVE Even(t, s[k - 1].at, a)
    OBVIOUS
  <2> DEFINE i == k - 1
  <2>1. i \in DOMAIN s /\ i + 1 = k /\ i + 1 \in DOMAIN s
    BY <1>1
  <2>2. Even(t, s[i].at, s[i + 1].at)
    BY <2>1 DEF Inside
  <2> QED BY <1>1, <2>1, <2>2
<1> HIDE DEF u, a, e
<1>8. \A i \in DOMAIN u : u[i].at < e + 1 /\ e + 1 <= EndOf(t, u[i].at)
  <2> SUFFICES ASSUME NEW i \in 1..(k - 1)
               PROVE  s[i].at < e + 1 /\ e + 1 <= EndOf(t, s[i].at)
    BY <1>1
  <2> DEFINE b == s[i].at
             q == EndOf(t, s[i].at)
  <2>1. b \in Nat /\ q \in Nat /\ b < a /\ e < q
    BY <1>3
  <2> HIDE DEF b, q
  <2>2. b < e + 1 /\ e + 1 <= q
    BY <1>3, <2>1
  <2> QED BY <2>2 DEF b, q
<1>9. u # <<>> => Even(t, Last(u).at, e + 1)
  <2> SUFFICES ASSUME u # <<>> PROVE Even(t, Last(u).at, e + 1)
    OBVIOUS
  <2> DEFINE i == k - 1
             b == s[i].at
  <2>1. k > 1
    BY <1>1, EmptySeq
  <2>2. i \in 1..i /\ Last(u) = s[i]
    BY <1>1, <2>1 DEF Last
  <2>3. b \in Nat /\ b < a
    BY <1>3, <2>2
  <2>4. Even(t, b, a)
    BY <1>7, <2>1
  <2> HIDE DEF b
  <2>5. Even(t, b, e + 1)
    BY <1>3, <2>3, <2>4, EvenAfter
  <2> QED BY <2>2, <2>5 DEF b
<1>10. Inside(t, u, e + 1, n)
  BY <1>1, <1>5, <1>6, <1>8, <1>9 DEF Inside
<1> QED BY <1>4, <1>10 DEF u, e

\* The end that the script is at is that of the innermost tag.
LEMMA AtItsEnd ==
    ASSUME NEW t \in AllScripts, NEW s \in Seq(Frame), s # <<>>, NEW pc \in Nat,
           NEW m \in Modes, Opened(t, s), Inside(t, s, pc, m), m \notin Thrown, t[pc].op = "end"
    PROVE  pc = EndOf(t, Last(s).at)
<1> DEFINE a == Last(s).at
           e == EndOf(t, a)
<1>1. Len(s) \in DOMAIN s /\ a = s[Len(s)].at
  BY StackSeq, EmptySeq DEF Last
<1>2. a \in Nat /\ e \in Nat /\ Closes(t, a, e)
  BY <1>1, TagEnds
<1>3. a < pc /\ pc <= e /\ Even(t, a, pc)
  BY <1>1 DEF Inside
<1> HIDE DEF a, e
<1>4. pc = e
  BY <1>2, <1>3, EvenEnd
<1> QED BY <1>4 DEF e, a

\* The content of the innermost tag starts again.
LEMMA RetryInside ==
    ASSUME NEW t \in AllScripts, NEW s \in Seq(Frame), s # <<>>, NEW pc \in Nat,
           NEW m \in Modes, NEW n \in Modes, Opened(t, s), Inside(t, s, pc, m)
    PROVE  Inside(t, s, Last(s).at + 1, n)
<1> DEFINE k == Len(s)
           a == Last(s).at
<1>1. k \in Nat \ {0} /\ DOMAIN s = 1..k /\ k \in DOMAIN s /\ a = s[k].at
  BY StackSeq, EmptySeq DEF Last
<1>2. a \in Nat \ {0} /\ t[a].op # "end"
  BY <1>1, TagEnds
<1>3. a < pc
  BY <1>1 DEF Inside
<1>4. ASSUME NEW i \in DOMAIN s
      PROVE  s[i].at < a + 1 /\ a + 1 <= EndOf(t, s[i].at)
  <2> DEFINE b == s[i].at
             q == EndOf(t, s[i].at)
  <2>1. b \in Nat /\ q \in Nat
    BY TagEnds
  <2>2. pc <= q /\ (i < k => b < a)
    BY <1>1 DEF Inside
  <2>3. i < k \/ b = a
    BY <1>1
  <2> HIDE DEF b, q, a
  <2>4. b < a + 1 /\ a + 1 <= q
    BY <1>2, <1>3, <2>1, <2>2, <2>3
  <2> QED BY <2>4 DEF b, q
<1>5. Even(t, a, a + 1)
  BY <1>2, EvenStart
<1> QED BY <1>4, <1>5 DEF Inside

--------------------------------------------------------------------------------
(* How often content is executed *)

\* f lists the first numbers of Repeats, up to k.
Tripled(f, k) == f = [i \in 0..k |-> IF i = 0 THEN 1 ELSE 3 * f[i - 1]]
First(k) == CHOOSE f : Tripled(f, k)

LEMMA TripledValues ==
    ASSUME NEW k \in Nat, NEW f, Tripled(f, k)
    PROVE  /\ f[0] = 1
           /\ \A i \in Nat : i + 1 \in 0..k => f[i + 1] = 3 * f[i]
<1>1. \A i \in 0..k : f[i] = IF i = 0 THEN 1 ELSE 3 * f[i - 1]
  BY DEF Tripled
<1>2. 0 \in 0..k
  OBVIOUS
<1>3. f[0] = 1
  BY <1>1, <1>2
<1>4. ASSUME NEW i \in Nat, i + 1 \in 0..k
      PROVE  f[i + 1] = 3 * f[i]
  <2>1. i + 1 # 0 /\ (i + 1) - 1 = i
    OBVIOUS
  <2>2. f[i + 1] = IF i + 1 = 0 THEN 1 ELSE 3 * f[(i + 1) - 1]
    BY <1>1, <1>4, Zenon
  <2> QED BY <2>1, <2>2
<1> QED BY <1>3, <1>4

LEMMA TripledExists ==
    \A k \in Nat : \E f : Tripled(f, k)
<1> DEFINE S == {k \in Nat : \E f : Tripled(f, k)}
<1>1. 0 \in S
  <2> DEFINE g == [i \in 0..0 |-> 1]
  <2>1. Tripled(g, 0)
    BY DEF Tripled
  <2> QED BY <2>1
<1>2. ASSUME NEW k \in Nat, k \in S
      PROVE  k + 1 \in S
  <2>1. PICK f : Tripled(f, k)
    BY <1>2
  <2> DEFINE g == [i \in 0..(k + 1) |-> IF i = k + 1 THEN 3 * f[k] ELSE f[i]]
  <2>2. ASSUME NEW i \in 0..(k + 1)
        PROVE  g[i] = IF i = 0 THEN 1 ELSE 3 * g[i - 1]
    <3>1. \A j \in 0..k : f[j] = IF j = 0 THEN 1 ELSE 3 * f[j - 1]
      BY <2>1 DEF Tripled
    <3>2. CASE i = 0
      <4>1. 0 \in 0..k /\ 0 # k + 1
        OBVIOUS
      <4>2. f[0] = 1
        BY <3>1, <4>1
      <4> QED BY <3>2, <4>1, <4>2
    <3>3. CASE i = k + 1
      <4>1. i - 1 = k /\ k # k + 1 /\ k \in 0..(k + 1) /\ i # 0
        BY <3>3
      <4> QED BY <3>3, <4>1
    <3>4. CASE i \in 1..k
      <4>1. i \in 0..k /\ i # k + 1 /\ i # 0 /\ i - 1 # k + 1 /\ i - 1 \in 0..(k + 1)
        BY <3>4
      <4>2. f[i] = 3 * f[i - 1]
        BY <3>1, <4>1
      <4> QED BY <4>1, <4>2
    <3> QED BY <3>2, <3>3, <3>4
  <2>3. g = [i \in 0..(k + 1) |-> IF i = 0 THEN 1 ELSE 3 * g[i - 1]]
    <3> DEFINE h == [i \in 0..(k + 1) |-> IF i = 0 THEN 1 ELSE 3 * g[i - 1]]
    <3>1. DOMAIN g = 0..(k + 1) /\ DOMAIN h = 0..(k + 1)
      OBVIOUS
    <3>2. \A i \in 0..(k + 1) : h[i] = IF i = 0 THEN 1 ELSE 3 * g[i - 1]
      OBVIOUS
    <3>3. \A i \in 0..(k + 1) : g[i] = h[i]
      BY <2>2, <3>2
    <3>4. g = [i \in DOMAIN g |-> g[i]] /\ h = [i \in DOMAIN h |-> h[i]]
      OBVIOUS
    <3> HIDE DEF g, h
    <3>5. g = h
      BY <3>1, <3>3, <3>4
    <3> QED BY <3>5 DEF h
  <2>4. Tripled(g, k + 1)
    BY <2>3 DEF Tripled
  <2> QED BY <2>4
<1>3. \A k \in Nat : k \in S
  <2> HIDE DEF S
  <2> QED BY <1>1, <1>2, NatSetInduction
<1> QED BY <1>3

LEMMA TripledSame ==
    ASSUME NEW k \in Nat, NEW l \in Nat, NEW f, NEW g, Tripled(f, k), Tripled(g, l), k <= l
    PROVE  \A i \in 0..k : f[i] = g[i]
<1> DEFINE S == {i \in Nat : i \in 0..k => f[i] = g[i]}
<1>1. f[0] = 1 /\ g[0] = 1
  BY TripledValues
<1>2. /\ \A i \in Nat : i + 1 \in 0..k => f[i + 1] = 3 * f[i]
      /\ \A i \in Nat : i + 1 \in 0..l => g[i + 1] = 3 * g[i]
  BY TripledValues
<1>3. 0 \in S
  BY <1>1
<1>4. ASSUME NEW i \in Nat, i \in S
      PROVE  i + 1 \in S
  <2> SUFFICES ASSUME i + 1 \in 0..k PROVE f[i + 1] = g[i + 1]
    OBVIOUS
  <2>1. i \in 0..k /\ i + 1 \in 0..l
    OBVIOUS
  <2>2. f[i + 1] = 3 * f[i] /\ g[i + 1] = 3 * g[i]
    BY <1>2, <2>1, Zenon
  <2> QED BY <1>4, <2>1, <2>2
<1>5. \A i \in Nat : i \in S
  <2> HIDE DEF S
  <2> QED BY <1>3, <1>4, NatSetInduction
<1> QED BY <1>5

\* What the definition of Repeats says of it.
LEMMA RepeatsValues ==
    /\ Repeats[0] = 1
    /\ \A n \in Nat : Repeats[n + 1] = 3 * Repeats[n]
    /\ \A n \in Nat : Repeats[n] \in Nat \ {0}
<1>1. \A k \in Nat : Tripled(First(k), k)
  BY TripledExists, Zenon DEF First
<1> DEFINE h == [n \in Nat |-> First(n)[n]]
<1>2. ASSUME NEW n \in Nat
      PROVE  h[n] = IF n = 0 THEN 1 ELSE 3 * h[n - 1]
  <2>1. CASE n = 0
    <3>1. First(0)[0] = 1
      BY <1>1, TripledValues
    <3> QED BY <2>1, <3>1
  <2>2. CASE n # 0
    <3> DEFINE m == n - 1
               f == First(m)
               g == First(n)
    <3>1. m \in Nat /\ m + 1 = n /\ m <= n /\ m \in 0..m /\ m + 1 \in 0..n
      BY <2>2
    <3>2. Tripled(f, m) /\ Tripled(g, n)
      BY <1>1, <3>1
    <3> HIDE DEF f, g, m
    <3>3. f[m] = g[m]
      BY <3>1, <3>2, TripledSame
    <3>4. g[m + 1] = 3 * g[m]
      BY <3>1, <3>2, TripledValues
    <3>5. g[n] = 3 * f[m]
      BY <3>1, <3>3, <3>4
    <3>6. h[n] = g[n] /\ h[n - 1] = f[m]
      BY <3>1 DEF f, g, m
    <3> QED BY <2>2, <3>5, <3>6
  <2> QED BY <2>1, <2>2
<1>3. h = [n \in Nat |-> IF n = 0 THEN 1 ELSE 3 * h[n - 1]]
  <2> DEFINE H == [n \in Nat |-> IF n = 0 THEN 1 ELSE 3 * h[n - 1]]
  <2>1. DOMAIN h = Nat /\ DOMAIN H = Nat /\ h = [n \in DOMAIN h |-> h[n]]
        /\ H = [n \in DOMAIN H |-> H[n]]
    OBVIOUS
  <2>2. \A n \in Nat : H[n] = IF n = 0 THEN 1 ELSE 3 * h[n - 1]
    OBVIOUS
  <2>3. \A n \in Nat : h[n] = H[n]
    BY <1>2, <2>2
  <2> HIDE DEF h, H
  <2>4. h = H
    BY <2>1, <2>3
  <2> QED BY <2>4 DEF H
<1> HIDE DEF h
<1>4. Repeats = [n \in Nat |-> IF n = 0 THEN 1 ELSE 3 * Repeats[n - 1]]
  BY <1>3, Zenon DEF Repeats
<1>5. \A n \in Nat : Repeats[n] = IF n = 0 THEN 1 ELSE 3 * Repeats[n - 1]
  <2> DEFINE R == Repeats
  <2>1. R = [n \in Nat |-> IF n = 0 THEN 1 ELSE 3 * R[n - 1]]
    BY <1>4
  <2> HIDE DEF R
  <2>2. \A n \in Nat : R[n] = IF n = 0 THEN 1 ELSE 3 * R[n - 1]
    BY <2>1
  <2> QED BY <2>2 DEF R
<1>6. Repeats[0] = 1
  BY <1>5
<1>7. ASSUME NEW n \in Nat
      PROVE  Repeats[n + 1] = 3 * Repeats[n]
  <2>1. n + 1 \in Nat /\ n + 1 # 0 /\ (n + 1) - 1 = n
    OBVIOUS
  <2>2. Repeats[n + 1] = IF n + 1 = 0 THEN 1 ELSE 3 * Repeats[(n + 1) - 1]
    BY <1>5, <2>1, Zenon
  <2> QED BY <2>1, <2>2
<1>8. \A n \in Nat : Repeats[n] \in Nat \ {0}
  <2> DEFINE S == {n \in Nat : Repeats[n] \in Nat \ {0}}
  <2>1. 0 \in S
    BY <1>6
  <2>2. ASSUME NEW n \in Nat, n \in S PROVE n + 1 \in S
    BY <1>7, <2>2
  <2>3. \A n \in Nat : n \in S
    <3> HIDE DEF S
    <3> QED BY <2>1, <2>2, NatSetInduction
  <2> QED BY <2>3
<1> QED BY <1>6, <1>7, <1>8

\* The database tags whose content position p belongs to.
Encloses(t, f, p) == f.kind = "database" /\ f.at < p /\ p <= EndOf(t, f.at)

\* How often content may run for each attempt of the first i tags of stack s: three times
\* for each id that none of those around p has.
FreeIds(t, s, p, i) == Ids \ {s[j].id : j \in {k \in 1..i : Encloses(t, s[k], p)}}
Unit(t, s, p, i) == Repeats[Cardinality(FreeIds(t, s, p, i))]

\* What the attempts of a database tag that are over may have made, x each.
Spent(tries, x) == (3 - tries) * x

\* u bounds what the attempts that are over may have made at p in the first tags of s.
Fits(t, s, p, u) ==
    /\ u \in [0..Len(s) -> Nat] /\ u[0] = 0
    /\ \A i \in 1..Len(s) :
         u[i] <= u[i - 1] + IF Encloses(t, s[i], p) THEN Spent(s[i].tries, Unit(t, s, p, i)) ELSE 0

\* n executions of p fit into the attempts that are over and, when p has been reached,
\* the present ones.
Bounded(t, s, g, p, n) == \E u :
    Fits(t, s, p, u) /\ n <= u[Len(s)] + IF p < g THEN Unit(t, s, p, Len(s)) ELSE 0

\* An id names one database tag of the stack.
Distinct(s) == \A i, j \in DOMAIN s :
    Kind(s, i, "database") /\ Kind(s, j, "database") /\ s[i].id = s[j].id => i = j

LEMMA SpentValues ==
    ASSUME NEW x \in Nat, NEW n \in 1..3
    PROVE  /\ Spent(n, x) \in Nat /\ Spent(n, x) + x <= 3 * x
           /\ n = 3 => Spent(n, x) = 0
           /\ n # 1 => Spent(n - 1, x) = Spent(n, x) + x
<1>1. CASE n = 1
  BY <1>1 DEF Spent
<1>2. CASE n = 2
  BY <1>2 DEF Spent
<1>3. CASE n = 3
  BY <1>3 DEF Spent
<1> QED BY <1>1, <1>2, <1>3

LEMMA UnitTypes ==
    ASSUME NEW t, NEW s, NEW p, NEW i
    PROVE  /\ IsFiniteSet(FreeIds(t, s, p, i)) /\ Cardinality(FreeIds(t, s, p, i)) \in Nat
           /\ Unit(t, s, p, i) \in Nat \ {0}
<1>1. IsFiniteSet(Ids)
  BY DatabaseAssumption
<1>2. FreeIds(t, s, p, i) \in SUBSET Ids
  BY DEF FreeIds
<1>3. IsFiniteSet(FreeIds(t, s, p, i))
  BY <1>1, <1>2, FS_Subset
<1>4. Cardinality(FreeIds(t, s, p, i)) \in Nat
  BY <1>3, FS_CardinalityType
<1> QED BY <1>3, <1>4, RepeatsValues DEF Unit

\* Only the tags up to i matter, and of those only what they are tags of.
LEMMA UnitSame ==
    ASSUME NEW t, NEW s, NEW u, NEW p, NEW i,
           \A j \in 1..i : u[j].kind = s[j].kind /\ u[j].at = s[j].at /\ u[j].id = s[j].id
    PROVE  Unit(t, u, p, i) = Unit(t, s, p, i)
<1>1. \A j \in 1..i : Encloses(t, u[j], p) <=> Encloses(t, s[j], p)
  BY DEF Encloses
<1>2. FreeIds(t, u, p, i) = FreeIds(t, s, p, i)
  BY <1>1 DEF FreeIds
<1> QED BY <1>2 DEF Unit

LEMMA UnitOutside ==
    ASSUME NEW t, NEW s, NEW p, NEW i \in Nat \ {0}, ~Encloses(t, s[i], p)
    PROVE  Unit(t, s, p, i) = Unit(t, s, p, i - 1)
<1>1. {k \in 1..i : Encloses(t, s[k], p)} = {k \in 1..(i - 1) : Encloses(t, s[k], p)}
  <2>1. \A k \in 1..i : k # i => k \in 1..(i - 1)
    OBVIOUS
  <2>2. 1..(i - 1) \subseteq 1..i
    OBVIOUS
  <2> QED BY <2>1, <2>2
<1> QED BY <1>1 DEF Unit, FreeIds

LEMMA UnitInside ==
    ASSUME NEW t, NEW s \in Seq(Frame), Distinct(s), NEW p, NEW i \in 1..Len(s),
           Encloses(t, s[i], p), s[i].id \in Ids
    PROVE  Unit(t, s, p, i - 1) = 3 * Unit(t, s, p, i)
<1> DEFINE S == FreeIds(t, s, p, i - 1)
           T == FreeIds(t, s, p, i)
           x == s[i].id
<1>1. DOMAIN s = 1..Len(s) /\ Len(s) \in Nat
  BY StackSeq
<1>2. /\ i - 1 \in Int /\ 1..(i - 1) \subseteq 1..i /\ 1..(i - 1) \subseteq 1..Len(s)
      /\ i \in 1..i /\ i \notin 1..(i - 1) /\ \A k \in 1..i : k # i => k \in 1..(i - 1)
  BY <1>1
<1>3. \A k \in 1..(i - 1) : Encloses(t, s[k], p) => s[k].id # x
  BY <1>1, <1>2 DEF Distinct, Encloses, Kind
<1>4. x \in S
  BY <1>3 DEF FreeIds
<1>5. T = S \ {x}
  <2>1. ASSUME NEW y \in T PROVE y \in S /\ y # x
    BY <1>2, <2>1 DEF FreeIds
  <2>2. ASSUME NEW y \in S, y # x PROVE y \in T
    BY <1>2, <2>2 DEF FreeIds
  <2> QED BY <2>1, <2>2
<1>6. IsFiniteSet(S) /\ Cardinality(S) \in Nat /\ Cardinality(T) \in Nat
  BY UnitTypes
<1> HIDE DEF S, T, x
<1>7. Cardinality(S \ {x}) = Cardinality(S) - 1
  BY <1>4, <1>6, FS_RemoveElement
<1>8. Cardinality(S) = Cardinality(T) + 1
  BY <1>5, <1>6, <1>7
<1>9. Repeats[Cardinality(T) + 1] = 3 * Repeats[Cardinality(T)]
  BY <1>6, RepeatsValues
<1> QED BY <1>8, <1>9 DEF Unit, S, T

\* A stack without tags, before its script starts.
LEMMA NoneBounded ==
    ASSUME NEW t, NEW p \in Nat \ {0}
    PROVE  /\ Bounded(t, <<>>, 1, p, 0)
           /\ \A n \in Nat : Bounded(t, <<>>, 1, p, n) => n = 0
<1>1. Len(<<>>) = 0
  OBVIOUS
<1>2. ~(p < 1)
  OBVIOUS
<1>3. Bounded(t, <<>>, 1, p, 0)
  <2> DEFINE u == [i \in 0..0 |-> 0]
  <2>1. u \in [0..0 -> Nat] /\ u[0] = 0 /\ 1..0 = {}
    OBVIOUS
  <2> HIDE DEF u
  <2>2. Fits(t, <<>>, p, u)
    BY <1>1, <2>1 DEF Fits
  <2>3. 0 <= u[Len(<<>>)] + IF p < 1 THEN Unit(t, <<>>, p, Len(<<>>)) ELSE 0
    BY <1>1, <1>2, <2>1
  <2> QED BY <2>2, <2>3, Zenon DEF Bounded
<1>4. ASSUME NEW n \in Nat, Bounded(t, <<>>, 1, p, n) PROVE n = 0
  <2>1. PICK u : Fits(t, <<>>, p, u)
                 /\ n <= u[Len(<<>>)] + IF p < 1 THEN Unit(t, <<>>, p, Len(<<>>)) ELSE 0
    BY <1>4 DEF Bounded
  <2>2. u[0] = 0
    BY <2>1 DEF Fits
  <2>3. n <= 0
    BY <1>1, <1>2, <2>1, <2>2
  <2> QED BY <2>3
<1> QED BY <1>3, <1>4

\* Fewer executions fit as well.
LEMMA FewerBounded ==
    ASSUME NEW t, NEW s \in Seq(Frame), NEW g \in Nat, NEW p, NEW n \in Nat, NEW m \in Nat,
           Bounded(t, s, g, p, n), m <= n
    PROVE  Bounded(t, s, g, p, m)
<1>1. PICK u : Fits(t, s, p, u)
               /\ n <= u[Len(s)] + IF p < g THEN Unit(t, s, p, Len(s)) ELSE 0
  BY DEF Bounded
<1>2. u[Len(s)] \in Nat
  BY <1>1, StackSeq DEF Fits
<1>3. Unit(t, s, p, Len(s)) \in Nat
  BY UnitTypes
<1>4. m <= u[Len(s)] + IF p < g THEN Unit(t, s, p, Len(s)) ELSE 0
  BY <1>1, <1>2, <1>3
<1> QED BY <1>1, <1>4 DEF Bounded

\* The same tags with the same attempts, and more of the script has been passed.
LEMMA SameBounded ==
    ASSUME NEW t, NEW s \in Seq(Frame), NEW u \in Seq(Frame), Alike(s, u),
           \A i \in DOMAIN s : u[i].tries = s[i].tries,
           NEW g \in Nat, NEW h \in Nat, g <= h, NEW p \in Nat, NEW n \in Nat,
           Bounded(t, s, g, p, n)
    PROVE  Bounded(t, u, h, p, n)
<1>1. Len(u) = Len(s) /\ Len(s) \in Nat /\ DOMAIN s = 1..Len(s)
  BY StackSeq DEF Alike
<1>2. \A i \in 1..Len(s) : /\ u[i].kind = s[i].kind /\ u[i].at = s[i].at
                           /\ u[i].id = s[i].id /\ u[i].tries = s[i].tries
  BY <1>1 DEF Alike
<1>3. \A i \in 0..Len(s) : Unit(t, u, p, i) = Unit(t, s, p, i)
  <2> SUFFICES ASSUME NEW i \in 0..Len(s) PROVE Unit(t, u, p, i) = Unit(t, s, p, i)
    OBVIOUS
  <2>1. 1..i \subseteq 1..Len(s)
    BY <1>1
  <2> QED BY <1>2, <2>1, UnitSame
<1>4. PICK a : Fits(t, s, p, a)
               /\ n <= a[Len(s)] + IF p < g THEN Unit(t, s, p, Len(s)) ELSE 0
  BY DEF Bounded
<1>5. \A i \in 1..Len(s) : Encloses(t, u[i], p) <=> Encloses(t, s[i], p)
  BY <1>2 DEF Encloses
<1>6. Fits(t, u, p, a)
  <2>1. \A i \in 1..Len(s) : i \in 0..Len(s)
    BY <1>1
  <2> QED BY <1>1, <1>2, <1>3, <1>4, <1>5, <2>1 DEF Fits
<1>7. a[Len(s)] \in Nat /\ Unit(t, s, p, Len(s)) \in Nat /\ Len(s) \in 0..Len(s)
  BY <1>1, <1>4, UnitTypes DEF Fits
<1>8. n <= a[Len(u)] + IF p < h THEN Unit(t, u, p, Len(u)) ELSE 0
  BY <1>1, <1>3, <1>4, <1>7
<1> QED BY <1>6, <1>8 DEF Bounded

\* An execution of the position that is reached.
LEMMA OneMoreBounded ==
    ASSUME NEW t, NEW s \in Seq(Frame), NEW g \in Nat, NEW p \in Nat, NEW h \in Nat,
           g <= p, p < h, NEW n \in Nat, Bounded(t, s, g, p, n)
    PROVE  Bounded(t, s, h, p, n + 1)
<1>1. PICK a : Fits(t, s, p, a)
               /\ n <= a[Len(s)] + IF p < g THEN Unit(t, s, p, Len(s)) ELSE 0
  BY DEF Bounded
<1>2. a[Len(s)] \in Nat /\ Unit(t, s, p, Len(s)) \in Nat \ {0}
  BY <1>1, StackSeq, UnitTypes DEF Fits
<1>3. n + 1 <= a[Len(s)] + IF p < h THEN Unit(t, s, p, Len(s)) ELSE 0
  BY <1>1, <1>2
<1> QED BY <1>1, <1>3 DEF Bounded

\* A tag starts; what it encloses has not been reached.
LEMMA PushBounded ==
    ASSUME NEW t, NEW s \in Seq(Frame), NEW f \in Frame, f.kind = "database" => f.tries = 3,
           NEW g \in Nat, NEW h \in Nat, g <= h, NEW p \in Nat, NEW n \in Nat,
           Encloses(t, f, p) => g <= p, Bounded(t, s, g, p, n)
    PROVE  Bounded(t, Append(s, f), h, p, n)
<1> DEFINE u == Append(s, f)
           k == Len(s)
           e == k + 1
<1>1. /\ k \in Nat /\ Len(u) = e /\ DOMAIN s = 1..k
      /\ (\A i \in 1..k : u[i] = s[i]) /\ u[e] = f
  BY Appended
<1> HIDE DEF u
<1>2. \A i \in 0..k : Unit(t, u, p, i) = Unit(t, s, p, i)
  <2> SUFFICES ASSUME NEW i \in 0..k PROVE Unit(t, u, p, i) = Unit(t, s, p, i)
    OBVIOUS
  <2>1. 1..i \subseteq 1..k
    BY <1>1
  <2> QED BY <1>1, <2>1, UnitSame
<1>3. PICK a : Fits(t, s, p, a) /\ n <= a[k] + IF p < g THEN Unit(t, s, p, k) ELSE 0
  BY DEF Bounded
<1>4. /\ a \in [0..k -> Nat] /\ a[0] = 0
      /\ \A i \in 1..k : a[i] <= a[i - 1] + IF Encloses(t, s[i], p)
                                              THEN Spent(s[i].tries, Unit(t, s, p, i)) ELSE 0
  BY <1>3 DEF Fits
<1>5. e \in Nat \ {0} /\ e - 1 = k /\ k \in 0..k /\ e \notin 0..k
  BY <1>1
<1> DEFINE x == Unit(t, u, p, e)
           b == [i \in 0..e |-> IF i = e THEN a[k] ELSE a[i]]
<1>6. x \in Nat \ {0}
  BY UnitTypes
<1>7. Encloses(t, f, p) => Spent(f.tries, x) = 0
  <2>1. 3 \in 1..3
    OBVIOUS
  <2>2. Spent(3, x) = 0
    BY <1>6, <2>1, SpentValues
  <2> QED BY <2>2 DEF Encloses
<1>8. \A i \in 0..k : i \in 0..e /\ i # e
  BY <1>1
<1>9. (\A i \in 0..k : b[i] = a[i]) /\ b[e] = a[k] /\ a[k] \in Nat /\ b \in [0..e -> Nat]
  <2>1. \A i \in 0..e : i = e \/ i \in 0..k
    BY <1>1
  <2>2. e \in 0..e
    BY <1>5
  <2> QED BY <1>4, <1>5, <1>8, <2>1, <2>2
<1> HIDE DEF b, x, e
<1>10. ASSUME NEW i \in 1..e
       PROVE  b[i] <= b[i - 1] + IF Encloses(t, u[i], p)
                                   THEN Spent(u[i].tries, Unit(t, u, p, i)) ELSE 0
  <2>1. CASE i = e
    <3>1. b[i] = a[k] /\ b[i - 1] = a[k] /\ u[i] = f
      BY <1>1, <1>5, <1>9, <2>1
    <3>2. CASE Encloses(t, f, p)
      <4>1. Spent(u[i].tries, Unit(t, u, p, i)) = 0
        BY <1>7, <2>1, <3>1, <3>2 DEF x
      <4> QED BY <1>9, <3>1, <3>2, <4>1
    <3>3. CASE ~Encloses(t, f, p)
      BY <1>9, <3>1, <3>3
    <3> QED BY <3>2, <3>3
  <2>2. CASE i # e
    <3>1. i \in 1..k /\ i \in 0..k /\ i - 1 \in 0..k
      BY <1>1, <2>2 DEF e
    <3>2. u[i] = s[i] /\ b[i] = a[i] /\ b[i - 1] = a[i - 1] /\ Unit(t, u, p, i) = Unit(t, s, p, i)
      BY <1>1, <1>2, <1>9, <3>1
    <3> QED BY <1>4, <3>1, <3>2
  <2> QED BY <2>1, <2>2
<1>11. Fits(t, u, p, b)
  <2>1. b[0] = 0
    BY <1>4, <1>9, <1>1
  <2> QED BY <1>1, <1>9, <1>10, <2>1 DEF Fits
<1>12. n <= b[e] + IF p < h THEN x ELSE 0
  <2>1. Unit(t, s, p, k) \in Nat
    BY UnitTypes
  <2>2. CASE Encloses(t, f, p)
    <3>1. n <= a[k]
      BY <1>3, <1>9, <2>2
    <3> QED BY <1>6, <1>9, <3>1
  <2>3. CASE ~Encloses(t, f, p)
    <3>1. x = Unit(t, u, p, k)
      <4>1. ~Encloses(t, u[e], p)
        BY <1>1, <2>3
      <4>2. Unit(t, u, p, e) = Unit(t, u, p, e - 1)
        BY <1>5, <4>1, UnitOutside
      <4> QED BY <1>5, <4>2 DEF x
    <3>2. x = Unit(t, s, p, k)
      BY <1>2, <1>5, <3>1
    <3> QED BY <1>3, <1>9, <2>1, <3>2
  <2> QED BY <2>2, <2>3
<1>13. Bounded(t, u, h, p, n)
  BY <1>1, <1>11, <1>12 DEF Bounded, x
<1> QED BY <1>13 DEF u

\* A tag ends; all that it encloses is behind the script then.
LEMMA PopBounded ==
    ASSUME NEW t, NEW s \in Seq(Frame), s # <<>>, Distinct(s),
           Last(s).kind = "database" => Last(s).tries \in 1..3 /\ Last(s).id \in Ids,
           NEW g \in Nat, NEW h \in Nat, g <= h, NEW p \in Nat, NEW n \in Nat,
           Encloses(t, Last(s), p) => p < h, Bounded(t, s, g, p, n)
    PROVE  Bounded(t, Front(s), h, p, n)
<1> DEFINE u == Front(s)
           e == Len(s)
           k == e - 1
           f == Last(s)
<1>1. /\ e \in Nat \ {0} /\ Len(u) = k /\ DOMAIN s = 1..e
      /\ (\A i \in 1..k : u[i] = s[i]) /\ s[e] = f
  BY Shortened
<1>2. k \in Nat /\ k + 1 = e /\ k \in 0..k /\ k \in 0..e /\ e \in 0..e /\ e \in 1..e
  BY <1>1
<1> HIDE DEF u, k, f
<1>3. \A i \in 0..k : Unit(t, u, p, i) = Unit(t, s, p, i)
  <2> SUFFICES ASSUME NEW i \in 0..k PROVE Unit(t, u, p, i) = Unit(t, s, p, i)
    OBVIOUS
  <2>1. 1..i \subseteq 1..k
    BY <1>2
  <2> QED BY <1>1, <2>1, UnitSame
<1>4. PICK a : Fits(t, s, p, a) /\ n <= a[e] + IF p < g THEN Unit(t, s, p, e) ELSE 0
  BY DEF Bounded
<1>5. /\ a \in [0..e -> Nat] /\ a[0] = 0
      /\ \A i \in 1..e : a[i] <= a[i - 1] + IF Encloses(t, s[i], p)
                                              THEN Spent(s[i].tries, Unit(t, s, p, i)) ELSE 0
  BY <1>4 DEF Fits
<1> DEFINE x == Unit(t, s, p, e)
           y == Unit(t, s, p, k)
           b == [i \in 0..k |-> a[i]]
<1>6. x \in Nat \ {0} /\ y \in Nat \ {0}
  BY UnitTypes
<1>7. \A i \in 0..k : i \in 0..e
  BY <1>2
<1>8. (\A i \in 0..k : b[i] = a[i]) /\ b \in [0..k -> Nat] /\ a[k] \in Nat /\ a[e] \in Nat
  BY <1>2, <1>5, <1>7
<1> HIDE DEF b, x, y
<1>9. ASSUME NEW i \in 1..k
      PROVE  b[i] <= b[i - 1] + IF Encloses(t, u[i], p)
                                  THEN Spent(u[i].tries, Unit(t, u, p, i)) ELSE 0
  <2>1. i \in 1..e /\ i \in 0..k /\ i - 1 \in 0..k
    BY <1>2
  <2>2. u[i] = s[i] /\ b[i] = a[i] /\ b[i - 1] = a[i - 1] /\ Unit(t, u, p, i) = Unit(t, s, p, i)
    BY <1>1, <1>3, <1>8, <2>1
  <2> QED BY <1>5, <2>1, <2>2
<1>10. Fits(t, u, p, b)
  <2>1. b[0] = 0
    BY <1>2, <1>5, <1>8
  <2> QED BY <1>1, <1>8, <1>9, <2>1 DEF Fits
<1>11. n <= b[k] + IF p < h THEN y ELSE 0
  <2>1. a[e] <= a[k] + IF Encloses(t, f, p) THEN Spent(f.tries, x) ELSE 0
    <3>1. e - 1 = k
      BY <1>2
    <3> QED BY <1>1, <1>2, <1>5, <3>1 DEF x
  <2>2. b[k] = a[k]
    BY <1>2, <1>8
  <2>3. CASE Encloses(t, f, p)
    <3>1. f.tries \in 1..3 /\ s[e].id \in Ids /\ Encloses(t, s[e], p)
      BY <1>1, <2>3 DEF Encloses, f
    <3>2. Spent(f.tries, x) \in Nat /\ Spent(f.tries, x) + x <= 3 * x
      BY <1>6, <3>1, SpentValues
    <3>3. y = 3 * x
      <4>1. Unit(t, s, p, e - 1) = 3 * Unit(t, s, p, e)
        BY <1>2, <3>1, UnitInside
      <4> QED BY <4>1 DEF x, y, k
    <3>4. p < h
      BY <2>3 DEF f
    <3>5. n <= a[e] + x
      BY <1>4, <1>6, <1>8 DEF x
    <3>6. a[e] <= a[k] + Spent(f.tries, x)
      BY <2>1, <2>3
    <3>7. n <= a[k] + y
      BY <1>6, <1>8, <3>2, <3>3, <3>5, <3>6
    <3> QED BY <2>2, <3>4, <3>7
  <2>4. CASE ~Encloses(t, f, p)
    <3>1. x = y
      <4>1. Unit(t, s, p, e) = Unit(t, s, p, e - 1)
        BY <1>1, <2>4, UnitOutside
      <4> QED BY <4>1 DEF x, y, k
    <3>2. a[e] <= a[k]
      BY <1>8, <2>1, <2>4
    <3>3. n <= a[e] + IF p < g THEN x ELSE 0
      BY <1>4 DEF x
    <3> QED BY <1>6, <1>8, <2>2, <3>1, <3>2, <3>3
  <2> QED BY <2>3, <2>4
<1>12. n <= b[Len(u)] + IF p < h THEN Unit(t, u, p, Len(u)) ELSE 0
  BY <1>1, <1>2, <1>3, <1>11 DEF y
<1>13. Bounded(t, u, h, p, n)
  BY <1>10, <1>12 DEF Bounded
<1> QED BY <1>13 DEF u

\* The innermost tag starts its content again, with one attempt less.
LEMMA RetryBounded ==
    ASSUME NEW t, NEW s \in Seq(Frame), s # <<>>, NEW u \in Seq(Frame), Alike(s, u),
           \A i \in DOMAIN s : i # Len(s) => u[i].tries = s[i].tries,
           Last(s).kind = "database", Last(s).tries \in 2..3,
           u[Len(s)].tries = Last(s).tries - 1, Last(s).at \in Nat,
           EndOf(t, Last(s).at) \in Nat, NEW p \in Nat, NEW n \in Nat,
           Bounded(t, s, EndOf(t, Last(s).at) + 1, p, n)
    PROVE  Bounded(t, u, Last(s).at + 1, p, n)
<1> DEFINE e == Len(s)
           f == Last(s)
           g == EndOf(t, f.at) + 1
           h == f.at + 1
<1>1. /\ e \in Nat \ {0} /\ Len(u) = e /\ DOMAIN s = 1..e /\ s[e] = f /\ e \in 1..e /\ e \in 0..e
  <2>1. e \in Nat \ {0} /\ DOMAIN s = 1..e /\ s[e] = f
    BY Shortened
  <2>2. Len(u) = e
    BY DEF Alike
  <2> QED BY <2>1, <2>2
<1>2. \A i \in 1..e : u[i].kind = s[i].kind /\ u[i].at = s[i].at /\ u[i].id = s[i].id
  BY <1>1 DEF Alike
<1>3. \A i \in 0..e : Unit(t, u, p, i) = Unit(t, s, p, i)
  <2> SUFFICES ASSUME NEW i \in 0..e PROVE Unit(t, u, p, i) = Unit(t, s, p, i)
    OBVIOUS
  <2>1. 1..i \subseteq 1..e
    BY <1>1
  <2> QED BY <1>2, <2>1, UnitSame
<1>4. \A i \in 1..e : Encloses(t, u[i], p) <=> Encloses(t, s[i], p)
  BY <1>2 DEF Encloses
<1>5. PICK a : Fits(t, s, p, a) /\ n <= a[e] + IF p < g THEN Unit(t, s, p, e) ELSE 0
  BY DEF Bounded
<1>6. /\ a \in [0..e -> Nat] /\ a[0] = 0 /\ a[e] \in Nat
      /\ \A i \in 1..e : a[i] <= a[i - 1] + IF Encloses(t, s[i], p)
                                              THEN Spent(s[i].tries, Unit(t, s, p, i)) ELSE 0
  BY <1>1, <1>5 DEF Fits
<1> DEFINE x == Unit(t, s, p, e)
           y == IF Encloses(t, f, p) THEN x ELSE 0
           b == [a EXCEPT ![e] = a[e] + y]
<1>7. x \in Nat \ {0} /\ y \in Nat
  BY UnitTypes
<1>8. f.tries \in 1..3 /\ f.tries # 1 /\ u[e].tries = f.tries - 1
  BY <1>1
<1>9. Spent(f.tries - 1, x) = Spent(f.tries, x) + x /\ Spent(f.tries, x) \in Nat
  BY <1>7, <1>8, SpentValues
<1> HIDE DEF f, x, y
<1>10. b \in [0..e -> Nat] /\ b[e] = a[e] + y /\ \A i \in 0..e : i # e => b[i] = a[i]
  BY <1>1, <1>6, <1>7, SMTT(30)
<1> HIDE DEF b
<1>11. ASSUME NEW i \in 1..e
       PROVE  b[i] <= b[i - 1] + IF Encloses(t, u[i], p)
                                   THEN Spent(u[i].tries, Unit(t, u, p, i)) ELSE 0
  <2>1. i \in 0..e /\ i - 1 \in 0..e /\ i - 1 # e /\ b[i - 1] = a[i - 1] /\ a[i - 1] \in Nat
    <3>1. i \in 0..e /\ i - 1 \in 0..e /\ i - 1 # e
      BY <1>1
    <3> QED BY <1>6, <1>10, <3>1
  <2>2. CASE i = e
    <3>1. a[e] <= a[i - 1] + IF Encloses(t, f, p) THEN Spent(f.tries, x) ELSE 0
      BY <1>1, <1>6, <2>2 DEF x
    <3>2. CASE Encloses(t, f, p)
      <4>1. b[i] = a[e] + x
        BY <1>10, <2>2, <3>2 DEF y
      <4>2. b[i] <= a[i - 1] + Spent(f.tries - 1, x)
        BY <1>6, <1>7, <1>9, <2>1, <3>1, <3>2, <4>1
      <4>3. Encloses(t, u[i], p) /\ u[i].tries = f.tries - 1 /\ Unit(t, u, p, i) = x
        BY <1>1, <1>3, <1>4, <1>8, <2>1, <2>2, <3>2 DEF x
      <4> QED BY <2>1, <4>2, <4>3
    <3>3. CASE ~Encloses(t, f, p)
      <4>1. b[i] = a[e] /\ ~Encloses(t, u[i], p)
        BY <1>1, <1>4, <1>6, <1>10, <2>2, <3>3 DEF y
      <4> QED BY <2>1, <3>1, <3>3, <4>1
    <3> QED BY <3>2, <3>3
  <2>3. CASE i # e
    <3>1. b[i] = a[i] /\ u[i].tries = s[i].tries /\ Unit(t, u, p, i) = Unit(t, s, p, i)
      BY <1>1, <1>3, <1>10, <2>1, <2>3
    <3> QED BY <1>4, <1>6, <2>1, <3>1
  <2> QED BY <2>2, <2>3
<1>12. Fits(t, u, p, b)
  <2>1. b[0] = 0
    BY <1>1, <1>6, <1>10
  <2> QED BY <1>1, <1>10, <1>11, <2>1 DEF Fits
<1>13. n <= b[e] + IF p < h THEN x ELSE 0
  <2>1. f.at \in Nat /\ EndOf(t, f.at) \in Nat /\ f.kind = "database"
    BY DEF f
  <2>2. n <= a[e] + IF p < g THEN x ELSE 0
    BY <1>5 DEF x
  <2>3. CASE Encloses(t, f, p)
    BY <1>6, <1>7, <1>10, <2>2, <2>3 DEF y
  <2>4. CASE ~Encloses(t, f, p)
    <3>1. ~(f.at < p /\ p <= EndOf(t, f.at))
      BY <2>1, <2>4 DEF Encloses
    <3>2. p < g => p < h
      BY <2>1, <3>1
    <3> QED BY <1>6, <1>7, <1>10, <2>2, <2>4, <3>2 DEF y
  <2> QED BY <2>3, <2>4
<1>14. n <= b[Len(u)] + IF p < h THEN Unit(t, u, p, Len(u)) ELSE 0
  BY <1>1, <1>3, <1>13 DEF x
<1>15. Bounded(t, u, h, p, n)
  BY <1>12, <1>14 DEF Bounded
<1> QED BY <1>15 DEF h, f

\* In all, three times for each id.
LEMMA BoundedRepeats ==
    ASSUME NEW t, NEW s \in Seq(Frame), Distinct(s),
           \A i \in DOMAIN s : s[i].kind = "database" => s[i].tries \in 1..3 /\ s[i].id \in Ids,
           NEW g \in Nat, NEW p \in Nat, NEW n \in Nat, Bounded(t, s, g, p, n)
    PROVE  n <= Repeats[Cardinality(Ids)]
<1> DEFINE e == Len(s)
           all == Repeats[Cardinality(Ids)]
<1>1. e \in Nat /\ DOMAIN s = 1..e
  BY StackSeq
<1>2. PICK a : Fits(t, s, p, a) /\ n <= a[e] + IF p < g THEN Unit(t, s, p, e) ELSE 0
  BY DEF Bounded
<1>3. /\ a \in [0..e -> Nat] /\ a[0] = 0
      /\ \A i \in 1..e : a[i] <= a[i - 1] + IF Encloses(t, s[i], p)
                                              THEN Spent(s[i].tries, Unit(t, s, p, i)) ELSE 0
  BY <1>2 DEF Fits
<1>4. Unit(t, s, p, 0) = all
  <2>1. 1..0 = {}
    OBVIOUS
  <2>2. FreeIds(t, s, p, 0) = Ids
    BY <2>1 DEF FreeIds
  <2> QED BY <2>2 DEF Unit
<1>5. all \in Nat
  BY <1>4, UnitTypes
<1> HIDE DEF all
<1> DEFINE S == {i \in Nat : i \in 0..e => a[i] + Unit(t, s, p, i) <= all}
<1>6. 0 \in S
  BY <1>3, <1>4, <1>5
<1>7. ASSUME NEW j \in Nat, j \in S PROVE j + 1 \in S
  <2> SUFFICES ASSUME j + 1 \in 0..e
               PROVE  a[j + 1] + Unit(t, s, p, j + 1) <= all
    OBVIOUS
  <2> DEFINE i == j + 1
             x == Unit(t, s, p, i)
             y == Unit(t, s, p, j)
             z == Spent(s[i].tries, x)
  <2>1. j \in 0..e /\ i \in 1..e /\ i \in Nat \ {0} /\ i - 1 = j
    BY <1>1
  <2>2. a[j] + y <= all
    BY <1>7, <2>1
  <2>3. x \in Nat /\ y \in Nat /\ a[j] \in Nat /\ a[i] \in Nat
    BY <1>3, <2>1, UnitTypes
  <2>4. a[i] <= a[i - 1] + IF Encloses(t, s[i], p) THEN z ELSE 0
    BY <1>3, <2>1
  <2>5. CASE Encloses(t, s[i], p)
    <3>1. s[i].tries \in 1..3 /\ s[i].id \in Ids
      BY <1>1, <2>1, <2>5 DEF Encloses
    <3>2. z \in Nat /\ z + x <= 3 * x
      BY <2>3, <3>1, SpentValues
    <3>3. Unit(t, s, p, i - 1) = 3 * x
      BY <2>1, <2>5, <3>1, UnitInside
    <3>4. y = 3 * x
      BY <2>1, <3>3
    <3> HIDE DEF x, y, z, i
    <3>5. a[i] <= a[j] + z
      BY <2>1, <2>4, <2>5
    <3>6. a[i] + x <= all
      BY <1>5, <2>2, <2>3, <3>2, <3>4, <3>5, SMTT(30)
    <3> QED BY <3>6 DEF x, i
  <2>6. CASE ~Encloses(t, s[i], p)
    <3>1. Unit(t, s, p, i) = Unit(t, s, p, i - 1)
      BY <2>1, <2>6, UnitOutside
    <3>2. x = y
      BY <2>1, <3>1
    <3> HIDE DEF x, y, i
    <3>3. a[i] <= a[j]
      BY <2>1, <2>3, <2>4, <2>6
    <3>4. a[i] + x <= all
      BY <1>5, <2>2, <2>3, <3>2, <3>3
    <3> QED BY <3>4 DEF x, i
  <2> QED BY <2>5, <2>6
<1>8. \A i \in Nat : i \in S
  <2> HIDE DEF S
  <2> QED BY <1>6, <1>7, NatSetInduction
<1>9. a[e] + Unit(t, s, p, e) <= all
  BY <1>1, <1>8
<1>10. a[e] \in Nat /\ Unit(t, s, p, e) \in Nat
  BY <1>1, <1>3, UnitTypes
<1>11. n <= all
  BY <1>2, <1>5, <1>9, <1>10
<1> QED BY <1>11 DEF all

--------------------------------------------------------------------------------
(* How often updates are made *)

\* The updates of w at p: those that are committed, and the one that a transaction holds.
Made(C, w, A, p) ==
    A[p] + IF \E c \in Conns : C[c].owner = w /\ p \in C[c].pending THEN 1 ELSE 0

\* What the connections of w hold are updates of script t to their own database.
Own(C, w, t) == \A c \in Conns : C[c].owner = w =>
    \A p \in C[c].pending : t[p].id = C[c].id

Place(r) == Reach(r.script, r.stack, r.pc, r.mode)

Limited(C, w, r, A) ==
    \A p \in Positions : Bounded(r.script, r.stack, Place(r), p, Made(C, w, A, p))
MadeOnce(C, w, r, A) ==
    \A p \in Positions : Made(C, w, A, p) <= IF p < Place(r) THEN 1 ELSE 0

Paced(C, w, r, A, b) ==
    /\ Inside(r.script, r.stack, r.pc, r.mode) /\ Distinct(r.stack)
    /\ r.mode = "idle" => r = Idle
    /\ r.mode = "broken" => b
    /\ Own(C, w, r.script)
    /\ Limited(C, w, r, A)
    /\ ~b => MadeOnce(C, w, r, A)

RInv == IInv /\ \A w \in Workers : Paced(conn, w, run[w], applied[w], broke[w])

\* Connections that w gives up or that lose what they hold; those that gain something
\* gain updates of S, to their own database.
Gives(C, D, w, t, S) == \A c \in Conns :
    \/ D[c] = C[c]
    \/ /\ C[c].owner \in {w, NoWorker} /\ D[c].owner \in {w, NoWorker}
       /\ D[c].pending # {} => D[c].owner = C[c].owner /\ D[c].id = C[c].id
       /\ \A p \in D[c].pending : p \in C[c].pending \/ (p \in S /\ t[p].id = D[c].id)

Extra(p, S) == IF p \in S THEN 1 ELSE 0

\* What a step of w does to connections and counters: it makes an update at S at most.
Effect(w, S) ==
    /\ Gives(conn, conn', w, run[w].script, S)
    /\ \A p \in Positions :
         Made(conn', w, applied'[w], p) <= Made(conn, w, applied[w], p) + Extra(p, S)
    /\ \A v \in Workers : v # w => applied'[v] = applied[v] /\ broke'[v] = broke[v]
    /\ broke[w] => broke'[w]

LEMMA MadeTypes ==
    ASSUME NEW C, NEW w, NEW A \in [Positions -> Nat], NEW p \in Positions
    PROVE  Made(C, w, A, p) \in Nat /\ A[p] \in Nat /\ A[p] <= Made(C, w, A, p)
<1>1. A[p] \in Nat
  OBVIOUS
<1>2. Made(C, w, A, p) = A[p] \/ Made(C, w, A, p) = A[p] + 1
  BY <1>1 DEF Made
<1> QED BY <1>1, <1>2

LEMMA PlaceTypes ==
    ASSUME IInv, NEW w \in Workers, Inside(run[w].script, run[w].stack, run[w].pc, run[w].mode)
    PROVE  /\ Place(run[w]) \in Nat
           /\ run[w].stack # <<>> =>
                /\ run[w].script \in AllScripts
                /\ EndOf(run[w].script, Last(run[w].stack).at) \in Nat
                /\ Last(run[w].stack).at \in Nat
                /\ Last(run[w].stack).at < run[w].pc
                /\ run[w].pc <= EndOf(run[w].script, Last(run[w].stack).at)
                /\ EndOf(run[w].script, Last(run[w].stack).at) <= Len(run[w].script)
                /\ Place(run[w]) <= EndOf(run[w].script, Last(run[w].stack).at) + 1
<1> DEFINE s == run[w].stack
           t == run[w].script
           e == EndOf(t, Last(s).at)
<1>1. /\ s \in Seq(Frame) /\ run[w].pc \in Nat /\ t \in AllScripts \cup {<<>>}
      /\ run[w].mode \in Modes /\ Opened(t, s)
  BY Facts
<1>2. Len(t) \in Nat
  BY <1>1, ScriptSeq, EmptySeq
<1>3. ASSUME s # <<>>
      PROVE  /\ t \in AllScripts /\ e \in Nat /\ Last(s).at \in Nat /\ Last(s).at < run[w].pc
             /\ run[w].pc <= e /\ e <= Len(t)
  <2>1. Len(s) \in DOMAIN s /\ Last(s) = s[Len(s)]
    <3>1. Len(s) \in Nat \ {0} /\ DOMAIN s = 1..Len(s) /\ Last(s) = s[Len(s)]
      BY <1>1, <1>3, Shortened
    <3> QED BY <3>1
  <2>2. Last(s).at \in DOMAIN t
    BY <1>1, <2>1 DEF Opened
  <2>3. t # <<>>
    <3>1. DOMAIN <<>> = {}
      OBVIOUS
    <3> QED BY <2>2, <3>1
  <2>4. t \in AllScripts
    BY <1>1, <2>3
  <2>5. e \in Nat /\ Last(s).at \in Nat /\ e <= Len(t)
    BY <1>1, <2>1, <2>4, TagEnds
  <2>6. Last(s).at < run[w].pc /\ run[w].pc <= e
    BY <2>1 DEF Inside
  <2> QED BY <2>4, <2>5, <2>6
<1>4. CASE s = <<>>
  BY <1>1, <1>2, <1>4 DEF Place, Reach
<1>5. CASE s # <<>>
  <2>1. Place(run[w]) = run[w].pc \/ Place(run[w]) = e + 1
    BY <1>5 DEF Place, Reach
  <2> HIDE DEF e
  <2>2. Place(run[w]) \in Nat /\ Place(run[w]) <= e + 1
    BY <1>1, <1>3, <1>5, <2>1
  <2> QED BY <1>3, <1>5, <2>2 DEF e
<1> QED BY <1>4, <1>5

\* Those of the other workers stay what they were.
LEMMA OthersPaced ==
    ASSUME NEW w \in Workers, NEW v \in Workers, v # w, NEW C, NEW D, NEW t, NEW S,
           Gives(C, D, w, t, S), NEW r, NEW A, NEW b, Paced(C, v, r, A, b)
    PROVE  Paced(D, v, r, A, b)
<1>1. \A c \in Conns : D[c] = C[c] \/ (C[c].owner # v /\ D[c].owner # v)
  <2>1. NoWorker \notin Workers
    BY DatabaseAssumption
  <2> QED BY <2>1 DEF Gives
<1>2. Own(D, v, r.script)
  BY <1>1 DEF Paced, Own
<1>3. ASSUME NEW p PROVE Made(D, v, A, p) = Made(C, v, A, p)
  <2>1. (\E c \in Conns : D[c].owner = v /\ p \in D[c].pending)
          <=> (\E c \in Conns : C[c].owner = v /\ p \in C[c].pending)
    BY <1>1
  <2> QED BY <2>1 DEF Made
<1>4. Limited(D, v, r, A)
  BY <1>3 DEF Paced, Limited
<1>5. ~b => MadeOnce(D, v, r, A)
  BY <1>3 DEF Paced, MadeOnce
<1> QED BY <1>2, <1>4, <1>5 DEF Paced

\* The connections of w keep to their own database.
LEMMA OwnKept ==
    ASSUME NEW w, NEW C, NEW D, NEW t, NEW S, Gives(C, D, w, t, S), Own(C, w, t)
    PROVE  Own(D, w, t)
BY DEF Gives, Own

\* A step of worker w within its script.
LEMMA TurnPaced ==
    ASSUME RInv, IInv', NEW w \in Workers, NEW STATE t, NEW STATE pc, pc \in Nat,
           NEW m \in Modes, m # "idle", Turns(w, pc, t, m), NEW STATE S, Effect(w, S),
           Inside(run[w].script, t, pc, m), Distinct(t), m = "broken" => broke'[w],
           NEW STATE h, h = Reach(run[w].script, t, pc, m), h \in Nat, t \in Seq(Frame),
           \A p \in Positions, n \in Nat :
              Bounded(run[w].script, run[w].stack, Place(run[w]), p, n) =>
              Bounded(run[w].script, t, h, p, n + Extra(p, S)),
           ~broke'[w] => Place(run[w]) <= h /\ \A p \in S : Place(run[w]) <= p /\ p < h
    PROVE  RInv'
<1> DEFINE r == [run[w] EXCEPT !.pc = pc, !.stack = t, !.mode = m]
           u == run[w].script
           A == applied[w]
           B == applied'[w]
           g == Place(run[w])
<1>1. /\ r.script = u /\ r.stack = t /\ r.mode = m /\ r.pc = pc
  BY Facts DEF RInv, Run
<1>2. Paced(conn, w, run[w], A, broke[w]) /\ IInv
  BY DEF RInv
<1>3. /\ A \in [Positions -> Nat] /\ B \in [Positions -> Nat] /\ g \in Nat
      /\ run \in [Workers -> Run]
  <2>1. applied' \in [Workers -> [Positions -> Nat]] /\ applied \in [Workers -> [Positions -> Nat]]
        /\ run \in [Workers -> Run]
    BY DEF RInv, IInv, TypeOK
  <2>2. g \in Nat
    BY <1>2, PlaceTypes DEF Paced
  <2> QED BY <2>1, <2>2
<1>4. run'[w] = r /\ \A v \in Workers : v # w => run'[v] = run[v]
  BY <1>3 DEF Turns, Goes
<1>5. Place(r) = h
  BY <1>1 DEF Place
<1> HIDE DEF r
<1>6. Gives(conn, conn', w, u, S)
  BY DEF Effect
<1>7. ASSUME NEW p \in Positions
      PROVE  /\ Made(conn, w, A, p) \in Nat /\ Made(conn', w, B, p) \in Nat
             /\ Extra(p, S) \in {0, 1} /\ p \in Nat
             /\ Made(conn', w, B, p) <= Made(conn, w, A, p) + Extra(p, S)
  BY <1>3, MadeTypes, PositionTypes DEF Effect, Extra
<1>8. Own(conn', w, u)
  BY <1>2, <1>6, OwnKept DEF Paced
<1>9. Limited(conn', w, r, B)
  <2> SUFFICES ASSUME NEW p \in Positions
               PROVE  Bounded(u, t, h, p, Made(conn', w, B, p))
    BY <1>1, <1>5 DEF Limited
  <2> DEFINE n == Made(conn, w, A, p)
             k == Made(conn', w, B, p)
             x == Extra(p, S)
  <2>1. Bounded(u, run[w].stack, g, p, n)
    BY <1>2 DEF Paced, Limited
  <2>2. n \in Nat /\ k \in Nat /\ x \in {0, 1} /\ k <= n + x
    BY <1>7
  <2>3. Bounded(u, t, h, p, n + x)
    BY <2>1, <2>2
  <2> HIDE DEF n, k, x
  <2>4. n + x \in Nat
    BY <2>2
  <2>5. Bounded(u, t, h, p, k)
    BY <2>2, <2>3, <2>4, FewerBounded
  <2> QED BY <2>5 DEF k
<1>10. ASSUME ~broke'[w] PROVE MadeOnce(conn', w, r, B)
  <2>1. ~broke[w] /\ g <= h /\ \A p \in S : g <= p /\ p < h
    BY <1>10 DEF Effect
  <2> SUFFICES ASSUME NEW p \in Positions
               PROVE  Made(conn', w, B, p) <= IF p < h THEN 1 ELSE 0
    BY <1>5 DEF MadeOnce
  <2>2. Made(conn, w, A, p) <= IF p < g THEN 1 ELSE 0
    BY <1>2, <2>1 DEF Paced, MadeOnce
  <2>3. CASE p \in S
    BY <1>3, <1>7, <2>1, <2>2, <2>3 DEF Extra
  <2>4. CASE p \notin S
    BY <1>3, <1>7, <2>1, <2>2, <2>4 DEF Extra
  <2> QED BY <2>3, <2>4
<1>11. Paced(conn', w, run'[w], applied'[w], broke'[w])
  BY <1>1, <1>4, <1>8, <1>9, <1>10 DEF Paced
<1>12. ASSUME NEW v \in Workers, v # w
       PROVE  Paced(conn', v, run'[v], applied'[v], broke'[v])
  <2>1. Paced(conn, v, run[v], applied[v], broke[v])
    BY DEF RInv
  <2>2. Paced(conn', v, run[v], applied[v], broke[v])
    BY <1>6, <1>12, <2>1, OthersPaced
  <2>3. applied'[v] = applied[v] /\ broke'[v] = broke[v]
    BY <1>12 DEF Effect
  <2> QED BY <1>4, <1>12, <2>2, <2>3
<1> QED BY <1>11, <1>12 DEF RInv

LEMMA AlikeDistinct ==
    ASSUME NEW s \in Seq(Frame), NEW u \in Seq(Frame), Alike(s, u), Distinct(s)
    PROVE  Distinct(u)
<1>1. DOMAIN u = DOMAIN s
  BY StackSeq DEF Alike
<1> QED BY <1>1 DEF Alike, Distinct, Kind

LEMMA PopDistinct ==
    ASSUME NEW s \in Seq(Frame), s # <<>>, Distinct(s)
    PROVE  Distinct(Front(s))
<1>1. /\ DOMAIN s = 1..Len(s) /\ DOMAIN Front(s) = 1..(Len(s) - 1) /\ Len(s) \in Nat \ {0}
      /\ \A i \in 1..(Len(s) - 1) : Front(s)[i] = s[i]
  BY Shortened
<1>2. \A i \in 1..(Len(s) - 1) : i \in 1..Len(s)
  BY <1>1
<1> QED BY <1>1, <1>2 DEF Distinct, Kind

LEMMA PushDistinct ==
    ASSUME NEW s \in Seq(Frame), NEW f \in Frame, Distinct(s),
           f.kind = "database" => \A i \in DOMAIN s : Kind(s, i, "database") => s[i].id # f.id
    PROVE  Distinct(Append(s, f))
<1> DEFINE u == Append(s, f)
<1>1. /\ Len(s) \in Nat /\ DOMAIN s = 1..Len(s) /\ DOMAIN u = 1..(Len(s) + 1)
      /\ (\A i \in 1..Len(s) : u[i] = s[i]) /\ u[Len(s) + 1] = f
  BY Appended
<1> HIDE DEF u
<1>2. \A i \in DOMAIN u : (i \in DOMAIN s /\ u[i] = s[i]) \/ (i = Len(s) + 1 /\ u[i] = f)
  <2> SUFFICES ASSUME NEW i \in 1..(Len(s) + 1)
               PROVE  (i \in DOMAIN s /\ u[i] = s[i]) \/ (i = Len(s) + 1 /\ u[i] = f)
    BY <1>1
  <2>1. i \in 1..Len(s) \/ i = Len(s) + 1
    BY <1>1
  <2> QED BY <1>1, <2>1
<1>3. Distinct(u)
  BY <1>2 DEF Distinct, Kind
<1> QED BY <1>3 DEF u

\* What a database tag of the stack has.
LEMMA DatabaseFrames ==
    ASSUME IInv, NEW w \in Workers, NEW i \in DOMAIN run[w].stack,
           run[w].stack[i].kind = "database"
    PROVE  /\ run[w].stack[i].tries \in 1..3 /\ run[w].stack[i].id \in Ids
           /\ run[w].stack[i].conn \in Conns
<1> DEFINE f == run[w].stack[i]
<1>1. run[w].stack \in Seq(Frame) /\ Leases(conn, w, run[w].stack, run[w].mode)
      /\ conn \in [Conns -> Conn] /\ NoWorker \notin Workers
  BY Facts, DatabaseAssumption DEF Held
<1>2. f \in Frame
  BY <1>1, StackSeq
<1>3. f.conn \in Conns /\ f.tries # 0 /\ conn[f.conn].owner = w /\ conn[f.conn].id = f.id
  BY <1>1 DEF Leases
<1>4. conn[f.conn].id # NoId /\ conn[f.conn] \in Conn
  BY <1>1, <1>3 DEF IInv, Clean
<1> QED BY <1>2, <1>3, <1>4 DEF Frame, Conn

\* An id that the context does not have is that of no tag.
LEMMA NotVisible ==
    ASSUME IInv, NEW w \in Workers, NEW id, Visible(w, id) = NoConn,
           NEW i \in DOMAIN run[w].stack, run[w].stack[i].kind = "database"
    PROVE  run[w].stack[i].id # id
<1> SUFFICES ASSUME run[w].stack[i].id = id PROVE FALSE
  OBVIOUS
<1> DEFINE S == {k \in Frames(w, "database") : run[w].stack[k].id = id}
<1>1. i \in S
  BY DEF Frames
<1>2. Visible(w, id) = run[w].stack[CHOOSE k \in S : TRUE].conn
  BY <1>1 DEF Visible
<1>3. (CHOOSE k \in S : TRUE) \in S
  BY <1>1
<1>4. PICK k \in S : run[w].stack[k].conn = NoConn
  BY <1>2, <1>3
<1>5. k \in DOMAIN run[w].stack /\ run[w].stack[k].kind = "database"
  BY DEF Frames
<1>6. run[w].stack[k].conn \in Conns
  BY <1>5, DatabaseFrames
<1> QED BY <1>4, <1>6, DatabaseAssumption

\* What the invariant says of worker w.
LEMMA RFacts ==
    ASSUME RInv, NEW w \in Workers
    PROVE  /\ IInv /\ Inside(run[w].script, run[w].stack, run[w].pc, run[w].mode)
           /\ Distinct(run[w].stack) /\ Place(run[w]) \in Nat
           /\ run[w].stack \in Seq(Frame) /\ run[w].pc \in Nat /\ run[w].mode \in Modes
           /\ Opened(run[w].script, run[w].stack)
           /\ run[w].mode \notin Thrown => Place(run[w]) = run[w].pc
           /\ run[w].mode = "broken" => broke[w]
           /\ Own(conn, w, run[w].script)
<1>1. IInv /\ Paced(conn, w, run[w], applied[w], broke[w])
  BY DEF RInv
<1>2. Place(run[w]) \in Nat
  BY <1>1, PlaceTypes DEF Paced
<1>3. run[w].mode \notin Thrown => Place(run[w]) = run[w].pc
  BY DEF Place, Reach
<1> QED BY <1>1, <1>2, <1>3, Facts DEF Paced

\* Same(s, u): the tags and what is left of their attempts.
Same(s, u) == Alike(s, u) /\ \A i \in DOMAIN s : u[i].tries = s[i].tries

LEMMA SameItself == ASSUME NEW s PROVE Same(s, s)
BY DEF Same, Alike

\* The script goes on with the same tags.
LEMMA SamePaced ==
    ASSUME RInv, IInv', NEW w \in Workers, NEW STATE u, u \in Seq(Frame), Same(run[w].stack, u),
           NEW STATE pc, pc \in Nat, NEW m \in Modes, m # "idle", Turns(w, pc, u, m),
           NEW STATE S, Effect(w, S), Inside(run[w].script, u, pc, m), m = "broken" => broke'[w],
           NEW STATE h, h = Reach(run[w].script, u, pc, m), h \in Nat, Place(run[w]) <= h,
           \A p \in S : Place(run[w]) <= p /\ p < h
    PROVE  RInv'
<1> DEFINE s == run[w].stack
           t == run[w].script
           g == Place(run[w])
<1>1. s \in Seq(Frame) /\ Distinct(s) /\ g \in Nat
  BY RFacts
<1>2. Distinct(u)
  BY <1>1, AlikeDistinct DEF Same
<1>3. ASSUME NEW p \in Positions, NEW n \in Nat, Bounded(t, s, g, p, n)
      PROVE  Bounded(t, u, h, p, n + Extra(p, S))
  <2>1. p \in Nat
    BY PositionTypes, Zenon
  <2>2. Alike(s, u) /\ \A i \in DOMAIN s : u[i].tries = s[i].tries
    BY DEF Same
  <2>3. CASE p \in S
    <3>1. Bounded(t, s, h, p, n + 1)
      BY <1>1, <1>3, <2>1, <2>3, OneMoreBounded
    <3>2. h <= h /\ n + 1 \in Nat
      OBVIOUS
    <3>3. Bounded(t, u, h, p, n + 1)
      BY <1>1, <2>1, <2>2, <3>1, <3>2, SameBounded
    <3> QED BY <2>3, <3>3 DEF Extra
  <2>4. CASE p \notin S
    <3>1. Bounded(t, u, h, p, n)
      BY <1>1, <1>3, <2>1, <2>2, SameBounded
    <3>2. n + 0 = n
      OBVIOUS
    <3> QED BY <2>4, <3>1, <3>2 DEF Extra
  <2> QED BY <2>3, <2>4
<1> QED BY <1>2, <1>3, TurnPaced

LEMMA SkipPaced ==
    ASSUME RInv, IInv', NEW w \in Workers, NEW op, At(w, op), op # "end",
           NEW STATE u, u \in Seq(Frame), Same(run[w].stack, u),
           Turns(w, EndOf(run[w].script, run[w].pc) + 1, u, "run"),
           NEW STATE S, S \subseteq {run[w].pc}, Effect(w, S)
    PROVE  RInv'
<1> DEFINE t == run[w].script
           h == EndOf(t, run[w].pc) + 1
<1>1. run[w].mode = "run" /\ run[w].pc \in DOMAIN t /\ t[run[w].pc].op # "end"
  BY RFacts, AtTypes
<1>2. t \in AllScripts
  <2>1. t \in AllScripts \cup {<<>>} /\ DOMAIN <<>> = {}
    BY RFacts, Facts
  <2> QED BY <1>1, <2>1
<1>3. run[w].pc \in Nat /\ EndOf(t, run[w].pc) \in Nat /\ run[w].pc < EndOf(t, run[w].pc)
  BY <1>1, <1>2, EndOfTag
<1>4. h \in Nat /\ run[w].pc < h
  BY <1>3
<1>5. "run" \in Modes /\ "run" \notin Thrown /\ "run" # "idle" /\ "run" # "broken"
  BY DEF Modes, Thrown
<1>6. Inside(t, run[w].stack, run[w].pc, "run") /\ Opened(t, run[w].stack)
      /\ run[w].stack \in Seq(Frame) /\ Place(run[w]) = run[w].pc
  BY <1>1, <1>5, RFacts
<1>7. Inside(t, run[w].stack, h, "run")
  BY <1>1, <1>2, <1>5, <1>6, SkipInside
<1>8. Inside(t, u, h, "run")
  BY <1>5, <1>6, <1>7, AlikeInside DEF Same
<1>9. Reach(t, u, h, "run") = h
  BY <1>5 DEF Reach
<1> HIDE DEF h
<1>10. Turns(w, h, u, "run")
  BY DEF h
<1>11. Place(run[w]) <= h /\ \A p \in S : Place(run[w]) <= p /\ p < h
  BY <1>3, <1>4, <1>6
<1> QED BY <1>4, <1>5, <1>8, <1>9, <1>10, <1>11, SamePaced

LEMMA ThrowPaced ==
    ASSUME RInv, IInv', NEW w \in Workers, run[w].mode \notin Thrown,
           run[w].stack # <<>> \/ run[w].pc \in DOMAIN run[w].script,
           NEW STATE u, u \in Seq(Frame), Same(run[w].stack, u),
           NEW n \in Thrown, Turns(w, run[w].pc, u, n), n = "broken" => broke'[w],
           NEW STATE S, S \subseteq {run[w].pc}, Effect(w, S)
    PROVE  RInv'
<1> DEFINE t == run[w].script
           h == Reach(t, u, run[w].pc, n)
           s == run[w].stack
<1>1. /\ Inside(t, s, run[w].pc, run[w].mode) /\ s \in Seq(Frame) /\ run[w].pc \in Nat
      /\ Place(run[w]) = run[w].pc /\ run[w].mode \in Modes /\ IInv
      /\ t \in AllScripts \cup {<<>>}
  BY RFacts, Facts
<1>2. n \in Modes /\ n # "idle"
  BY DEF Thrown, Modes
<1>3. Inside(t, u, run[w].pc, n) /\ (u = <<>> <=> s = <<>>) /\ (s # <<>> => Last(u).at = Last(s).at)
  <2>1. Alike(s, u) /\ (run[w].mode \in Thrown => n \in Thrown)
    BY DEF Same
  <2> DEFINE pc == run[w].pc
             m == run[w].mode
  <2>2. Inside(t, s, pc, m) /\ m \in Modes /\ (m \in Thrown => n \in Thrown) /\ s \in Seq(Frame)
    BY <1>1, <2>1
  <2> HIDE DEF h, t, s, pc, m
  <2>3. Inside(t, u, pc, n) /\ (u = <<>> <=> s = <<>>) /\ (s # <<>> => Last(u).at = Last(s).at)
    BY <1>2, <2>1, <2>2, AlikeInside
  <2> QED BY <2>3 DEF pc
<1>4. h \in Nat /\ run[w].pc < h
  <2>1. CASE s # <<>>
    <3>1. h = EndOf(t, Last(s).at) + 1
      BY <1>3, <2>1 DEF Reach
    <3>2. EndOf(t, Last(s).at) \in Nat /\ run[w].pc <= EndOf(t, Last(s).at)
      BY <1>1, <2>1, PlaceTypes
    <3> QED BY <1>1, <3>1, <3>2
  <2>2. CASE s = <<>>
    <3>1. h = Len(t) + 1
      BY <1>3, <2>2 DEF Reach
    <3>2. Len(t) \in Nat /\ DOMAIN t = 1..Len(t)
      BY <1>1, ScriptSeq, EmptySeq
    <3> QED BY <1>1, <2>2, <3>1, <3>2
  <2> QED BY <2>1, <2>2
<1> HIDE DEF h
<1>5. Place(run[w]) <= h /\ \A p \in S : Place(run[w]) <= p /\ p < h
  BY <1>1, <1>4
<1>6. h = Reach(t, u, run[w].pc, n)
  BY DEF h
<1> QED BY <1>1, <1>2, <1>3, <1>4, <1>5, <1>6, SamePaced

LEMMA PushPaced ==
    ASSUME RInv, IInv', NEW w \in Workers, NEW op, At(w, op), op # "end",
           NEW STATE u, u \in Seq(Frame), Same(run[w].stack, u),
           NEW STATE f, f \in Frame, f.at = run[w].pc,
           f.kind = "database" => f.tries = 3 /\ Visible(w, f.id) = NoConn,
           NEW m \in {"run", "connect"}, Turns(w, run[w].pc + 1, Append(u, f), m),
           NEW STATE S, S \subseteq {run[w].pc}, Effect(w, S)
    PROVE  RInv'
<1> DEFINE t == run[w].script
           s == run[w].stack
           pc == run[w].pc
           h == pc + 1
           v == Append(u, f)
<1>1. run[w].mode = "run" /\ pc \in DOMAIN t /\ t[pc].op # "end"
  BY RFacts, AtTypes
<1>2. t \in AllScripts
  <2>1. t \in AllScripts \cup {<<>>} /\ DOMAIN <<>> = {}
    BY RFacts, Facts
  <2> QED BY <1>1, <2>1
<1>3. "run" \in Modes /\ "run" \notin Thrown /\ m \in Modes /\ m \notin Thrown /\ m # "idle"
      /\ m # "broken"
  BY DEF Modes, Thrown
<1>4. Inside(t, s, pc, "run") /\ Opened(t, s) /\ s \in Seq(Frame) /\ Place(run[w]) = pc
      /\ pc \in Nat /\ Distinct(s) /\ IInv
  BY <1>1, <1>3, RFacts
<1>5. Inside(t, u, pc, "run") /\ Opened(t, u)
  BY <1>3, <1>4, AlikeInside DEF Same
<1>6. Inside(t, v, h, m)
  BY <1>1, <1>2, <1>3, <1>5, PushInside
<1>7. Distinct(u)
  BY <1>4, AlikeDistinct DEF Same
<1>8. Distinct(v)
  <2>1. DOMAIN u = DOMAIN s
    BY <1>4, StackSeq DEF Same, Alike
  <2>2. f.kind = "database" => \A i \in DOMAIN u : Kind(u, i, "database") => u[i].id # f.id
    BY <1>4, <2>1, NotVisible DEF Same, Alike, Kind
  <2> QED BY <1>7, <2>2, PushDistinct
<1>9. v \in Seq(Frame) /\ h \in Nat /\ Reach(t, v, h, m) = h /\ pc < h
  BY <1>3, <1>4, AppendProperties DEF Reach
<1>10. ASSUME NEW p \in Positions, NEW n \in Nat, Bounded(t, s, pc, p, n)
       PROVE  Bounded(t, v, h, p, n + Extra(p, S))
  <2>1. p \in Nat
    BY PositionTypes, Zenon
  <2>2. Alike(s, u) /\ \A i \in DOMAIN s : u[i].tries = s[i].tries
    BY DEF Same
  <2>3. pc <= pc /\ h <= h /\ pc <= h /\ n + 1 \in Nat /\ n + 0 = n
    BY <1>4
  <2>4. f.kind = "database" => f.tries = 3
    OBVIOUS
  <2>5. CASE p \in S
    <3>1. p = pc
      BY <2>5
    <3>2. Bounded(t, s, h, p, n + 1)
      BY <1>4, <1>9, <1>10, <2>3, <3>1, OneMoreBounded
    <3>3. Bounded(t, u, h, p, n + 1)
      BY <1>4, <1>9, <2>1, <2>2, <2>3, <3>2, SameBounded, SMTT(30)
    <3>4. Encloses(t, f, p) => h <= p
      BY <1>4, <3>1 DEF Encloses
    <3>5. Bounded(t, v, h, p, n + 1)
      BY <1>9, <2>1, <2>3, <2>4, <3>3, <3>4, PushBounded
    <3> QED BY <2>5, <3>5 DEF Extra
  <2>6. CASE p \notin S
    <3>1. Bounded(t, u, pc, p, n)
      BY <1>4, <1>10, <2>1, <2>2, <2>3, SameBounded
    <3>2. Encloses(t, f, p) => pc <= p
      BY <1>4, <2>1 DEF Encloses
    <3>3. Bounded(t, v, h, p, n)
      BY <1>4, <1>9, <2>1, <2>3, <2>4, <3>1, <3>2, PushBounded
    <3> QED BY <2>3, <2>6, <3>3 DEF Extra
  <2> QED BY <2>5, <2>6
<1>11. Place(run[w]) <= h /\ \A p \in S : Place(run[w]) <= p /\ p < h
  BY <1>4
<1> HIDE DEF v, h
<1>12. Turns(w, h, v, m)
  BY DEF v, h
<1> QED BY <1>3, <1>4, <1>6, <1>8, <1>9, <1>10, <1>11, <1>12, TurnPaced

\* The innermost tag ends.
LEMMA PopPaced ==
    ASSUME RInv, IInv', NEW w \in Workers, run[w].stack # <<>>,
           NEW STATE pc, pc \in Nat, NEW m \in Modes, m # "idle",
           Turns(w, pc, Front(run[w].stack), m), Effect(w, {}),
           Inside(run[w].script, Front(run[w].stack), pc, m), m = "broken" => broke'[w],
           NEW STATE h, h = Reach(run[w].script, Front(run[w].stack), pc, m), h \in Nat,
           EndOf(run[w].script, Last(run[w].stack).at) < h
    PROVE  RInv'
<1> DEFINE s == run[w].stack
           t == run[w].script
           g == Place(run[w])
           u == Front(s)
           e == EndOf(t, Last(s).at)
<1>1. s \in Seq(Frame) /\ Distinct(s) /\ g \in Nat /\ IInv
  BY RFacts
<1>2. u \in Seq(Frame) /\ Len(s) \in DOMAIN s /\ Last(s) = s[Len(s)]
  <2>1. /\ u \in Seq(Frame) /\ Len(s) \in Nat \ {0} /\ DOMAIN s = 1..Len(s)
        /\ Last(s) = s[Len(s)]
    BY <1>1, Shortened
  <2> QED BY <2>1
<1>3. Distinct(u)
  BY <1>1, PopDistinct
<1>4. e \in Nat /\ g <= e + 1
  BY RFacts, PlaceTypes
<1>5. g <= h
  BY <1>1, <1>4
<1>6. Last(s).kind = "database" => Last(s).tries \in 1..3 /\ Last(s).id \in Ids
  BY <1>1, <1>2, DatabaseFrames
<1>7. ASSUME NEW p \in Positions, NEW n \in Nat, Bounded(t, s, g, p, n)
      PROVE  Bounded(t, u, h, p, n + Extra(p, {}))
  <2>1. p \in Nat
    BY PositionTypes, Zenon
  <2>2. Encloses(t, Last(s), p) => p < h
    BY <1>4, <2>1 DEF Encloses
  <2>3. Bounded(t, u, h, p, n)
    BY <1>1, <1>5, <1>6, <1>7, <2>1, <2>2, PopBounded
  <2>4. n + 0 = n
    OBVIOUS
  <2> QED BY <2>3, <2>4 DEF Extra
<1> HIDE DEF u
<1>8. Turns(w, pc, u, m) /\ Inside(t, u, pc, m) /\ h = Reach(t, u, pc, m)
  BY DEF u
<1>9. \A p \in {} : g <= p /\ p < h
  OBVIOUS
<1> QED BY <1>2, <1>3, <1>5, <1>7, <1>8, <1>9, TurnPaced

LEMMA PopTurns ==
    ASSUME IInv, NEW w \in Workers, NEW STATE pc, NEW m, Pop(w, pc, m)
    PROVE  Turns(w, pc, Front(run[w].stack), m)
BY Facts DEF Pop, Turns, Run

LEMMA PushTurns ==
    ASSUME IInv, NEW w \in Workers, NEW STATE f, NEW m, Push(w, f, m)
    PROVE  Turns(w, run[w].pc + 1, Append(run[w].stack, f), m)
BY Facts DEF Push, Turns, Run

\* The content ends, an exception passes the innermost tag, or it ends there.
LEMMA LeavePaced ==
    ASSUME RInv, IInv', NEW w \in Workers, At(w, "end"), run[w].stack # <<>>,
           Pop(w, run[w].pc + 1, "run"), Effect(w, {})
    PROVE  RInv'
<1> DEFINE s == run[w].stack
           t == run[w].script
           e == EndOf(t, Last(s).at)
           h == run[w].pc + 1
<1>1. /\ s \in Seq(Frame) /\ Opened(t, s) /\ Inside(t, s, run[w].pc, run[w].mode) /\ IInv
      /\ run[w].mode \in Modes /\ run[w].pc \in Nat
  BY RFacts
<1>2. run[w].mode = "run" /\ t[run[w].pc].op = "end" /\ "run" \notin Thrown
  BY <1>1, AtTypes DEF Thrown
<1>3. t \in AllScripts /\ e \in Nat
  BY <1>1, PlaceTypes
<1>4. run[w].pc = e
  BY <1>1, <1>2, <1>3, AtItsEnd
<1>5. "run" \in Modes /\ "run" # "idle" /\ "run" # "broken"
  BY DEF Modes
<1>6. Inside(t, Front(s), e + 1, "run")
  BY <1>1, <1>3, <1>5, CloseInside
<1>7. Reach(t, Front(s), h, "run") = h
  BY <1>2 DEF Reach
<1>8. Turns(w, h, Front(s), "run")
  BY <1>1, PopTurns
<1>9. Inside(t, Front(s), h, "run") /\ h \in Nat /\ e < h
  BY <1>1, <1>4, <1>6
<1> HIDE DEF h
<1> QED BY <1>5, <1>7, <1>8, <1>9, PopPaced

LEMMA UnwindPaced ==
    ASSUME RInv, IInv', NEW w \in Workers, run[w].stack # <<>>, NEW n \in Thrown,
           Pop(w, run[w].pc, n), n = "broken" => broke'[w], Effect(w, {})
    PROVE  RInv'
<1> DEFINE s == run[w].stack
           t == run[w].script
           e == EndOf(t, Last(s).at)
           u == Front(s)
           h == Reach(t, u, run[w].pc, n)
<1>1. /\ s \in Seq(Frame) /\ Opened(t, s) /\ Inside(t, s, run[w].pc, run[w].mode) /\ IInv
      /\ run[w].mode \in Modes /\ run[w].pc \in Nat
  BY RFacts
<1>2. t \in AllScripts /\ e \in Nat /\ e <= Len(t)
  BY <1>1, PlaceTypes
<1>3. n \in Modes /\ n # "idle"
  BY DEF Thrown, Modes
<1>4. Inside(t, u, run[w].pc, n)
  BY <1>1, PopInside
<1>5. h \in Nat /\ e < h
  <2>1. CASE u = <<>>
    <3>1. h = Len(t) + 1
      BY <2>1 DEF Reach
    <3>2. Len(t) \in Nat
      BY <1>2, ScriptSeq
    <3> QED BY <1>2, <3>1, <3>2
  <2>2. CASE u # <<>>
    <3>1. h = EndOf(t, Last(u).at) + 1
      BY <2>2 DEF Reach
    <3>2. /\ u \in Seq(Frame) /\ Len(s) \in Nat \ {0} /\ Len(u) = Len(s) - 1
          /\ DOMAIN s = 1..Len(s) /\ Last(s) = s[Len(s)]
          /\ \A i \in 1..(Len(s) - 1) : u[i] = s[i]
      BY <1>1, Shortened
    <3>3. Len(u) # 0
      BY <2>2, <3>2, EmptySeq
    <3> DEFINE i == Len(s) - 1
               j == Len(s)
    <3>4. i \in DOMAIN s /\ j \in DOMAIN s /\ i < j /\ i \in 1..i /\ Len(u) = i
      <4> HIDE DEF h, u, s
      <4>1. j \in Nat \ {0, 1}
        BY <3>2, <3>3
      <4> QED BY <3>2, <4>1
    <3>5. Last(u) = s[i]
      BY <3>2, <3>4 DEF Last
    <3>6. EndOf(t, s[i].at) \in Nat /\ EndOf(t, s[j].at) < EndOf(t, s[i].at)
      BY <1>1, <1>2, <3>4, TagEnds
    <3> HIDE DEF h
    <3> QED BY <1>2, <3>1, <3>2, <3>5, <3>6
  <2> QED BY <2>1, <2>2
<1>6. Turns(w, run[w].pc, u, n)
  BY <1>1, PopTurns
<1> HIDE DEF h
<1>7. h = Reach(t, u, run[w].pc, n)
  BY DEF h
<1> QED BY <1>1, <1>3, <1>4, <1>5, <1>6, <1>7, PopPaced

LEMMA CatchPaced ==
    ASSUME RInv, IInv', NEW w \in Workers, run[w].stack # <<>>,
           Pop(w, EndOf(run[w].script, Last(run[w].stack).at) + 1, "run"), Effect(w, {})
    PROVE  RInv'
<1> DEFINE s == run[w].stack
           t == run[w].script
           e == EndOf(t, Last(s).at)
           h == e + 1
<1>1. /\ s \in Seq(Frame) /\ Opened(t, s) /\ Inside(t, s, run[w].pc, run[w].mode) /\ IInv
      /\ run[w].mode \in Modes /\ run[w].pc \in Nat
  BY RFacts
<1>2. t \in AllScripts /\ e \in Nat
  BY <1>1, PlaceTypes
<1>3. "run" \in Modes /\ "run" # "idle" /\ "run" # "broken" /\ "run" \notin Thrown
  BY DEF Modes, Thrown
<1>4. Inside(t, Front(s), h, "run")
  BY <1>1, <1>2, <1>3, CloseInside
<1>5. Reach(t, Front(s), h, "run") = h
  BY <1>3 DEF Reach
<1>6. h \in Nat /\ e < h
  BY <1>2
<1>7. Turns(w, h, Front(s), "run")
  BY <1>1, PopTurns
<1> HIDE DEF h
<1> QED BY <1>3, <1>4, <1>5, <1>6, <1>7, PopPaced

\* The content of a database tag runs again.
LEMMA RetryPaced ==
    ASSUME RInv, IInv', NEW w \in Workers, run[w].stack # <<>>, run[w].mode = "broken",
           Last(run[w].stack).kind = "database", Last(run[w].stack).tries # 1,
           Resumes(w, "connect", Last(run[w].stack).at + 1, Last(run[w].stack).tries - 1),
           Effect(w, {})
    PROVE  RInv'
<1> DEFINE s == run[w].stack
           t == run[w].script
           f == Last(s)
           e == EndOf(t, f.at)
           g == [f EXCEPT !.tries = f.tries - 1]
           u == [s EXCEPT ![Len(s)] = g]
           h == f.at + 1
<1>1. /\ s \in Seq(Frame) /\ Opened(t, s) /\ Inside(t, s, run[w].pc, run[w].mode) /\ IInv
      /\ run[w].mode \in Modes /\ run[w].pc \in Nat /\ broke[w] /\ Distinct(s)
  BY RFacts
<1>2. t \in AllScripts /\ e \in Nat /\ f.at \in Nat
  BY <1>1, PlaceTypes
<1>3. Len(s) \in Nat \ {0} /\ DOMAIN s = 1..Len(s) /\ f = s[Len(s)] /\ f \in Frame
  BY <1>1, Shortened
<1>4. f.tries \in 2..3
  <2>1. Len(s) \in DOMAIN s
    BY <1>3
  <2>2. f.tries \in 1..3
    BY <1>1, <1>3, <2>1, DatabaseFrames
  <2> QED BY <2>2
<1>5. /\ g \in Frame /\ g.kind = f.kind /\ g.at = f.at /\ g.id = f.id /\ g.conn = f.conn
      /\ g.tries = f.tries - 1
  <2>1. f.tries - 1 \in 0..3
    BY <1>4
  <2> QED BY <1>3, <2>1 DEF Frame
<1> HIDE DEF g
<1>6. /\ u \in Seq(Frame) /\ Len(u) = Len(s) /\ u[Len(s)] = g
      /\ \A i \in DOMAIN s : i # Len(s) => u[i] = s[i]
  BY <1>1, <1>3, <1>5, ExceptSeq
<1>7. Turns(w, h, u, "connect")
  <2>1. [run[w] EXCEPT !.mode = "connect", !.pc = h, !.stack[Len(run[w].stack)].tries = f.tries - 1]
          = [run[w] EXCEPT !.pc = h, !.stack = u, !.mode = "connect"]
    BY <1>1, <1>3, Facts DEF Run, g
  <2> QED BY <2>1 DEF Resumes, Turns
<1> HIDE DEF u
<1>8. Alike(s, u)
  BY <1>3, <1>5, <1>6 DEF Alike
<1>9. "connect" \in Modes /\ "connect" \notin Thrown /\ "connect" # "idle"
      /\ "connect" # "broken" /\ "broken" \in Thrown
  BY DEF Modes, Thrown
<1>10. Inside(t, s, h, "connect")
  BY <1>1, <1>2, <1>9, RetryInside
<1>11. Inside(t, u, h, "connect")
  BY <1>1, <1>6, <1>8, <1>9, <1>10, AlikeInside
<1>12. Distinct(u)
  BY <1>1, <1>6, <1>8, AlikeDistinct
<1>13. Reach(t, u, h, "connect") = h /\ h \in Nat
  BY <1>2, <1>9 DEF Reach
<1>14. Place(run[w]) = e + 1
  BY <1>9 DEF Place, Reach
<1>15. ASSUME NEW p \in Positions, NEW n \in Nat, Bounded(t, s, Place(run[w]), p, n)
       PROVE  Bounded(t, u, h, p, n + Extra(p, {}))
  <2>1. p \in Nat
    BY PositionTypes, Zenon
  <2>2. u[Len(s)].tries = f.tries - 1 /\ \A i \in DOMAIN s : i # Len(s) => u[i].tries = s[i].tries
    BY <1>5, <1>6
  <2>3. Bounded(t, s, e + 1, p, n)
    BY <1>14, <1>15
  <2>4. Bounded(t, u, h, p, n)
    BY <1>1, <1>2, <1>4, <1>6, <1>8, <2>1, <2>2, <2>3, RetryBounded
  <2>5. n + 0 = n
    OBVIOUS
  <2> QED BY <2>4, <2>5 DEF Extra
<1>16. broke'[w]
  BY <1>1 DEF Effect
<1> HIDE DEF h
<1> QED BY <1>6, <1>7, <1>9, <1>11, <1>12, <1>13, <1>15, <1>16, TurnPaced

--------------------------------------------------------------------------------
(* What the steps do to connections and counters *)

\* p is held by at most one connection of w.
LEMMA HeldOnce ==
    ASSUME RInv, NEW w \in Workers, NEW c \in Conns, NEW d \in Conns, conn[c].owner = w,
           conn[d].owner = w, NEW p, p \in conn[c].pending, p \in conn[d].pending
    PROVE  c = d
<1> DEFINE s == run[w].stack
<1>1. /\ Distinct(s) /\ Own(conn, w, run[w].script) /\ IInv
      /\ Held(conn, w, s, run[w].mode)
  BY RFacts, Facts
<1>2. conn[c].id = conn[d].id
  BY <1>1 DEF Own
<1>3. ASSUME NEW x \in Conns, conn[x].owner = w, p \in conn[x].pending
      PROVE  \E j \in DOMAIN s : Kind(s, j, "database") /\ s[j].conn = x /\ s[j].id = conn[x].id
  <2>1. conn[x].tx # "none"
    BY <1>1, <1>3 DEF IInv, Clean
  <2>2. PICK i \in DOMAIN s : s[i].kind = "transaction" /\ s[i].conn = x
    BY <1>1, <1>3, <2>1 DEF Held, Tagged
  <2>3. PICK j \in DOMAIN s : Kind(s, j, "database") /\ s[j].conn = x
    BY <1>1, <2>2 DEF Held, Transactions
  <2> QED BY <1>1, <2>3 DEF Held, Leases, Kind
<1>4. PICK i \in DOMAIN s : Kind(s, i, "database") /\ s[i].conn = c /\ s[i].id = conn[c].id
  BY <1>3
<1>5. PICK j \in DOMAIN s : Kind(s, j, "database") /\ s[j].conn = d /\ s[j].id = conn[d].id
  BY <1>3
<1>6. i = j
  BY <1>1, <1>2, <1>4, <1>5 DEF Distinct
<1> QED BY <1>4, <1>5, <1>6

\* The counters of the other workers, and whether a connection broke.
Apiece(w) ==
    /\ \A v \in Workers : v # w => applied'[v] = applied[v] /\ broke'[v] = broke[v]
    /\ broke[w] => broke'[w]

LEMMA BrokeApiece ==
    ASSUME IInv, NEW w \in Workers,
           applied' = applied \/ \E S : Commit(w, S),
           broke' = broke \/ \E b : broke' = [broke EXCEPT ![w] = @ \/ b]
    PROVE  Apiece(w)
<1>1. applied \in [Workers -> [Positions -> Nat]] /\ broke \in [Workers -> BOOLEAN]
  BY Facts
<1>2. \A v \in Workers : v # w => applied'[v] = applied[v]
  BY <1>1 DEF Commit
<1>3. \A v \in Workers : v # w => broke'[v] = broke[v]
  BY <1>1
<1>4. broke[w] => broke'[w]
  BY <1>1
<1> QED BY <1>2, <1>3, <1>4 DEF Apiece

\* A connection changes that w has, leases or gives back.
LEMMA SetsGives ==
    ASSUME IInv, NEW w \in Workers, NEW c \in Conns, NEW STATE q, Sets(c, q),
           conn[c].owner \in {w, NoWorker}, q.owner \in {w, NoWorker},
           q.pending # {} => q.owner = conn[c].owner /\ q.id = conn[c].id,
           NEW STATE t, NEW STATE S,
           \A p \in q.pending : p \in conn[c].pending \/ (p \in S /\ t[p].id = q.id)
    PROVE  Gives(conn, conn', w, t, S)
<1>1. conn \in [Conns -> Conn]
  BY Facts
<1>2. conn'[c] = q /\ \A d \in Conns : d # c => conn'[d] = conn[d]
  BY <1>1 DEF Sets
<1> QED BY <1>2 DEF Gives

LEMMA SameGives ==
    ASSUME NEW w, NEW STATE t, NEW STATE S, conn' = conn PROVE Gives(conn, conn', w, t, S)
BY DEF Gives

\* Nothing is committed.
LEMMA QuietEffect ==
    ASSUME IInv, NEW w \in Workers, NEW STATE S, Gives(conn, conn', w, run[w].script, S),
           applied' = applied, Apiece(w)
    PROVE  Effect(w, S)
<1> SUFFICES ASSUME NEW p \in Positions
             PROVE  Made(conn', w, applied'[w], p) <= Made(conn, w, applied[w], p) + Extra(p, S)
  BY DEF Effect, Apiece
<1>1. applied[w] \in [Positions -> Nat]
  BY Facts
<1> DEFINE a == applied[w][p]
           old == \E c \in Conns : conn[c].owner = w /\ p \in conn[c].pending
           new == \E c \in Conns : conn'[c].owner = w /\ p \in conn'[c].pending
<1>2. a \in Nat
  BY <1>1
<1>3. new => old \/ p \in S
  BY DEF Gives
<1>4. /\ Made(conn, w, applied[w], p) = a + IF old THEN 1 ELSE 0
      /\ Made(conn', w, applied'[w], p) = a + IF new THEN 1 ELSE 0
  BY DEF Made
<1> HIDE DEF old, new, a
<1> QED BY <1>2, <1>3, <1>4 DEF Extra

\* An update is committed on its own.
LEMMA AloneEffect ==
    ASSUME IInv, NEW w \in Workers, NEW STATE S, Gives(conn, conn', w, run[w].script, {}),
           Commit(w, S), Apiece(w)
    PROVE  Effect(w, S)
<1>1. applied[w] \in [Positions -> Nat]
  BY Facts
<1>2. applied'[w] = [p \in Positions |-> applied[w][p] + (IF p \in S THEN 1 ELSE 0)]
  BY CommitTypes
<1>3. Gives(conn, conn', w, run[w].script, S)
  BY DEF Gives
<1>4. ASSUME NEW p \in Positions
      PROVE  Made(conn', w, applied'[w], p) <= Made(conn, w, applied[w], p) + Extra(p, S)
  <2> DEFINE a == applied[w][p]
             old == \E c \in Conns : conn[c].owner = w /\ p \in conn[c].pending
             new == \E c \in Conns : conn'[c].owner = w /\ p \in conn'[c].pending
  <2>1. a \in Nat
    BY <1>1
  <2>2. new => old
    BY DEF Gives
  <2>3. applied'[w][p] = a + IF p \in S THEN 1 ELSE 0
    BY <1>2
  <2>4. /\ Made(conn, w, applied[w], p) = a + IF old THEN 1 ELSE 0
        /\ Made(conn', w, applied'[w], p) = applied'[w][p] + IF new THEN 1 ELSE 0
    BY DEF Made
  <2> HIDE DEF old, new, a
  <2> QED BY <2>1, <2>2, <2>3, <2>4 DEF Extra
<1> QED BY <1>3, <1>4 DEF Effect, Apiece

\* What a transaction has done is committed.
LEMMA CommitEffect ==
    ASSUME RInv, NEW w \in Workers, NEW c \in Conns, conn[c].owner = w, NEW STATE q,
           Sets(c, q), q.owner = w, q.pending = {}, Commit(w, conn[c].pending), Apiece(w)
    PROVE  Effect(w, {})
<1>1. IInv /\ conn \in [Conns -> Conn] /\ applied[w] \in [Positions -> Nat]
  BY Facts DEF RInv
<1>2. conn'[c] = q /\ \A d \in Conns : d # c => conn'[d] = conn[d]
  BY <1>1 DEF Sets
<1>3. Gives(conn, conn', w, run[w].script, {})
  BY <1>2 DEF Gives
<1>4. applied'[w] = [p \in Positions |-> applied[w][p] + (IF p \in conn[c].pending THEN 1 ELSE 0)]
  BY <1>1, CommitTypes
<1>5. ASSUME NEW p \in Positions
      PROVE  Made(conn', w, applied'[w], p) <= Made(conn, w, applied[w], p) + Extra(p, {})
  <2> DEFINE a == applied[w][p]
             old == \E d \in Conns : conn[d].owner = w /\ p \in conn[d].pending
             new == \E d \in Conns : conn'[d].owner = w /\ p \in conn'[d].pending
  <2>1. a \in Nat
    BY <1>1
  <2>2. new => old /\ p \notin conn[c].pending
    <3> SUFFICES ASSUME NEW d \in Conns, conn'[d].owner = w, p \in conn'[d].pending
                 PROVE  old /\ p \notin conn[c].pending
      OBVIOUS
    <3>1. d # c /\ conn[d].owner = w /\ p \in conn[d].pending
      BY <1>2
    <3>2. p \notin conn[c].pending
      BY <3>1, HeldOnce
    <3> QED BY <3>1, <3>2
  <2>3. p \in conn[c].pending => old
    OBVIOUS
  <2>4. applied'[w][p] = a + IF p \in conn[c].pending THEN 1 ELSE 0
    BY <1>4
  <2>5. /\ Made(conn, w, applied[w], p) = a + IF old THEN 1 ELSE 0
        /\ Made(conn', w, applied'[w], p) = applied'[w][p] + IF new THEN 1 ELSE 0
    BY DEF Made
  <2> HIDE DEF old, new, a
  <2> QED BY <2>1, <2>2, <2>3, <2>4, <2>5 DEF Extra
<1> QED BY <1>3, <1>5 DEF Effect, Apiece

--------------------------------------------------------------------------------
(* Every step keeps the pace *)

\* A step that commits nothing.
LEMMA QuietStep ==
    ASSUME RInv, NEW w \in Workers, Gives(conn, conn', w, run[w].script, {}),
           applied' = applied,
           broke' = broke \/ \E b : broke' = [broke EXCEPT ![w] = @ \/ b]
    PROVE  Effect(w, {})
<1>1. IInv
  BY DEF RInv
<1>2. Apiece(w)
  BY <1>1, BrokeApiece
<1> QED BY <1>1, <1>2, QuietEffect

LEMMA NothingPending ==
    ASSUME IInv, NEW w \in Workers, run[w].stack = <<>>, NEW c \in Conns, conn[c].owner = w
    PROVE  conn[c].pending = {}
<1>1. Tagged(conn, w, run[w].stack) /\ DOMAIN <<>> = {}
  BY Facts DEF Held
<1>2. conn[c].tx = "none"
  BY <1>1 DEF Tagged
<1> QED BY <1>2 DEF IInv, Clean

LEMMA PositionPositive == ASSUME NEW p \in Positions PROVE p \in Nat \ {0}
<1>1. PICK t \in AllScripts : p \in 1..Len(t)
  BY DEF Positions
<1> QED BY <1>1, ScriptSeq

\* A worker is at the start of a script, or has none.
LEMMA RestPaced ==
    ASSUME RInv, IInv', NEW w \in Workers, NEW r \in Run, Goes(w, r), r.stack = <<>>,
           r.pc = 1, r.mode \in {"idle", "run"}, r.mode = "idle" => r = Idle,
           run[w].stack = <<>>, conn' = conn, \A p \in Positions : applied'[w][p] = 0,
           \A v \in Workers : v # w => applied'[v] = applied[v] /\ broke'[v] = broke[v]
    PROVE  RInv'
<1>1. run \in [Workers -> Run] /\ IInv
  BY DEF RInv, IInv, TypeOK
<1>2. run'[w] = r /\ \A v \in Workers : v # w => run'[v] = run[v]
  BY <1>1 DEF Goes
<1>3. ASSUME NEW c \in Conns, conn[c].owner = w PROVE conn[c].pending = {}
  BY <1>1, <1>3, NothingPending
<1>4. ASSUME NEW p \in Positions PROVE Made(conn', w, applied'[w], p) = 0
  BY <1>3 DEF Made
<1>5. Place(r) = 1
  BY DEF Place, Reach, Thrown
<1>6. Limited(conn', w, r, applied'[w])
  <2> SUFFICES ASSUME NEW p \in Positions
               PROVE  Bounded(r.script, <<>>, 1, p, Made(conn', w, applied'[w], p))
    BY <1>5 DEF Limited
  <2>1. Bounded(r.script, <<>>, 1, p, 0)
    BY PositionPositive, NoneBounded
  <2> QED BY <1>4, <2>1
<1>7. MadeOnce(conn', w, r, applied'[w])
  <2> SUFFICES ASSUME NEW p \in Positions
               PROVE  Made(conn', w, applied'[w], p) <= IF p < 1 THEN 1 ELSE 0
    BY <1>5 DEF MadeOnce
  <2> QED BY <1>4
<1>8. Own(conn', w, r.script)
  BY <1>3 DEF Own
<1>9. Inside(r.script, r.stack, r.pc, r.mode) /\ Distinct(r.stack)
  <2>1. DOMAIN r.stack = {}
    OBVIOUS
  <2> QED BY <2>1 DEF Inside, Distinct
<1>10. Paced(conn', w, run'[w], applied'[w], broke'[w])
  BY <1>2, <1>6, <1>7, <1>8, <1>9 DEF Paced
<1>11. ASSUME NEW v \in Workers, v # w
       PROVE  Paced(conn', v, run'[v], applied'[v], broke'[v])
  <2>1. Paced(conn, v, run[v], applied[v], broke[v])
    BY DEF RInv
  <2> QED BY <1>2, <1>11, <2>1
<1> QED BY <1>10, <1>11 DEF RInv

LEMMA StartPaced == ASSUME RInv, NEW w \in Workers, Start(w) PROVE RInv'
<1>1. IInv /\ Paced(conn, w, run[w], applied[w], broke[w])
  BY DEF RInv
<1>2. IInv'
  BY <1>1, StartStep
<1>3. PICK s \in Scripts[w] : Goes(w, [Idle EXCEPT !.script = s, !.mode = "run"])
  BY DEF Start
<1> DEFINE r == [Idle EXCEPT !.script = s, !.mode = "run"]
<1>4. <<>> \in Seq(Frame) /\ 1 \in Nat /\ s \in AllScripts
  BY EmptySeq DEF AllScripts
<1>5. r \in Run /\ r.stack = <<>> /\ r.mode = "run" /\ r.pc = 1
  BY <1>4, ModeTypes DEF Idle, Run
<1>6. Goes(w, r) /\ UNCHANGED <<conn, applied, broke>> /\ run[w] = Idle
  BY <1>1, <1>3 DEF Start, Paced
<1> HIDE DEF r
<1>7. run[w].stack = <<>> /\ run[w].pc = 1 /\ run[w].script = <<>> /\ run[w].mode = "idle"
  BY <1>6 DEF Idle
<1>8. ASSUME NEW p \in Positions PROVE applied'[w][p] = 0
  <2>1. applied[w] \in [Positions -> Nat]
    BY <1>1, Facts
  <2> DEFINE n == Made(conn, w, applied[w], p)
  <2>2. n \in Nat /\ applied[w][p] \in Nat /\ applied[w][p] <= n
    BY <2>1, MadeTypes
  <2>3. Place(run[w]) = 1
    BY <1>7 DEF Place, Reach, Thrown
  <2>4. Bounded(run[w].script, <<>>, 1, p, n)
    BY <1>1, <1>7, <2>3 DEF Paced, Limited
  <2>5. n = 0
    BY <2>2, <2>4, PositionPositive, NoneBounded
  <2> QED BY <1>6, <2>2, <2>5
<1> QED BY <1>2, <1>5, <1>6, <1>7, <1>8, RestPaced

LEMMA FinishPaced == ASSUME RInv, NEW w \in Workers, Finish(w) PROVE RInv'
<1>1. IInv
  BY DEF RInv
<1>2. IInv'
  BY <1>1, FinishStep
<1>3. run[w].stack = <<>> /\ Goes(w, Idle) /\ conn' = conn
  BY DEF Finish
<1>4. Idle \in Run /\ Idle.stack = <<>> /\ Idle.mode = "idle" /\ Idle.pc = 1
  <2>1. <<>> \in Seq(Frame) /\ 1 \in Nat
    BY EmptySeq
  <2> QED BY <2>1, ModeTypes DEF Idle, Run
<1>5. applied \in [Workers -> [Positions -> Nat]] /\ broke \in [Workers -> BOOLEAN]
  BY <1>1, Facts
<1>6. \A p \in Positions : applied'[w][p] = 0
  BY <1>5 DEF Finish, NothingApplied
<1>7. \A v \in Workers : v # w => applied'[v] = applied[v] /\ broke'[v] = broke[v]
  BY <1>5 DEF Finish
<1> QED BY <1>2, <1>3, <1>4, <1>6, <1>7, RestPaced

\* A tag starts with the stack as it is.
LEMMA EnterPaced ==
    ASSUME RInv, IInv', NEW w \in Workers, NEW op, At(w, op), op # "end",
           NEW STATE f, f \in Frame, f.at = run[w].pc,
           f.kind = "database" => f.tries = 3 /\ Visible(w, f.id) = NoConn,
           NEW m \in {"run", "connect"}, Push(w, f, m), Effect(w, {})
    PROVE  RInv'
<1>1. IInv /\ run[w].stack \in Seq(Frame)
  BY RFacts
<1>2. Turns(w, run[w].pc + 1, Append(run[w].stack, f), m)
  BY <1>1, PushTurns
<1>3. {} \subseteq {run[w].pc} /\ Same(run[w].stack, run[w].stack)
  BY SameItself
<1> QED BY <1>1, <1>2, <1>3, PushPaced

LEMMA EnterTryPaced == ASSUME RInv, NEW w \in Workers, EnterTry(w) PROVE RInv'
<1> DEFINE f == NewFrame(w, "try", NoConn)
<1>1. IInv
  BY DEF RInv
<1>2. IInv'
  BY <1>1, EnterTryStep
<1>3. At(w, "try") /\ Push(w, f, "run") /\ UNCHANGED <<conn, applied, broke>>
  BY DEF EnterTry
<1>4. f \in Frame
  BY <1>1, <1>3, NewFrameTypes DEF Kinds
<1>5. f.kind = "try" /\ f.at = run[w].pc
  BY DEF NewFrame
<1> HIDE DEF f
<1>6. Effect(w, {})
  BY <1>3, SameGives, QuietStep
<1> QED BY <1>2, <1>3, <1>4, <1>5, <1>6, EnterPaced

LEMMA EnterDatabasePaced == ASSUME RInv, NEW w \in Workers, EnterDatabase(w) PROVE RInv'
<1>1. IInv
  BY DEF RInv
<1>2. IInv'
  BY <1>1, EnterDatabaseStep
<1>3. At(w, "database") /\ UNCHANGED <<applied, broke>>
  BY DEF EnterDatabase
<1>4. CASE Push(w, NewFrame(w, "nested", NoConn), "run") /\ UNCHANGED conn
  <2> DEFINE f == NewFrame(w, "nested", NoConn)
  <2>1. f \in Frame
    BY <1>1, <1>3, NewFrameTypes
  <2>2. f.kind = "nested" /\ f.at = run[w].pc
    BY DEF NewFrame
  <2>3. Push(w, f, "run")
    BY <1>4
  <2> HIDE DEF f
  <2>4. Effect(w, {})
    BY <1>3, <1>4, SameGives, QuietStep
  <2> QED BY <1>2, <1>3, <2>1, <2>2, <2>3, <2>4, EnterPaced
<1>5. ASSUME Visible(w, Instr(w).id) = NoConn, NEW c \in Pooled(Instr(w).id),
             conn' = [conn EXCEPT ![c].owner = w, ![c].id = Instr(w).id],
             Push(w, [NewFrame(w, "database", c) EXCEPT !.tries = 3], "connect")
      PROVE  RInv'
  <2> DEFINE f == [NewFrame(w, "database", c) EXCEPT !.tries = 3]
             q == [conn[c] EXCEPT !.owner = w, !.id = Instr(w).id]
  <2>1. c \in Conns /\ (conn[c].owner = NoWorker \/ conn[c].id = NoId)
    BY DEF Pooled
  <2>2. Clean(conn[c]) /\ conn \in [Conns -> Conn] /\ conn[c] \in Conn
    BY <1>1, <2>1 DEF IInv, TypeOK
  <2>3. conn[c].owner = NoWorker /\ conn[c].pending = {}
    BY <2>1, <2>2 DEF Clean
  <2>4. f \in Frame
    BY <1>1, <1>3, <2>1, NewFrameTypes DEF Kinds
  <2>5. f.kind = "database" /\ f.at = run[w].pc /\ f.tries = 3 /\ f.id = Instr(w).id
    BY DEF NewFrame
  <2>6. Push(w, f, "connect")
    BY <1>5
  <2>7. Sets(c, q) /\ q.owner = w /\ q.pending = {}
    BY <1>5, <2>1, <2>2, <2>3 DEF Sets, Conn
  <2> HIDE DEF f, q
  <2>8. Gives(conn, conn', w, run[w].script, {})
    BY <1>1, <2>1, <2>3, <2>7, SetsGives
  <2>9. Effect(w, {})
    BY <1>3, <2>8, QuietStep
  <2>10. f.kind = "database" => f.tries = 3 /\ Visible(w, f.id) = NoConn
    BY <1>5, <2>5
  <2> QED BY <1>2, <1>3, <2>4, <2>5, <2>6, <2>9, <2>10, EnterPaced
<1> QED BY <1>4, <1>5 DEF EnterDatabase

\* A connection of w changes and holds nothing new; nothing is committed.
LEMMA SetsQuiet ==
    ASSUME RInv, NEW w \in Workers, NEW c \in Conns, conn[c].owner = w, NEW STATE q, Sets(c, q),
           q.owner \in {w, NoWorker}, q.pending \subseteq conn[c].pending,
           q.pending # {} => q.owner = w /\ q.id = conn[c].id,
           applied' = applied,
           broke' = broke \/ \E b : broke' = [broke EXCEPT ![w] = @ \/ b]
    PROVE  Effect(w, {})
<1>1. IInv
  BY DEF RInv
<1>2. Gives(conn, conn', w, run[w].script, {})
  BY <1>1, SetsGives
<1> QED BY <1>2, QuietStep

LEMMA ConnectPaced == ASSUME RInv, NEW w \in Workers, Connect(w) PROVE RInv'
<1> DEFINE c == LastConn(run[w].stack)
           q == IF conn[c].state = "closed" THEN [conn[c] EXCEPT !.state = "open"] ELSE conn[c]
           s == run[w].stack
           t == run[w].script
<1>1. IInv /\ s \in Seq(Frame) /\ run[w].pc \in Nat /\ run[w].mode \in Modes
      /\ Inside(t, s, run[w].pc, run[w].mode) /\ run[w].mode = "connect"
  BY RFacts DEF Connect
<1>2. IInv'
  BY <1>1, ConnectStep
<1>3. s # <<>> /\ Last(s).kind = "database"
  BY <1>1, ConnectMode
<1>4. c \in Conns /\ conn[c] \in Conn /\ conn[c].owner = w /\ conn[c].pending = {}
  BY <1>1, <1>3, InnermostDatabase
<1>5. conn \in [Conns -> Conn]
  BY <1>1 DEF IInv, TypeOK
<1>6. q.owner = w /\ q.pending = {}
  BY <1>4 DEF Conn
<1>7. Sets(c, q)
  BY <1>4, <1>5 DEF Connect, LastConn, Sets
<1>8. Turns(w, run[w].pc, s, "run") /\ UNCHANGED <<applied, broke>>
  BY <1>1, Facts DEF Connect, Turns, Run
<1> HIDE DEF q, c
<1>9. Effect(w, {})
  BY <1>4, <1>6, <1>7, <1>8, SetsQuiet
<1>10. "run" \in Modes /\ "run" # "idle" /\ "run" # "broken" /\ "run" \notin Thrown
       /\ "connect" \notin Thrown
  BY ModeTypes DEF Thrown
<1>11. Same(s, s) /\ Alike(s, s)
  BY SameItself DEF Same
<1>12. Inside(t, s, run[w].pc, "run")
  BY <1>1, <1>10 DEF Inside
<1>13. Reach(t, s, run[w].pc, "run") = run[w].pc /\ Place(run[w]) = run[w].pc
  BY <1>1, <1>10 DEF Reach, Place
<1>14. Place(run[w]) <= run[w].pc /\ \A p \in {} : Place(run[w]) <= p /\ p < run[w].pc
  BY <1>1, <1>13
<1> QED
  BY <1>1, <1>2, <1>8, <1>9, <1>10, <1>11, <1>12, <1>13, <1>14, SamePaced

LEMMA ConnectFailsPaced == ASSUME RInv, NEW w \in Workers, ConnectFails(w) PROVE RInv'
<1> DEFINE c == LastConn(run[w].stack)
           q == IF driver = "sqlite" THEN [conn[c] EXCEPT !.state = "dead"] ELSE conn[c]
           n == IF driver = "pgsql" THEN "broken" ELSE "error"
           s == run[w].stack
<1>1. IInv /\ s \in Seq(Frame) /\ run[w].mode = "connect"
  BY RFacts DEF ConnectFails
<1>2. IInv'
  BY <1>1, ConnectFailsStep
<1>3. s # <<>> /\ Last(s).kind = "database"
  BY <1>1, ConnectMode
<1>4. c \in Conns /\ conn[c] \in Conn /\ conn[c].owner = w /\ conn[c].pending = {}
  BY <1>1, <1>3, InnermostDatabase
<1>5. conn \in [Conns -> Conn] /\ broke \in [Workers -> BOOLEAN]
  BY <1>1 DEF IInv, TypeOK
<1>6. q.owner = w /\ q.pending = {}
  BY <1>4 DEF Conn
<1>7. Sets(c, q)
  BY <1>4, <1>5 DEF ConnectFails, LastConn, Sets
<1>8. Turns(w, run[w].pc, s, n)
  BY <1>1, Facts DEF ConnectFails, Turns, Run
<1>9. applied' = applied /\ broke' = [broke EXCEPT ![w] = @ \/ driver = "pgsql"]
  BY DEF ConnectFails
<1> HIDE DEF q, c
<1>10. Effect(w, {})
  BY <1>4, <1>6, <1>7, <1>9, SetsQuiet
<1>11. n \in Thrown /\ "connect" \notin Thrown
  BY DEF Thrown
<1>12. n = "broken" => broke'[w]
  BY <1>5, <1>9
<1> HIDE DEF n
<1>13. Same(s, s) /\ {} \subseteq {run[w].pc}
  BY SameItself
<1> QED
  BY <1>1, <1>2, <1>3, <1>8, <1>10, <1>11, <1>12, <1>13, ThrowPaced

LEMMA LeaveDatabasePaced == ASSUME RInv, NEW w \in Workers, LeaveDatabase(w) PROVE RInv'
<1> DEFINE c == LastConn(run[w].stack)
           q == Released(conn[c])
<1>1. IInv /\ conn \in [Conns -> Conn]
  BY DEF RInv, IInv, TypeOK
<1>2. IInv'
  BY <1>1, LeaveDatabaseStep
<1>3. /\ run[w].stack # <<>> /\ Last(run[w].stack).kind = "database" /\ At(w, "end")
      /\ Pop(w, run[w].pc + 1, "run") /\ UNCHANGED <<applied, broke>>
  BY DEF LeaveDatabase, Within
<1>4. c \in Conns /\ conn[c] \in Conn /\ conn[c].owner = w /\ conn[c].pending = {}
  BY <1>1, <1>3, InnermostDatabase
<1>5. q.owner = NoWorker /\ q.pending = {}
  BY <1>4 DEF Conn, Released
<1>6. Sets(c, q)
  BY <1>1, <1>4 DEF LeaveDatabase, LastConn, Sets, Released
<1> HIDE DEF q, c
<1>7. Effect(w, {})
  BY <1>3, <1>4, <1>5, <1>6, SetsQuiet
<1> QED BY <1>2, <1>3, <1>7, LeavePaced

LEMMA UnwindDatabasePaced == ASSUME RInv, NEW w \in Workers, UnwindDatabase(w) PROVE RInv'
<1> DEFINE c == LastConn(run[w].stack)
           q == Released(IF driver \in {"odbc", "redis"} THEN Closed(conn[c]) ELSE conn[c])
<1>1. IInv /\ conn \in [Conns -> Conn]
  BY DEF RInv, IInv, TypeOK
<1>2. IInv'
  BY <1>1, UnwindDatabaseStep
<1>3. /\ run[w].stack # <<>> /\ Last(run[w].stack).kind = "database"
      /\ Pop(w, run[w].pc, run[w].mode) /\ UNCHANGED <<applied, broke>>
  BY DEF UnwindDatabase, Within
<1>4. c \in Conns /\ conn[c] \in Conn /\ conn[c].owner = w /\ conn[c].pending = {}
  BY <1>1, <1>3, InnermostDatabase
<1>5. q.owner = NoWorker /\ q.pending = {}
  BY <1>4 DEF Conn, Released, Closed
<1>6. Sets(c, q)
  BY <1>1, <1>4 DEF UnwindDatabase, LastConn, Sets, Released
<1> HIDE DEF q, c
<1>7. Effect(w, {})
  BY <1>3, <1>4, <1>5, <1>6, SetsQuiet
<1>8. run[w].mode \in Thrown
  BY DEF UnwindDatabase, Unwinding, Thrown
<1>9. run[w].mode = "broken" => broke'[w]
  BY <1>3, RFacts
<1> QED BY <1>2, <1>3, <1>7, <1>8, <1>9, UnwindPaced

LEMMA ReconnectPaced == ASSUME RInv, NEW w \in Workers, Reconnect(w) PROVE RInv'
<1> DEFINE f == Last(run[w].stack)
           c == LastConn(run[w].stack)
<1>1. IInv /\ conn \in [Conns -> Conn]
  BY DEF RInv, IInv, TypeOK
<1>2. IInv'
  BY <1>1, ReconnectStep
<1>3. /\ run[w].stack # <<>> /\ f.kind = "database" /\ UNCHANGED <<applied, broke>>
      /\ run[w].mode = "broken"
  BY DEF Reconnect, Within
<1>4. c \in Conns /\ conn[c] \in Conn /\ conn[c].owner = w /\ conn[c].pending = {}
  BY <1>1, <1>3, InnermostDatabase
<1>5. CASE f.tries = 1
  <2> DEFINE q == Released(Closed(conn[c]))
  <2>1. q.owner = NoWorker /\ q.pending = {}
    BY <1>4 DEF Conn, Released, Closed
  <2>2. Sets(c, q)
    BY <1>1, <1>4, <1>5 DEF Reconnect, LastConn, Sets, Released
  <2>3. Pop(w, run[w].pc, "error")
    BY <1>5 DEF Reconnect
  <2> HIDE DEF q, c
  <2>4. Effect(w, {})
    BY <1>3, <1>4, <2>1, <2>2, SetsQuiet
  <2>5. "error" \in Thrown /\ "error" # "broken"
    BY DEF Thrown
  <2> QED BY <1>2, <1>3, <2>3, <2>4, <2>5, UnwindPaced
<1>6. CASE f.tries # 1
  <2> DEFINE q == Closed(conn[c])
  <2>1. q.owner = w /\ q.pending = {}
    BY <1>4 DEF Conn, Closed
  <2>2. Sets(c, q)
    BY <1>1, <1>4, <1>6 DEF Reconnect, LastConn, Sets, Closed
  <2>3. Resumes(w, "connect", f.at + 1, f.tries - 1)
    BY <1>6 DEF Reconnect, Resumes
  <2> HIDE DEF q, c
  <2>4. Effect(w, {})
    BY <1>3, <1>4, <2>1, <2>2, SetsQuiet
  <2> QED BY <1>2, <1>3, <1>6, <2>3, <2>4, RetryPaced
<1> QED BY <1>5, <1>6

LEMMA BeginTransactionPaced == ASSUME RInv, NEW w \in Workers, BeginTransaction(w) PROVE RInv'
<1> DEFINE c == Visible(w, Instr(w).id)
           f == NewFrame(w, "transaction", c)
           q == [conn[c] EXCEPT !.tx = "open", !.state = "open"]
<1>1. IInv /\ conn \in [Conns -> Conn]
  BY DEF RInv, IInv, TypeOK
<1>2. IInv'
  BY <1>1, BeginTransactionStep
<1>3. /\ At(w, "transaction") /\ c # NoConn /\ Push(w, f, "run") /\ UNCHANGED <<applied, broke>>
  BY DEF BeginTransaction
<1>4. c \in Conns /\ conn[c].owner = w
  BY <1>1, <1>3, VisibleLeased
<1>5. f \in Frame
  BY <1>1, <1>3, <1>4, NewFrameTypes DEF Kinds
<1>6. f.kind = "transaction" /\ f.at = run[w].pc
  BY DEF NewFrame
<1>7. q.owner = w /\ q.id = conn[c].id /\ q.pending = conn[c].pending
  BY <1>1, <1>4 DEF Conn
<1>8. Sets(c, q)
  BY <1>1, <1>4 DEF BeginTransaction, Sets
<1> HIDE DEF c, f, q
<1>9. Effect(w, {})
  BY <1>3, <1>4, <1>7, <1>8, SetsQuiet
<1> QED BY <1>2, <1>3, <1>5, <1>6, <1>9, EnterPaced

LEMMA BeginTransactionFailsPaced ==
    ASSUME RInv, NEW w \in Workers, BeginTransactionFails(w) PROVE RInv'
<1> DEFINE c == Visible(w, Instr(w).id)
           s == run[w].stack
           q == [conn[c] EXCEPT !.state = "dead",
                                !.tx = IF @ = "none" THEN "none" ELSE "aborted", !.pending = {}]
<1>1. IInv /\ conn \in [Conns -> Conn] /\ s \in Seq(Frame)
  BY RFacts DEF IInv, TypeOK
<1>2. IInv'
  BY <1>1, BeginTransactionFailsStep
<1>3. At(w, "transaction") /\ Throw(w) /\ UNCHANGED <<applied, broke>>
  BY DEF BeginTransactionFails
<1>4. Turns(w, run[w].pc, s, "error")
  BY <1>1, <1>3, ThrowTurns
<1>5. Effect(w, {})
  <2>1. CASE conn' = conn
    BY <1>3, <2>1, SameGives, QuietStep
  <2>2. CASE /\ c # NoConn
             /\ conn' = [conn EXCEPT ![c].state = "dead",
                            ![c].tx = IF @ = "none" THEN "none" ELSE "aborted", ![c].pending = {}]
    <3>1. c \in Conns /\ conn[c].owner = w
      BY <1>1, <2>2, VisibleLeased
    <3>2. q.owner = w /\ q.pending = {}
      BY <1>1, <3>1 DEF Conn
    <3>3. Sets(c, q)
      BY <1>1, <2>2, <3>1 DEF Sets
    <3> HIDE DEF q, c
    <3> QED BY <1>3, <3>1, <3>2, <3>3, SetsQuiet
  <2> QED BY <2>1, <2>2 DEF BeginTransactionFails
<1>6. run[w].mode \notin Thrown /\ run[w].pc \in DOMAIN run[w].script /\ "error" \in Thrown
      /\ "error" # "broken"
  BY <1>3 DEF At, Thrown
<1>7. Same(s, s) /\ {} \subseteq {run[w].pc}
  BY SameItself
<1> QED BY <1>1, <1>2, <1>4, <1>5, <1>6, <1>7, ThrowPaced

LEMMA CommitTransactionPaced == ASSUME RInv, NEW w \in Workers, CommitTransaction(w) PROVE RInv'
<1> DEFINE c == LastConn(run[w].stack)
           q == [conn[c] EXCEPT !.tx = "none", !.pending = {}]
<1>1. IInv /\ conn \in [Conns -> Conn]
  BY DEF RInv, IInv, TypeOK
<1>2. IInv'
  BY <1>1, CommitTransactionStep
<1>3. /\ run[w].stack # <<>> /\ Last(run[w].stack).kind = "transaction" /\ At(w, "end")
      /\ Pop(w, run[w].pc + 1, "run") /\ broke' = broke
  BY DEF CommitTransaction, Within
<1>4. c \in Conns /\ conn[c] \in Conn /\ conn[c].owner = w
  BY <1>1, <1>3, InnermostTransaction
<1>5. q.owner = w /\ q.pending = {}
  BY <1>4 DEF Conn
<1>6. Sets(c, q)
  BY <1>1, <1>4, NoTxSets DEF CommitTransaction, LastConn, Sets
<1>7. Commit(w, conn[c].pending) \/ applied' = applied
  BY DEF CommitTransaction, LastConn
<1> HIDE DEF q, c
<1>8. Apiece(w)
  BY <1>1, <1>3, <1>7, BrokeApiece
<1>9. Effect(w, {})
  <2>1. CASE Commit(w, conn[c].pending)
    BY <1>4, <1>5, <1>6, <1>8, <2>1, CommitEffect
  <2>2. CASE applied' = applied
    BY <1>3, <1>4, <1>5, <1>6, <2>2, SetsQuiet
  <2> QED BY <1>7, <2>1, <2>2
<1> QED BY <1>2, <1>3, <1>9, LeavePaced

LEMMA CommitFailsPaced == ASSUME RInv, NEW w \in Workers, CommitFails(w) PROVE RInv'
<1> DEFINE c == LastConn(run[w].stack)
           q == [conn[c] EXCEPT !.tx = "none", !.pending = {}]
           d == [q EXCEPT !.state = "dead"]
           n == IF driver = "pgsql" THEN "broken" ELSE "error"
<1>1. IInv /\ conn \in [Conns -> Conn] /\ broke \in [Workers -> BOOLEAN]
  BY DEF RInv, IInv, TypeOK
<1>2. IInv'
  BY <1>1, CommitFailsStep
<1>3. run[w].stack # <<>> /\ Last(run[w].stack).kind = "transaction"
  BY DEF CommitFails, Within
<1>4. c \in Conns /\ conn[c] \in Conn /\ conn[c].owner = w
  BY <1>1, <1>3, InnermostTransaction
<1>5. q \in Conn /\ q.owner = w /\ q.pending = {}
  BY <1>4 DEF Conn
<1>6. d.owner = w /\ d.pending = {}
  BY <1>5 DEF Conn
<1>7. NoTx(c) = [conn EXCEPT ![c] = q]
  BY <1>1, <1>4, NoTxSets
<1> HIDE DEF q
<1>8. [NoTx(c) EXCEPT ![c].state = "dead"] = [conn EXCEPT ![c] = d]
  BY <1>1, <1>4, <1>7
<1> HIDE DEF d
<1>9. \/ conn' = NoTx(c) /\ Pop(w, run[w].pc, "error") /\ UNCHANGED <<applied, broke>>
      \/ /\ conn' = [NoTx(c) EXCEPT ![c].state = "dead"]
         /\ \/ /\ UNCHANGED applied /\ Pop(w, run[w].pc, n)
               /\ broke' = [broke EXCEPT ![w] = @ \/ driver = "pgsql"]
            \/ /\ Commit(w, conn[c].pending) /\ Pop(w, run[w].pc, "error") /\ UNCHANGED broke
  BY DEF CommitFails, LastConn
<1>10. n \in Thrown /\ "error" \in Thrown /\ "error" # "broken"
       /\ (n = "broken" => driver = "pgsql")
  BY DEF Thrown
<1> HIDE DEF c, n
<1>11. CASE conn' = NoTx(c) /\ Pop(w, run[w].pc, "error") /\ UNCHANGED <<applied, broke>>
  <2>1. Sets(c, q)
    BY <1>7, <1>11 DEF Sets
  <2>2. Effect(w, {})
    BY <1>4, <1>5, <1>11, <2>1, SetsQuiet
  <2> QED BY <1>2, <1>3, <1>10, <1>11, <2>2, UnwindPaced
<1>12. ASSUME conn' = [NoTx(c) EXCEPT ![c].state = "dead"], UNCHANGED applied,
              Pop(w, run[w].pc, n), broke' = [broke EXCEPT ![w] = @ \/ driver = "pgsql"]
       PROVE  RInv'
  <2>1. Sets(c, d)
    BY <1>8, <1>12 DEF Sets
  <2>2. Effect(w, {})
    BY <1>4, <1>6, <1>12, <2>1, SetsQuiet
  <2>3. n = "broken" => broke'[w]
    BY <1>1, <1>10, <1>12
  <2> QED BY <1>2, <1>3, <1>10, <1>12, <2>2, <2>3, UnwindPaced
<1>13. ASSUME conn' = [NoTx(c) EXCEPT ![c].state = "dead"], Commit(w, conn[c].pending),
              Pop(w, run[w].pc, "error"), UNCHANGED broke
       PROVE  RInv'
  <2>1. Sets(c, d)
    BY <1>8, <1>13 DEF Sets
  <2>2. Apiece(w)
    BY <1>1, <1>13, BrokeApiece
  <2>3. Effect(w, {})
    BY <1>4, <1>6, <1>13, <2>1, <2>2, CommitEffect
  <2> QED BY <1>2, <1>3, <1>10, <1>13, <2>3, UnwindPaced
<1> QED BY <1>9, <1>11, <1>12, <1>13

LEMMA UnwindTransactionPaced == ASSUME RInv, NEW w \in Workers, UnwindTransaction(w) PROVE RInv'
<1> DEFINE c == LastConn(run[w].stack)
           q == [conn[c] EXCEPT !.tx = "none", !.pending = {}]
<1>1. IInv /\ conn \in [Conns -> Conn]
  BY DEF RInv, IInv, TypeOK
<1>2. IInv'
  BY <1>1, UnwindTransactionStep
<1>3. /\ run[w].stack # <<>> /\ Last(run[w].stack).kind = "transaction"
      /\ Pop(w, run[w].pc, run[w].mode) /\ UNCHANGED <<applied, broke>>
  BY DEF UnwindTransaction, Within
<1>4. c \in Conns /\ conn[c] \in Conn /\ conn[c].owner = w
  BY <1>1, <1>3, InnermostTransaction
<1>5. q.owner = w /\ q.pending = {}
  BY <1>4 DEF Conn
<1>6. Sets(c, q)
  BY <1>1, <1>4, NoTxSets DEF UnwindTransaction, LastConn, Sets
<1> HIDE DEF q, c
<1>7. Effect(w, {})
  BY <1>3, <1>4, <1>5, <1>6, SetsQuiet
<1>8. run[w].mode \in Thrown
  BY DEF UnwindTransaction, Unwinding, Thrown
<1>9. run[w].mode = "broken" => broke'[w]
  BY <1>3, RFacts
<1> QED BY <1>2, <1>3, <1>7, <1>8, <1>9, UnwindPaced

LEMMA LeavePlainPaced == ASSUME RInv, NEW w \in Workers, LeavePlain(w) PROVE RInv'
<1>1. IInv
  BY DEF RInv
<1>2. IInv'
  BY <1>1, LeavePlainStep
<1>3. /\ run[w].stack # <<>> /\ At(w, "end") /\ Pop(w, run[w].pc + 1, "run")
      /\ UNCHANGED <<conn, applied, broke>>
  BY DEF LeavePlain, Within
<1>4. Effect(w, {})
  BY <1>3, SameGives, QuietStep
<1> QED BY <1>2, <1>3, <1>4, LeavePaced

LEMMA UnwindPlainPaced == ASSUME RInv, NEW w \in Workers, UnwindPlain(w) PROVE RInv'
<1>1. IInv
  BY DEF RInv
<1>2. IInv'
  BY <1>1, UnwindPlainStep
<1>3. /\ run[w].stack # <<>> /\ UNCHANGED <<conn, applied, broke>>
      /\ \/ Pop(w, run[w].pc, run[w].mode)
         \/ Pop(w, EndOf(run[w].script, Last(run[w].stack).at) + 1, "run")
  BY DEF UnwindPlain, Within
<1>4. Effect(w, {})
  BY <1>3, SameGives, QuietStep
<1>5. run[w].mode \in Thrown
  BY DEF UnwindPlain, Unwinding, Thrown
<1>6. run[w].mode = "broken" => broke'[w]
  BY <1>3, RFacts
<1>7. CASE Pop(w, run[w].pc, run[w].mode)
  BY <1>2, <1>3, <1>4, <1>5, <1>6, <1>7, UnwindPaced
<1>8. CASE Pop(w, EndOf(run[w].script, Last(run[w].stack).at) + 1, "run")
  BY <1>2, <1>3, <1>4, <1>8, CatchPaced
<1> QED BY <1>3, <1>7, <1>8

LEMMA QueryPaced == ASSUME RInv, NEW w \in Workers, Query(w) PROVE RInv'
<1> DEFINE i == Instr(w)
           c == Target(w, i.id)
           p == run[w].pc
           u == i.stmt = "update"
           s == run[w].stack
           t == Done(w, c, p, i.stmt)
           f == NewFrame(w, "query", NoConn)
           S == IF u THEN {p} ELSE {}
<1>1. IInv /\ conn \in [Conns -> Conn]
  BY DEF RInv, IInv, TypeOK
<1>2. IInv'
  BY <1>1, QueryStep
<1>3. At(w, "query") /\ c # NoConn /\ c = Visible(w, i.id) /\ broke' = broke
  BY DEF Query
<1>4. run[w].mode = "run" /\ s \in Seq(Frame) /\ p \in Positions /\ i = run[w].script[p]
  BY <1>1, <1>3, Facts, AtTypes
<1>5. /\ c \in Conns /\ conn[c].owner = w /\ conn[c] \in Conn /\ conn[c].id = i.id
      /\ conn[c].tx # "open" => conn[c].pending = {}
  <2>1. PICK k \in DOMAIN s : /\ s[k].kind = "database" /\ s[k].conn = Visible(w, i.id)
                              /\ s[k].id = i.id /\ Visible(w, i.id) \in Conns
                              /\ conn[Visible(w, i.id)].owner = w
    BY <1>1, <1>3, VisibleLeased
  <2>2. Leases(conn, w, s, run[w].mode)
    BY <1>1, Facts DEF Held
  <2>3. conn[s[k].conn].id = s[k].id
    BY <2>1, <2>2 DEF Leases
  <2>4. c \in Conns /\ conn[c].owner = w /\ conn[c].id = i.id
    BY <1>3, <2>1, <2>3
  <2>5. conn[c].tx # "open" => conn[c].pending = {}
    BY <1>1, <2>4 DEF IInv, Clean
  <2> QED BY <1>1, <2>4, <2>5
<1>6. f \in Frame /\ f.kind = "query" /\ f.at = p
  <2>1. f \in Frame
    BY <1>1, <1>3, NewFrameTypes DEF Kinds
  <2> QED BY <2>1 DEF NewFrame
<1>7. t \in Seq(Frame) /\ Same(s, t)
  <2>1. t \in Seq(Frame) /\ Updated(s, t, c, p, i.stmt)
    BY <1>1, <1>4, DoneFrames
  <2> HIDE DEF t, s
  <2> QED BY <2>1 DEF Updated, Same, Alike
<1>7a. PICK y \in BOOLEAN :
         conn' = [conn EXCEPT ![c].state = "open", ![c].changes = y,
                    ![c].pending = IF u /\ conn[c].tx = "open" THEN @ \cup {p} ELSE @]
  <2>1. Changes(c, i.stmt) \subseteq BOOLEAN
    BY <1>5 DEF Changes, Conn
  <2> QED
    BY <2>1 DEF Query
<1> DEFINE q == [conn[c] EXCEPT !.state = "open", !.changes = y,
                                !.pending = IF u /\ conn[c].tx = "open" THEN @ \cup {p} ELSE @]
<1>8. Sets(c, q)
  BY <1>1, <1>5, <1>7a DEF Sets
<1>9. /\ q.owner = w /\ q.id = conn[c].id
      /\ q.pending = IF u /\ conn[c].tx = "open" THEN conn[c].pending \cup {p}
                                                 ELSE conn[c].pending
  BY <1>5 DEF Conn
<1>10. Turns(w, p + 1, Append(t, f), "run") \/ Turns(w, EndOf(run[w].script, p) + 1, t, "run")
  <2>1. \/ Goes(w, [run[w] EXCEPT !.pc = p + 1, !.stack = Append(t, f)])
        \/ Goes(w, [run[w] EXCEPT !.pc = EndOf(run[w].script, p) + 1, !.stack = t])
    BY DEF Query, Done
  <2> QED BY <1>1, <1>4, <2>1, Facts DEF Turns, Run
<1>11. IF u /\ conn[c].tx = "none" THEN Commit(w, {p}) ELSE applied' = applied
  BY DEF Query
<1> HIDE DEF q, t, f, c, u
<1>12. Apiece(w)
  BY <1>1, <1>3, <1>11, BrokeApiece
<1>13. Effect(w, S)
  <2>1. CASE u /\ conn[c].tx = "none"
    <3>1. S = {p} /\ q.pending = {}
      BY <1>5, <1>9, <2>1
    <3> HIDE DEF S, p, i
    <3>2. Gives(conn, conn', w, run[w].script, {})
      BY <1>1, <1>5, <1>8, <1>9, <3>1, SetsGives
    <3> QED BY <1>1, <1>11, <1>12, <2>1, <3>1, <3>2, AloneEffect
  <2>2. CASE ~(u /\ conn[c].tx = "none")
    <3>1. \A x \in q.pending : x \in conn[c].pending \/ (x \in S /\ run[w].script[x].id = q.id)
      BY <1>4, <1>5, <1>9
    <3> HIDE DEF S, p, i
    <3>2. Gives(conn, conn', w, run[w].script, S)
      BY <1>1, <1>5, <1>8, <1>9, <3>1, SetsGives
    <3> QED BY <1>1, <1>11, <1>12, <2>2, <3>2, QuietEffect
  <2> QED BY <2>1, <2>2
<1>14. S \subseteq {p} /\ "query" # "end"
  OBVIOUS
<1> HIDE DEF S, i
<1>15. CASE Turns(w, EndOf(run[w].script, p) + 1, t, "run")
  BY <1>2, <1>3, <1>7, <1>13, <1>14, <1>15, SkipPaced
<1>16. CASE Turns(w, p + 1, Append(t, f), "run")
  BY <1>2, <1>3, <1>6, <1>7, <1>13, <1>14, <1>16, PushPaced
<1> QED BY <1>10, <1>15, <1>16

LEMMA QueryFailsPaced == ASSUME RInv, NEW w \in Workers, QueryFails(w) PROVE RInv'
<1> DEFINE c == Target(w, Instr(w).id)
           s == run[w].stack
           t == Failed(w, c)
           p == run[w].pc
<1>1. IInv /\ conn \in [Conns -> Conn] /\ s \in Seq(Frame)
  BY RFacts DEF IInv, TypeOK
<1>2. IInv'
  BY <1>1, QueryFailsStep
<1>3. At(w, "query") /\ broke' = broke
  BY DEF QueryFails
<1>4. run[w].mode \notin Thrown /\ p \in DOMAIN run[w].script /\ "error" \in Thrown
      /\ "error" # "broken" /\ run[w].mode = "run"
  BY <1>3 DEF At, Thrown
<1>5. CASE UNCHANGED <<conn, applied>> /\ Throw(w)
  <2>1. Turns(w, p, s, "error")
    BY <1>1, <1>5, ThrowTurns
  <2>2. Effect(w, {})
    BY <1>3, <1>5, SameGives, QuietStep
  <2>3. Same(s, s) /\ {} \subseteq {p}
    BY SameItself
  <2> QED BY <1>1, <1>2, <1>4, <2>1, <2>2, <2>3, ThrowPaced
<1>6. CASE c # NoConn /\ c = Visible(w, Instr(w).id)
  <2>1. c \in Conns /\ conn[c].owner = w /\ conn[c] \in Conn
    BY <1>1, <1>6, VisibleLeased
  <2>2. t \in Seq(Frame) /\ Same(s, t)
    <3>1. t \in Seq(Frame) /\ Refused(s, t, c)
      BY <1>1, FailedFrames
    <3> HIDE DEF t, s
    <3> QED BY <3>1 DEF Refused, Same, Alike
  <2>3. Turns(w, p, t, "error")
    <3>1. Goes(w, [run[w] EXCEPT !.mode = "error", !.stack = t])
      BY <1>6 DEF QueryFails, Failed
    <3> QED BY <1>1, <1>4, <3>1, Facts DEF Turns, Run
  <2>4. applied' = applied \/ Commit(w, {p})
    BY <1>6 DEF QueryFails
  <2>5. \E st :
          \/ conn' = [conn EXCEPT ![c].state = st]
          \/ conn' = NoTx(c)
          \/ conn' = [conn EXCEPT ![c].state = st, ![c].tx = "aborted", ![c].pending = {}]
    BY <1>6 DEF QueryFails
  <2> HIDE DEF c, t
  <2>6. PICK st :
          \/ conn' = [conn EXCEPT ![c].state = st]
          \/ conn' = NoTx(c)
          \/ conn' = [conn EXCEPT ![c].state = st, ![c].tx = "aborted", ![c].pending = {}]
    BY <2>5
  <2>7. ASSUME NEW q, Sets(c, q), q.owner = w, q.id = conn[c].id,
               q.pending \subseteq conn[c].pending
        PROVE  Gives(conn, conn', w, run[w].script, {})
    <3>1. conn'[c] = q /\ \A d \in Conns : d # c => conn'[d] = conn[d]
      BY <1>1, <2>1, <2>7 DEF Sets
    <3> QED BY <2>1, <2>7, <3>1 DEF Gives
  <2>8. ASSUME conn' = [conn EXCEPT ![c].state = st]
        PROVE  Gives(conn, conn', w, run[w].script, {})
    <3> DEFINE q == [conn[c] EXCEPT !.state = st]
    <3>1. Sets(c, q)
      BY <1>1, <2>1, <2>8 DEF Sets
    <3>2. q.owner = w /\ q.id = conn[c].id /\ q.pending = conn[c].pending
      BY <2>1 DEF Conn
    <3> HIDE DEF q
    <3> QED BY <2>7, <3>1, <3>2
  <2>9. ASSUME conn' = NoTx(c)
        PROVE  Gives(conn, conn', w, run[w].script, {})
    <3> DEFINE q == [conn[c] EXCEPT !.tx = "none", !.pending = {}]
    <3>1. Sets(c, q)
      BY <1>1, <2>1, <2>9, NoTxSets DEF Sets
    <3>2. q.owner = w /\ q.id = conn[c].id /\ q.pending = {}
      BY <2>1 DEF Conn
    <3> HIDE DEF q
    <3> QED BY <2>7, <3>1, <3>2
  <2>10. ASSUME conn' = [conn EXCEPT ![c].state = st, ![c].tx = "aborted", ![c].pending = {}]
         PROVE  Gives(conn, conn', w, run[w].script, {})
    <3> DEFINE q == [conn[c] EXCEPT !.state = st, !.tx = "aborted", !.pending = {}]
    <3>1. [conn EXCEPT ![c].state = st, ![c].tx = "aborted", ![c].pending = {}]
            = [conn EXCEPT ![c] = q]
      BY <1>1, <2>1
    <3>2. q.owner = w /\ q.id = conn[c].id /\ q.pending = {}
      BY <2>1 DEF Conn
    <3> HIDE DEF q
    <3>3. Sets(c, q)
      BY <2>10, <3>1 DEF Sets
    <3> QED BY <2>7, <3>2, <3>3
  <2>11. Gives(conn, conn', w, run[w].script, {})
    BY <2>6, <2>8, <2>9, <2>10, Zenon
  <2>12. Apiece(w)
    BY <1>1, <1>3, <2>4, BrokeApiece
  <2>13. CASE applied' = applied
    <3>1. Effect(w, {}) /\ {} \subseteq {p}
      BY <1>1, <2>11, <2>12, <2>13, QuietEffect
    <3> QED BY <1>2, <1>4, <2>2, <2>3, <3>1, ThrowPaced
  <2>14. CASE Commit(w, {p})
    <3>1. Effect(w, {p}) /\ {p} \subseteq {p}
      BY <1>1, <2>11, <2>12, <2>14, AloneEffect
    <3> QED BY <1>2, <1>4, <2>2, <2>3, <3>1, ThrowPaced
  <2> QED BY <2>4, <2>13, <2>14
<1>7. \/ UNCHANGED <<conn, applied>> /\ Throw(w)
      \/ c # NoConn /\ c = Visible(w, Instr(w).id)
  BY DEF QueryFails
<1> QED BY <1>5, <1>6, <1>7

LEMMA StepPaced == ASSUME RInv, NEW w \in Workers, Step(w) PROVE RInv'
BY FinishPaced, EnterTryPaced, EnterDatabasePaced, ConnectPaced, ConnectFailsPaced,
   LeaveDatabasePaced, UnwindDatabasePaced, ReconnectPaced, BeginTransactionPaced,
   BeginTransactionFailsPaced, CommitTransactionPaced, CommitFailsPaced,
   UnwindTransactionPaced, QueryPaced, QueryFailsPaced, LeavePlainPaced, UnwindPlainPaced
   DEF Step

LEMMA InitPaced == Init => RInv
<1> SUFFICES ASSUME Init PROVE RInv
  OBVIOUS
<1>1. IInv
  BY InitSound
<1> SUFFICES ASSUME NEW w \in Workers PROVE Paced(conn, w, run[w], applied[w], broke[w])
  BY <1>1 DEF RInv
<1>2. run[w] = Idle /\ applied[w] = NothingApplied /\ ~broke[w]
  BY DEF Init
<1>3. \A c \in Conns : conn[c].owner # w
  <2>1. NoWorker \notin Workers
    BY DatabaseAssumption
  <2> QED BY <2>1 DEF Init, Unused
<1>4. /\ Idle.stack = <<>> /\ Idle.pc = 1 /\ Idle.script = <<>> /\ Idle.mode = "idle"
  BY DEF Idle
<1>5. ASSUME NEW p \in Positions PROVE Made(conn, w, applied[w], p) = 0
  BY <1>2, <1>3 DEF Made, NothingApplied
<1>6. Place(Idle) = 1
  BY <1>4 DEF Place, Reach, Thrown
<1>7. Limited(conn, w, Idle, applied[w])
  <2> SUFFICES ASSUME NEW p \in Positions
               PROVE  Bounded(<<>>, <<>>, 1, p, Made(conn, w, applied[w], p))
    BY <1>4, <1>6 DEF Limited
  <2>1. Bounded(<<>>, <<>>, 1, p, 0)
    BY PositionPositive, NoneBounded
  <2> QED BY <1>5, <2>1
<1>8. MadeOnce(conn, w, Idle, applied[w])
  BY <1>5, <1>6 DEF MadeOnce
<1>9. Own(conn, w, Idle.script)
  BY <1>3 DEF Own
<1>10. Inside(Idle.script, Idle.stack, Idle.pc, Idle.mode) /\ Distinct(Idle.stack)
  <2>1. DOMAIN Idle.stack = {}
    BY <1>4
  <2> QED BY <1>4, <2>1 DEF Inside, Distinct
<1>11. Idle.mode # "broken"
  BY <1>4
<1> HIDE DEF Idle
<1> QED BY <1>2, <1>7, <1>8, <1>9, <1>10, <1>11 DEF Paced

LEMMA PacedRepeats ==
    ASSUME RInv, NEW w \in Workers, NEW p \in Positions
    PROVE  /\ applied[w][p] <= Repeats[Cardinality(Ids)]
           /\ applied[w][p] > 1 => broke[w]
<1> DEFINE n == Made(conn, w, applied[w], p)
           g == Place(run[w])
           s == run[w].stack
<1>1. IInv /\ Paced(conn, w, run[w], applied[w], broke[w])
  BY DEF RInv
<1>2. Distinct(s) /\ g \in Nat /\ s \in Seq(Frame)
  BY RFacts
<1>3. applied[w] \in [Positions -> Nat]
  BY <1>1, Facts
<1>4. n \in Nat /\ applied[w][p] \in Nat /\ applied[w][p] <= n
  BY <1>3, MadeTypes
<1>5. Bounded(run[w].script, s, g, p, n) /\ p \in Nat
  BY <1>1, PositionTypes DEF Paced, Limited
<1>6. \A i \in DOMAIN s : s[i].kind = "database" => s[i].tries \in 1..3 /\ s[i].id \in Ids
  BY <1>1, DatabaseFrames
<1>7. ~broke[w] => n <= 1
  <2>1. ASSUME ~broke[w] PROVE n <= IF p < g THEN 1 ELSE 0
    BY <1>1, <2>1 DEF Paced, MadeOnce
  <2> HIDE DEF n
  <2> QED BY <1>4, <2>1
<1> HIDE DEF n, g
<1>8. n <= Repeats[Cardinality(Ids)]
  BY <1>2, <1>4, <1>5, <1>6, BoundedRepeats
<1>9. Repeats[Cardinality(Ids)] \in Nat
  <2>1. Cardinality(Ids) \in Nat
    BY DatabaseAssumption, FS_CardinalityType
  <2> QED BY <2>1, RepeatsValues
<1> QED BY <1>4, <1>7, <1>8, <1>9

\* A script whose connections did not break makes each of its updates at most once, and
\* another one at most three times as often for each database whose tag can be around
\* it: tag_database::execute repeats its content for pqxx::broken_connection alone, and
\* gives up after the third attempt.
THEOREM UpdatesRepeated == Spec => []RepeatedOnlyWhenBroken
<1>1. Init => RInv
  BY InitPaced
<1>2. RInv /\ [Next]_vars => RInv'
  <2> SUFFICES ASSUME RInv, [Next]_vars PROVE RInv'
    OBVIOUS
  <2>1. ASSUME NEW w \in Workers, Start(w) PROVE RInv'
    BY <2>1, StartPaced
  <2>2. ASSUME NEW w \in Workers, Step(w) PROVE RInv'
    BY <2>2, StepPaced
  <2>3. CASE UNCHANGED vars
    <3>1. IInv'
      BY <2>3 DEF RInv, vars, IInv, TypeOK
    <3>2. run' = run /\ conn' = conn /\ applied' = applied /\ broke' = broke
      BY <2>3 DEF vars
    <3> QED BY <3>1, <3>2 DEF RInv
  <2> QED BY <2>1, <2>2, <2>3 DEF Next
<1>3. RInv => RepeatedOnlyWhenBroken
  BY PacedRepeats DEF RepeatedOnlyWhenBroken
<1> QED BY <1>1, <1>2, <1>3, PTL DEF Spec

================================================================================
