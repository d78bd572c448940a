---------------------------- MODULE ServerProofs ----------------------------
(***************************************************************************)
(* Proofs about Server for every number of clients, threads, queue slots   *)
(* and backlog entries and every configuration: who has a connection, what *)
(* is held for it, and what a connection is closed with.                   *)
(***************************************************************************)
EXTENDS Server, FiniteSetTheorems, SequenceTheorems, TLAPS

-----------------------------------------------------------------------------
(* Queues in which everything is once.                                     *)

\* The elements of a sequence.
Elements(s) == {s[n] : n \in 1..Len(s)}

\* A newcomer at the end of a queue.
LEMMA AppendOnce ==
  ASSUME NEW S, NEW s \in Seq(S), NEW e \in S, NoneTwice(s), e \notin Elements(s)
  PROVE  /\ Append(s, e) \in Seq(S)
         /\ Len(Append(s, e)) = Len(s) + 1
         /\ NoneTwice(Append(s, e))
         /\ Elements(Append(s, e)) = Elements(s) \cup {e}
<1> DEFINE q == Append(s, e)
<1>1. /\ Len(s) \in Nat /\ q \in Seq(S) /\ Len(q) = Len(s) + 1
      /\ \A n \in 1..Len(s) : q[n] = s[n]
      /\ q[Len(s) + 1] = e
  BY AppendProperties, LenProperties
<1>2. \A n \in 1..Len(q) : n \in 1..Len(s) \/ n = Len(s) + 1
  BY <1>1
<1>3. NoneTwice(q)
  BY <1>1, <1>2 DEF NoneTwice, Elements
<1>4. Elements(q) = Elements(s) \cup {e}
  <2>1. Elements(q) \subseteq Elements(s) \cup {e}
    BY <1>1, <1>2 DEF Elements
  <2>2. Elements(s) \subseteq Elements(q)
    BY <1>1 DEF Elements
  <2>3. e \in Elements(q)
    <3>1. Len(s) + 1 \in 1..Len(q)  BY <1>1
    <3>2. QED  BY <3>1, <1>1 DEF Elements
  <2>4. QED  BY <2>1, <2>2, <2>3
<1>5. QED  BY <1>1, <1>3, <1>4

\* The head of a queue leaves it.
LEMMA TailOnce ==
  ASSUME NEW S, NEW s \in Seq(S), s # <<>>, NoneTwice(s)
  PROVE  /\ Tail(s) \in Seq(S)
         /\ Len(Tail(s)) = Len(s) - 1
         /\ NoneTwice(Tail(s))
         /\ Head(s) \in Elements(s) \cap S
         /\ Elements(Tail(s)) = Elements(s) \ {Head(s)}
<1> DEFINE q == Tail(s)
<1>1. /\ Len(s) \in Nat \ {0} /\ q \in Seq(S) /\ Len(q) = Len(s) - 1
      /\ \A n \in 1..Len(q) : q[n] = s[n + 1]
      /\ Head(s) = s[1] /\ Head(s) \in S
  BY HeadTailProperties, EmptySeq, LenProperties
<1>2. \A n \in 1..Len(q) : n + 1 \in 1..Len(s) /\ n + 1 # 1
  BY <1>1
<1>3. 1 \in 1..Len(s)
  BY <1>1
<1>4. NoneTwice(q)
  <2> SUFFICES ASSUME NEW m \in 1..Len(q), NEW n \in 1..Len(q), q[m] = q[n]
               PROVE  m = n
    BY DEF NoneTwice
  <2>1. s[m + 1] = s[n + 1]  BY <1>1
  <2>2. m + 1 = n + 1  BY <2>1, <1>2 DEF NoneTwice
  <2>3. QED  BY <2>2
<1>5. Elements(q) = Elements(s) \ {Head(s)}
  <2>1. Elements(q) \subseteq Elements(s) \ {Head(s)}
    BY <1>1, <1>2, <1>3 DEF Elements, NoneTwice
  <2>2. ASSUME NEW x \in Elements(s) \ {Head(s)}
        PROVE  x \in Elements(q)
    <3>1. PICK n \in 1..Len(s) : x = s[n]  BY DEF Elements
    <3>2. n # 1 /\ n - 1 \in 1..Len(q) /\ (n - 1) + 1 = n  BY <3>1, <1>1
    <3>3. QED  BY <3>1, <3>2, <1>1 DEF Elements
  <2>3. QED  BY <2>1, <2>2
<1>6. QED  BY <1>1, <1>3, <1>4, <1>5 DEF Elements

\* Nobody waits in an empty queue.
LEMMA EmptyQueue == <<>> \in Seq(Conns) /\ Len(<<>>) = 0 /\ NoneTwice(<<>>) /\ Elements(<<>>) = {}
BY EmptySeq DEF NoneTwice, Elements

-----------------------------------------------------------------------------
(* What an owner holds, said without counting owners.                      *)

Owned(c) == new_socket = c \/ c \in Elements(pending) \/ c \in running

Session == {"fd"} \cup (IF config.https THEN {"ssl"} ELSE {})

HeldAsOwned ==
  \A c \in Conns :
    held[c] = IF ~ Owned(c) THEN {}
              ELSE Session \cup (IF new_socket = c THEN {} ELSE {"args"})

\* Where nobody is twice there is one owner at most, and HeldByOneOwner is
\* HeldAsOwned.
LEMMA OneOwnerHolds ==
  OneOwner => (HeldByOneOwner <=> HeldAsOwned)
<1> SUFFICES ASSUME OneOwner PROVE HeldByOneOwner <=> HeldAsOwned
  OBVIOUS
<1>1. ASSUME NEW c \in Conns
      PROVE  /\ Cardinality(Owners(c)) <= 1
             /\ Owners(c) = {} <=> ~ Owned(c)
  <2>1. /\ "main" \in Owners(c) <=> new_socket = c
        /\ "queue" \in Owners(c) <=> c \in Elements(pending)
        /\ "worker" \in Owners(c) <=> c \in running
        /\ Owners(c) \subseteq {"main", "queue", "worker"}
    BY DEF Owners, Pool!Queued, Elements
  <2>2. /\ ~ (new_socket = c /\ c \in Elements(pending))
        /\ ~ (new_socket = c /\ c \in running)
        /\ ~ (c \in Elements(pending) /\ c \in running)
    BY DEF OneOwner, Pool!Queued, Elements
  <2>3. Owners(c) = {} \/ \E o \in {"main", "queue", "worker"} : Owners(c) = {o}
    BY <2>1, <2>2
  <2>4. Cardinality(Owners(c)) <= 1
    <3>1. CASE Owners(c) = {}  BY <3>1, FS_EmptySet
    <3>2. CASE \E o \in {"main", "queue", "worker"} : Owners(c) = {o}
      BY <3>2, FS_Singleton
    <3>3. QED  BY <2>3, <3>1, <3>2
  <2>5. QED  BY <2>1, <2>4 DEF Owned
<1>2. QED  BY <1>1 DEF HeldByOneOwner, HeldAsOwned, Session

\* The parts of the invariant that speak of queues, said of their elements.
Places ==
  /\ NoneTwice(backlog) /\ NoneTwice(pending)
  /\ \A c \in Conns :
       /\ new_socket = c => c \notin Elements(backlog) \cup Elements(pending) \cup running
       /\ c \in Elements(pending) => c \notin Elements(backlog) \cup running
       /\ c \in running => c \notin Elements(backlog)

Strangers ==
  \A c \in Conns : client[c] = "away" =>
    c # new_socket /\ c \notin Elements(backlog) \cup Elements(pending) \cup running

\* What the lemmas below show of each action.
JInv ==
  /\ TypeOK
  /\ HandFull
  /\ Places
  /\ Strangers
  /\ NothingWhenDown
  /\ HeldAsOwned
  /\ CleanupHasReason

\* JInv is IInv.
LEMMA SameInvariant == IInv <=> JInv
<1>1. OneOwner <=> Places
  BY DEF OneOwner, Places, Waiting, Pool!Queued, Elements
<1>2. StrangersNowhere <=> Strangers
  BY DEF StrangersNowhere, Strangers, Waiting, Pool!Queued, Elements
<1>3. QED  BY <1>1, <1>2, OneOwnerHolds DEF IInv, JInv

-----------------------------------------------------------------------------
(* The process.                                                            *)

\* Before the first start the invariant holds.
LEMMA InitInv ==
  ASSUME Init
  PROVE  JInv
<1> USE ServerAssumption, EmptyQueue DEF Init, Pool!Init
<1>1. TypeOK
  BY DEF TypeOK, Pool!TypeOK, MainAt, ServerAt, Pool!Phases
<1>2. Places /\ Strangers /\ NothingWhenDown /\ HandFull
  BY DEF Places, Strangers, NothingWhenDown, HandFull
<1>3. HeldAsOwned /\ CleanupHasReason
  BY DEF HeldAsOwned, Owned, CleanupHasReason
<1>4. QED  BY <1>1, <1>2, <1>3 DEF JInv

\* The kernel takes everything back.
LEMMA DiesInv ==
  ASSUME JInv, NEW how \in {"down", "killed"}, Dies(how)
  PROVE  JInv'
<1> USE DEF JInv, Dies, clients
<1> USE ServerAssumption, EmptyQueue
<1>1. TypeOK'
  BY DEF TypeOK, Pool!TypeOK, MainAt, ServerAt, Pool!Phases
<1>2. HandFull'
  BY DEF HandFull, TypeOK
<1>3. Places'
  BY DEF Places
<1>4. Strangers'
  BY DEF Strangers
<1>5. NothingWhenDown'
  BY DEF NothingWhenDown, HandFull
<1>6. HeldAsOwned'
  BY DEF HeldAsOwned, Owned, TypeOK
<1>7. CleanupHasReason'
  BY DEF CleanupHasReason, TypeOK
<1>8. QED  BY ONLY <1>1, <1>2, <1>3, <1>4, <1>5, <1>6, <1>7 DEF JInv

\* The next process starts with nothing.
LEMMA StartInv ==
  ASSUME JInv, Start
  PROVE  JInv'
<1> USE DEF JInv, Start, clients, serving, pool
<1>1. TypeOK'
  BY ServerAssumption DEF TypeOK, Pool!TypeOK
<1>2. HandFull'
  BY DEF HandFull, TypeOK
<1>3. Places'
  BY DEF Places
<1>4. Strangers'
  BY DEF Strangers
<1>5. NothingWhenDown'
  BY DEF NothingWhenDown, HandFull
<1>6. HeldAsOwned'
  BY EmptyQueue, ServerAssumption DEF HeldAsOwned, Owned, NothingWhenDown
<1>7. CleanupHasReason'
  BY DEF CleanupHasReason, TypeOK
<1>8. QED  BY ONLY <1>1, <1>2, <1>3, <1>4, <1>5, <1>6, <1>7 DEF JInv

\* CreatePool changes the pool's phase, and no connection.
LEMMA CreatePoolInv ==
  ASSUME JInv, CreatePool
  PROVE  JInv'
<1> USE DEF JInv, CreatePool, Pool!Open, clients, serving, pool
<1>1. TypeOK'
  BY DEF TypeOK, Pool!TypeOK, MainAt, ServerAt, Pool!Phases
<1>2. HandFull'
  BY DEF HandFull, TypeOK
<1>3. Places'
  BY DEF Places
<1>4. Strangers'
  BY DEF Strangers
<1>5. NothingWhenDown'
  BY DEF NothingWhenDown, HandFull
<1>6. HeldAsOwned'
  BY DEF HeldAsOwned, Owned, Session, TypeOK
<1>7. CleanupHasReason'
  BY DEF CleanupHasReason, TypeOK
<1>8. QED  BY ONLY <1>1, <1>2, <1>3, <1>4, <1>5, <1>6, <1>7 DEF JInv

\* Listen preserves the invariant.
LEMMA ListenInv ==
  ASSUME JInv, Listen
  PROVE  JInv'
<1> USE DEF JInv, Listen, clients, serving, pool
<1>1. TypeOK'
  BY DEF TypeOK, Pool!TypeOK, MainAt, ServerAt, Pool!Phases
<1>2. HandFull'
  BY DEF HandFull, TypeOK
<1>3. Places'
  BY DEF Places
<1>4. Strangers'
  BY DEF Strangers
<1>5. NothingWhenDown'
  BY DEF NothingWhenDown, HandFull
<1>6. HeldAsOwned'
  BY DEF HeldAsOwned, Owned, Session
<1>7. CleanupHasReason'
  BY DEF CleanupHasReason, TypeOK
<1>8. QED  BY ONLY <1>1, <1>2, <1>3, <1>4, <1>5, <1>6, <1>7 DEF JInv

-----------------------------------------------------------------------------
(* The accept loop.                                                        *)

\* main takes the oldest connection out of the backlog.
LEMMA AcceptInv ==
  ASSUME JInv, Accept
  PROVE  JInv'
<1> USE DEF JInv, Accept, clients, serving, pool
<1>a. /\ backlog \in Seq(Conns) /\ NoneTwice(backlog)
      /\ Head(backlog) \in Conns /\ Head(backlog) \in Elements(backlog)
      /\ backlog' \in Seq(Conns) /\ Len(backlog') = Len(backlog) - 1 /\ Len(backlog) \in Nat
      /\ NoneTwice(backlog')
      /\ Elements(backlog') = Elements(backlog) \ {Head(backlog)}
  BY TailOnce, LenProperties DEF TypeOK, Places
<1>1. TypeOK'
  BY <1>a, ServerAssumption DEF TypeOK, Pool!TypeOK, MainAt
<1>2. HandFull'
  BY <1>a, ServerAssumption DEF HandFull
<1>3. Places'
  BY <1>a DEF Places
<1>4. Strangers'
  BY <1>a DEF Strangers
<1>5. NothingWhenDown'
  BY DEF NothingWhenDown, HandFull
<1>6. HeldAsOwned'
  <2>1. new_socket \notin Conns  BY ServerAssumption DEF HandFull
  <2>2. /\ \A x \in Conns : Owned(x)' <=> Owned(x) \/ x = Head(backlog)
        /\ ~ Owned(Head(backlog))
    BY <1>a, <2>1 DEF Owned, Places
  <2>3. \A x \in Conns : held'[x] = IF x = Head(backlog) THEN Session ELSE held[x]
    BY DEF TypeOK, Session
  <2>4. Session' = Session  BY DEF Session
  <2>5. QED  BY <1>a, <2>1, <2>2, <2>3, <2>4 DEF HeldAsOwned
<1>7. CleanupHasReason'
  BY DEF CleanupHasReason, TypeOK
<1>8. QED  BY ONLY <1>1, <1>2, <1>3, <1>4, <1>5, <1>6, <1>7 DEF JInv

\* Handshake preserves the invariant.
LEMMA HandshakeInv ==
  ASSUME JInv, NEW c \in Conns, Handshake(c)
  PROVE  JInv'
<1> USE DEF JInv, Handshake, clients, serving, pool
<1>1. TypeOK'
  BY DEF TypeOK, Pool!TypeOK, MainAt, ServerAt, Pool!Phases
<1>2. HandFull'
  BY DEF HandFull, TypeOK
<1>3. Places'
  BY DEF Places
<1>4. Strangers'
  BY DEF Strangers
<1>5. NothingWhenDown'
  BY DEF NothingWhenDown, HandFull
<1>6. HeldAsOwned'
  BY DEF HeldAsOwned, Owned, Session
<1>7. CleanupHasReason'
  BY DEF CleanupHasReason, TypeOK
<1>8. QED  BY ONLY <1>1, <1>2, <1>3, <1>4, <1>5, <1>6, <1>7 DEF JInv

\* A connection whose handshake failed is dropped.
LEMMA DropAfterHandshakeInv ==
  ASSUME JInv, NEW c \in Conns, main = "handshake", new_socket = c, Release(c), NextRound,
         UNCHANGED <<process, config, backlog, clients, serving, starved, pool>>
  PROVE  JInv'
<1> USE DEF JInv, Release, NextRound, clients, serving, pool
<1> USE ServerAssumption
<1>1. TypeOK'
  BY DEF TypeOK, Pool!TypeOK, MainAt, ServerAt, Pool!Phases
<1>2. HandFull'
  BY DEF HandFull, TypeOK
<1>3. Places'
  BY DEF Places
<1>4. Strangers'
  BY DEF Strangers
<1>5. NothingWhenDown'
  BY DEF NothingWhenDown, HandFull
<1>6. HeldAsOwned'
  BY DEF HeldAsOwned, Owned, Session, TypeOK, Places
<1>7. CleanupHasReason'
  BY DEF CleanupHasReason, TypeOK
<1>8. QED  BY ONLY <1>1, <1>2, <1>3, <1>4, <1>5, <1>6, <1>7 DEF JInv

\* A connection the pool refuses is dropped.
LEMMA RefusalInv ==
  ASSUME JInv, NEW c \in Conns, Refusal(c)
  PROVE  JInv'
<1> USE DEF JInv, Refusal, Dispatching, Pool!Refuse, Release, NextRound, clients,
  serving, pool
<1> USE ServerAssumption
<1>1. TypeOK'
  BY DEF TypeOK, Pool!TypeOK, MainAt, ServerAt, Pool!Phases
<1>2. HandFull'
  BY DEF HandFull, TypeOK
<1>3. Places'
  BY DEF Places
<1>4. Strangers'
  BY DEF Strangers
<1>5. NothingWhenDown'
  BY DEF NothingWhenDown, HandFull
<1>6. HeldAsOwned'
  BY DEF HeldAsOwned, Owned, Session, TypeOK, Places
<1>7. CleanupHasReason'
  BY DEF CleanupHasReason, TypeOK
<1>8. QED  BY ONLY <1>1, <1>2, <1>3, <1>4, <1>5, <1>6, <1>7 DEF JInv

\* A connection without memory for its arguments is dropped.
LEMMA NoMemoryForArgsInv ==
  ASSUME JInv, NEW c \in Conns, NoMemoryForArgs(c)
  PROVE  JInv'
<1> USE DEF JInv, NoMemoryForArgs, Dispatching, Release, NextRound, clients,
  serving, pool
<1> USE ServerAssumption
<1>1. TypeOK'
  BY DEF TypeOK, Pool!TypeOK, MainAt, ServerAt, Pool!Phases
<1>2. HandFull'
  BY DEF HandFull, TypeOK
<1>3. Places'
  BY DEF Places
<1>4. Strangers'
  BY DEF Strangers
<1>5. NothingWhenDown'
  BY DEF NothingWhenDown, HandFull
<1>6. HeldAsOwned'
  BY DEF HeldAsOwned, Owned, Session, TypeOK, Places
<1>7. CleanupHasReason'
  BY DEF CleanupHasReason, TypeOK
<1>8. QED  BY ONLY <1>1, <1>2, <1>3, <1>4, <1>5, <1>6, <1>7 DEF JInv

\* main hands its connection to the queue of the pool.
LEMMA HandOverInv ==
  ASSUME JInv, NEW c \in Conns, HandOver(c)
  PROVE  JInv'
<1> USE DEF JInv, HandOver, Dispatching, NextRound, Pool!Submit, Pool!Fresh,
  clients, serving, pool
<1> USE ServerAssumption
<1>a. pending \in Seq(Conns) /\ NoneTwice(pending) /\ c \notin Elements(pending) /\ c \notin running
  BY DEF TypeOK, Pool!TypeOK, Places
<1>b. /\ pending' \in Seq(Conns) /\ NoneTwice(pending')
      /\ Elements(pending') = Elements(pending) \cup {c}
  BY <1>a, AppendOnce
<1>1. TypeOK'
  BY <1>b DEF TypeOK, Pool!TypeOK, MainAt
<1>2. HandFull'
  BY DEF HandFull, TypeOK
<1>3. Places'
  BY <1>a, <1>b DEF Places
<1>4. Strangers'
  BY <1>b DEF Strangers
<1>5. NothingWhenDown'
  BY DEF NothingWhenDown
<1>6. HeldAsOwned'
  <2>1. /\ Owned(c) /\ new_socket = c /\ c \in Conns /\ NoConn \notin Conns
        /\ \A x \in Conns : Owned(x)' <=> Owned(x)
    BY <1>a, <1>b DEF Owned
  <2>2. \A x \in Conns : held'[x] = IF x = c THEN held[x] \cup {"args"} ELSE held[x]
    BY DEF TypeOK
  <2>3. Session' = Session  BY DEF Session
  <2>4. QED  BY ZenonT(30), <2>1, <2>2, <2>3 DEF HeldAsOwned
<1>7. CleanupHasReason'
  BY DEF CleanupHasReason, TypeOK
<1>8. QED  BY ONLY <1>1, <1>2, <1>3, <1>4, <1>5, <1>6, <1>7 DEF JInv

\* main serves its connection itself.
LEMMA ServeInlineInv ==
  ASSUME JInv, NEW c \in Conns, ServeInline(c)
  PROVE  JInv'
<1> USE DEF JInv, ServeInline, Dispatching, clients, serving, pool
<1>1. TypeOK'
  BY DEF TypeOK, Pool!TypeOK, MainAt, ServerAt, Pool!Phases
<1>2. HandFull'
  BY DEF HandFull, TypeOK
<1>3. Places'
  BY DEF Places
<1>4. Strangers'
  BY DEF Strangers
<1>5. NothingWhenDown'
  BY DEF NothingWhenDown, HandFull
<1>6. HeldAsOwned'
  BY DEF HeldAsOwned, Owned, Session
<1>7. CleanupHasReason'
  BY DEF CleanupHasReason, TypeOK
<1>8. QED  BY ONLY <1>1, <1>2, <1>3, <1>4, <1>5, <1>6, <1>7 DEF JInv

-----------------------------------------------------------------------------
(* The connection handler.                                                 *)

\* A worker takes the oldest connection out of the queue.
LEMMA TakeConnectionInv ==
  ASSUME JInv, TakeConnection
  PROVE  JInv'
<1> USE DEF JInv, TakeConnection, Pool!Start, clients, serving, pool
<1>a. /\ pending \in Seq(Conns) /\ NoneTwice(pending)
      /\ Head(pending) \in Conns /\ Head(pending) \in Elements(pending)
      /\ pending' \in Seq(Conns) /\ NoneTwice(pending')
      /\ Elements(pending') = Elements(pending) \ {Head(pending)}
  BY TailOnce DEF TypeOK, Pool!TypeOK, Places
<1>1. TypeOK'
  BY <1>a DEF TypeOK, Pool!TypeOK, ServerAt
<1>2. HandFull'
  BY DEF HandFull
<1>3. Places'
  BY <1>a DEF Places
<1>4. Strangers'
  BY <1>a DEF Strangers
<1>5. NothingWhenDown'
  BY <1>a DEF NothingWhenDown
<1>6. HeldAsOwned'
  BY <1>a DEF HeldAsOwned, Owned, Session, Places
<1>7. CleanupHasReason'
  BY DEF CleanupHasReason, TypeOK
<1>8. QED  BY ONLY <1>1, <1>2, <1>3, <1>4, <1>5, <1>6, <1>7 DEF JInv

\* ReadRequest preserves the invariant.
LEMMA ReadRequestInv ==
  ASSUME JInv, NEW c \in Conns, ReadRequest(c)
  PROVE  JInv'
<1> USE DEF JInv, ReadRequest, Goto, clients, pool
<1>1. TypeOK'
  BY DEF TypeOK, Pool!TypeOK, MainAt, ServerAt, Pool!Phases
<1>2. HandFull'
  BY DEF HandFull, TypeOK
<1>3. Places'
  BY DEF Places
<1>4. Strangers'
  BY DEF Strangers
<1>5. NothingWhenDown'
  BY DEF NothingWhenDown, HandFull
<1>6. HeldAsOwned'
  BY DEF HeldAsOwned, Owned, Session
<1>7. CleanupHasReason'
  BY DEF CleanupHasReason, TypeOK
<1>8. QED  BY ONLY <1>1, <1>2, <1>3, <1>4, <1>5, <1>6, <1>7 DEF JInv

\* ReadNothing preserves the invariant: the client has gone.
LEMMA ReadNothingInv ==
  ASSUME JInv, NEW c \in Conns, ReadNothing(c)
  PROVE  JInv'
<1> USE DEF JInv, ReadNothing, Goto, clients, pool
<1>1. TypeOK'
  BY DEF TypeOK, Pool!TypeOK, MainAt, ServerAt, Pool!Phases
<1>2. HandFull'
  BY DEF HandFull, TypeOK
<1>3. Places'
  BY DEF Places
<1>4. Strangers'
  BY DEF Strangers
<1>5. NothingWhenDown'
  BY DEF NothingWhenDown, HandFull
<1>6. HeldAsOwned'
  BY DEF HeldAsOwned, Owned, Session
<1>7. CleanupHasReason'
  BY DEF CleanupHasReason, TypeOK
<1>8. QED  BY ONLY <1>1, <1>2, <1>3, <1>4, <1>5, <1>6, <1>7 DEF JInv

\* ReadAlert preserves the invariant.
LEMMA ReadAlertInv ==
  ASSUME JInv, NEW c \in Conns, ReadAlert(c)
  PROVE  JInv'
<1> USE DEF JInv, ReadAlert, Goto, clients, pool
<1>1. TypeOK'
  BY DEF TypeOK, Pool!TypeOK, MainAt, ServerAt, Pool!Phases
<1>2. HandFull'
  BY DEF HandFull, TypeOK
<1>3. Places'
  BY DEF Places
<1>4. Strangers'
  BY DEF Strangers
<1>5. NothingWhenDown'
  BY DEF NothingWhenDown, HandFull
<1>6. HeldAsOwned'
  BY DEF HeldAsOwned, Owned, Session
<1>7. CleanupHasReason'
  BY DEF CleanupHasReason, TypeOK
<1>8. QED  BY ONLY <1>1, <1>2, <1>3, <1>4, <1>5, <1>6, <1>7 DEF JInv

\* HandleRequest preserves the invariant.
LEMMA HandleRequestInv ==
  ASSUME JInv, NEW c \in Conns, HandleRequest(c)
  PROVE  JInv'
<1> USE DEF JInv, HandleRequest, Goto, clients, pool
<1>1. TypeOK'
  BY DEF TypeOK, Pool!TypeOK, MainAt, ServerAt, Pool!Phases
<1>2. HandFull'
  BY DEF HandFull, TypeOK
<1>3. Places'
  BY DEF Places
<1>4. Strangers'
  BY DEF Strangers
<1>5. NothingWhenDown'
  BY DEF NothingWhenDown, HandFull
<1>6. HeldAsOwned'
  BY DEF HeldAsOwned, Owned, Session
<1>7. CleanupHasReason'
  BY DEF CleanupHasReason, TypeOK
<1>8. QED  BY ONLY <1>1, <1>2, <1>3, <1>4, <1>5, <1>6, <1>7 DEF JInv

\* HandleWithoutMemory preserves the invariant: the connection is starved.
LEMMA HandleWithoutMemoryInv ==
  ASSUME JInv, NEW c \in Conns, HandleWithoutMemory(c)
  PROVE  JInv'
<1> USE DEF JInv, HandleWithoutMemory, Goto, clients, pool
<1>1. TypeOK'
  BY DEF TypeOK, Pool!TypeOK, MainAt, ServerAt, Pool!Phases
<1>2. HandFull'
  BY DEF HandFull, TypeOK
<1>3. Places'
  BY DEF Places
<1>4. Strangers'
  BY DEF Strangers
<1>5. NothingWhenDown'
  BY DEF NothingWhenDown, HandFull
<1>6. HeldAsOwned'
  BY DEF HeldAsOwned, Owned, Session
<1>7. CleanupHasReason'
  BY DEF CleanupHasReason, TypeOK
<1>8. QED  BY ONLY <1>1, <1>2, <1>3, <1>4, <1>5, <1>6, <1>7 DEF JInv

\* WriteResponse preserves the invariant: the connection is answered.
LEMMA WriteResponseInv ==
  ASSUME JInv, NEW c \in Conns, WriteResponse(c)
  PROVE  JInv'
<1> USE DEF JInv, WriteResponse, Goto, clients, pool
<1>1. TypeOK'
  BY DEF TypeOK, Pool!TypeOK, MainAt, ServerAt, Pool!Phases
<1>2. HandFull'
  BY DEF HandFull, TypeOK
<1>3. Places'
  BY DEF Places
<1>4. Strangers'
  BY DEF Strangers
<1>5. NothingWhenDown'
  BY DEF NothingWhenDown, HandFull
<1>6. HeldAsOwned'
  BY DEF HeldAsOwned, Owned, Session
<1>7. CleanupHasReason'
  BY DEF CleanupHasReason, TypeOK
<1>8. QED  BY ONLY <1>1, <1>2, <1>3, <1>4, <1>5, <1>6, <1>7 DEF JInv

\* The one who serves a connection, a worker or main, is done with it.
LEMMA CleanupInv ==
  ASSUME JInv, NEW c \in Conns, Cleanup(c)
  PROVE  JInv'
<1> USE DEF JInv, Cleanup, Release, NextRound, Pool!Finish, clients, pool
<1> USE ServerAssumption
<1>1. TypeOK'
  BY DEF TypeOK, Pool!TypeOK, MainAt, ServerAt, Pool!Phases
<1>2. HandFull'
  BY DEF HandFull, TypeOK
<1>3. Places'
  BY DEF Places
<1>4. Strangers'
  BY DEF Strangers
<1>5. NothingWhenDown'
  BY DEF NothingWhenDown, HandFull, TypeOK, Pool!TypeOK
<1>6. HeldAsOwned'
  <2>1. ~ Owned(c)' /\ \A x \in Conns : x # c => (Owned(x)' <=> Owned(x))
    BY DEF Owned, Places
  <2>2. \A x \in Conns : held'[x] = IF x = c THEN {} ELSE held[x]
    BY DEF TypeOK
  <2>3. Session' = Session  BY DEF Session
  <2>4. \A x \in Conns : x # c => (new_socket' = x <=> new_socket = x)
    OBVIOUS
  <2>5. QED  BY <2>1, <2>2, <2>3, <2>4 DEF HeldAsOwned
<1>7. CleanupHasReason'
  BY DEF CleanupHasReason, TypeOK
<1>8. QED  BY ONLY <1>1, <1>2, <1>3, <1>4, <1>5, <1>6, <1>7 DEF JInv

-----------------------------------------------------------------------------
(* The clients.                                                            *)

\* A newcomer waits at the end of the backlog.
LEMMA ConnectInv ==
  ASSUME JInv, NEW c \in Conns, Connect(c)
  PROVE  JInv'
<1> USE DEF JInv, Connect, serving, pool
<1>a. /\ backlog \in Seq(Conns) /\ NoneTwice(backlog) /\ Len(backlog) \in Nat
      /\ c \notin Elements(backlog) \cup Elements(pending) \cup running /\ c # new_socket
  BY LenProperties DEF TypeOK, Places, Strangers
<1>b. /\ backlog' \in Seq(Conns) /\ Len(backlog') = Len(backlog) + 1
      /\ NoneTwice(backlog')
      /\ Elements(backlog') = Elements(backlog) \cup {c}
  BY <1>a, AppendOnce
<1>1. TypeOK'
  BY <1>a, <1>b, ServerAssumption DEF TypeOK, Pool!TypeOK
<1>2. HandFull'
  BY DEF HandFull, TypeOK
<1>3. Places'
  BY <1>a, <1>b DEF Places
<1>4. Strangers'
  BY <1>a, <1>b DEF Strangers, TypeOK
<1>5. NothingWhenDown'
  BY DEF NothingWhenDown, HandFull
<1>6. HeldAsOwned'
  BY DEF HeldAsOwned, Owned, Session
<1>7. CleanupHasReason'
  BY DEF CleanupHasReason, TypeOK
<1>8. QED  BY ONLY <1>1, <1>2, <1>3, <1>4, <1>5, <1>6, <1>7 DEF JInv

\* Speak preserves the invariant: the client is connected.
LEMMA SpeakInv ==
  ASSUME JInv, NEW c \in Conns, Speak(c)
  PROVE  JInv'
<1> USE DEF JInv, Speak, serving, pool
<1>1. TypeOK'
  BY DEF TypeOK, Pool!TypeOK, MainAt, ServerAt, Pool!Phases
<1>2. HandFull'
  BY DEF HandFull, TypeOK
<1>3. Places'
  BY DEF Places
<1>4. Strangers'
  BY DEF Strangers, TypeOK
<1>5. NothingWhenDown'
  BY DEF NothingWhenDown, HandFull
<1>6. HeldAsOwned'
  BY DEF HeldAsOwned, Owned, Session
<1>7. CleanupHasReason'
  BY DEF CleanupHasReason, TypeOK
<1>8. QED  BY ONLY <1>1, <1>2, <1>3, <1>4, <1>5, <1>6, <1>7 DEF JInv

\* Leave preserves the invariant.
LEMMA LeaveInv ==
  ASSUME JInv, NEW c \in Conns, Leave(c)
  PROVE  JInv'
<1> USE DEF JInv, Leave, serving, pool
<1>1. TypeOK'
  BY DEF TypeOK, Pool!TypeOK, MainAt, ServerAt, Pool!Phases
<1>2. HandFull'
  BY DEF HandFull, TypeOK
<1>3. Places'
  BY DEF Places
<1>4. Strangers'
  BY DEF Strangers
<1>5. NothingWhenDown'
  BY DEF NothingWhenDown, HandFull
<1>6. HeldAsOwned'
  BY DEF HeldAsOwned, Owned, Session
<1>7. CleanupHasReason'
  BY DEF CleanupHasReason, TypeOK
<1>8. QED  BY ONLY <1>1, <1>2, <1>3, <1>4, <1>5, <1>6, <1>7 DEF JInv

-----------------------------------------------------------------------------
(* The step.                                                               *)

\* Every step of main preserves the invariant.
LEMMA MainStepInv ==
  ASSUME JInv, MainStep
  PROVE  JInv'
<1>1. CASE CreatePool  BY <1>1, CreatePoolInv
<1>2. CASE Listen  BY <1>2, ListenInv
<1>3. CASE ListenFails  BY <1>3, DiesInv DEF ListenFails, Exits
<1>4. CASE Accept  BY <1>4, AcceptInv
<1>5. ASSUME NEW c \in Conns,
             \/ Handshake(c) \/ HandshakeFails(c)
             \/ HandOver(c) \/ Refusal(c) \/ NoMemoryForArgs(c) \/ DropBreaks(c)
             \/ ServeInline(c)
      PROVE  JInv'
  <2>1. CASE Handshake(c)  BY <2>1, HandshakeInv
  <2>2. CASE HandshakeFails(c)
    BY <2>2, DropAfterHandshakeInv, DiesInv DEF HandshakeFails, BrokenPipe
  <2>3. CASE HandOver(c)  BY <2>3, HandOverInv
  <2>4. CASE Refusal(c)  BY <2>4, RefusalInv
  <2>5. CASE NoMemoryForArgs(c)  BY <2>5, NoMemoryForArgsInv
  <2>6. CASE DropBreaks(c)  BY <2>6, DiesInv DEF DropBreaks, BrokenPipe
  <2>7. CASE ServeInline(c)  BY <2>7, ServeInlineInv
  <2>8. QED  BY <1>5, <2>1, <2>2, <2>3, <2>4, <2>5, <2>6, <2>7
<1>6. QED  BY <1>1, <1>2, <1>3, <1>4, <1>5 DEF MainStep

\* Every step of the code that serves a connection preserves the invariant.
LEMMA ServeStepInv ==
  ASSUME JInv, NEW c \in Conns, ServeStep(c)
  PROVE  JInv'
<1>1. CASE ReadRequest(c)  BY <1>1, ReadRequestInv
<1>2. CASE ReadNothing(c)  BY <1>2, ReadNothingInv
<1>3. CASE ReadAlert(c)  BY <1>3, ReadAlertInv
<1>4. CASE HandleRequest(c)  BY <1>4, HandleRequestInv
<1>5. CASE HandleWithoutMemory(c)  BY <1>5, HandleWithoutMemoryInv
<1>6. CASE HandleError(c)  BY <1>6, DiesInv DEF HandleError, Exits
<1>7. CASE WriteResponse(c)  BY <1>7, WriteResponseInv
<1>8. CASE WriteBreaks(c)  BY <1>8, DiesInv DEF WriteBreaks, BrokenPipe
<1>9. CASE Cleanup(c)  BY <1>9, CleanupInv
<1>10. CASE CleanupBreaks(c)  BY <1>10, DiesInv DEF CleanupBreaks, BrokenPipe
<1>11. QED
  BY <1>1, <1>2, <1>3, <1>4, <1>5, <1>6, <1>7, <1>8, <1>9, <1>10 DEF ServeStep

\* A step that changes nothing preserves the invariant.
LEMMA StutterInv ==
  ASSUME JInv, UNCHANGED vars
  PROVE  JInv'
BY DEF JInv, vars, clients, serving, pool, TypeOK, Pool!TypeOK, HandFull, Places,
       Strangers, NothingWhenDown, HeldAsOwned, Owned, Session, CleanupHasReason

\* The invariant is inductive.
LEMMA StepInv ==
  ASSUME JInv, [Next]_vars
  PROVE  JInv'
<1>1. CASE Start  BY <1>1, StartInv
<1>2. CASE MainStep  BY <1>2, MainStepInv
<1>3. CASE TakeConnection  BY <1>3, TakeConnectionInv
<1>4. CASE \E c \in Conns : ServeStep(c)  BY <1>4, ServeStepInv
<1>5. CASE \E c \in Conns : Connect(c) \/ Speak(c) \/ Leave(c)
  BY <1>5, ConnectInv, SpeakInv, LeaveInv
<1>6. CASE UNCHANGED vars  BY <1>6, StutterInv
<1>7. QED  BY <1>1, <1>2, <1>3, <1>4, <1>5, <1>6 DEF Next

-----------------------------------------------------------------------------
(* The theorems.                                                           *)

\* In every reachable state each connection has one owner at most, the server
\* holds for it what that owner needs, a client that never connected is nowhere,
\* and a process that has ended has left nothing (main, handle_connection_wrapper).
THEOREM ServerInvariant == Spec => []IInv
<1>1. Init => JInv  BY InitInv
<1>2. JInv /\ [Next]_vars => JInv'  BY StepInv
<1>3. JInv => IInv  BY SameInvariant
<1>4. QED  BY <1>1, <1>2, <1>3, PTL DEF Spec

\* The variables of the server always hold values of their types.
THEOREM ServerTypes == Spec => []TypeOK
<1>1. IInv => TypeOK  BY DEF IInv
<1>2. QED  BY <1>1, ServerInvariant, PTL

\* Socket, TLS session and arguments of a connection belong to one owner and go
\* with the last, on every path through main and the connection handler.
THEOREM ConnectionsHaveOneOwner == Spec => []HeldByOneOwner
<1>1. IInv => HeldByOneOwner  BY DEF IInv
<1>2. QED  BY <1>1, ServerInvariant, PTL

\* Who closes a connection whose request was made has a reason, if it has no
\* answer: the queue refused it, or memory was short.
LEMMA ClosingStep ==
  ASSUME IInv, [Next]_vars,
         NEW c \in Open, c \notin Open', process' = "up", client[c] = "request", c \notin gone
  PROVE  c \in answered \cup refused' \cup starved'
<1>1. c \in Conns /\ "fd" \in held[c] /\ "fd" \notin held'[c]
  BY DEF Open
<1>2. held \in [Conns -> SUBSET {"fd", "ssl", "args"}]
  BY DEF IInv, TypeOK
<1> USE DEF clients, serving, pool
<1>3. held' # held
  BY <1>1
<1>4. ~ Start /\ ~ CreatePool /\ ~ Listen /\ ~ TakeConnection /\ ~ UNCHANGED vars
  BY <1>3 DEF Start, CreatePool, Listen, TakeConnection, vars
<1>5. \A how \in {"down", "killed"} : ~ Dies(how)
  BY DEF Dies
<1>6. ~ Accept
  BY <1>1, <1>2 DEF Accept
<1>7. ASSUME NEW d \in Conns,
             \/ Handshake(d) \/ HandshakeFails(d)
             \/ HandOver(d) \/ Refusal(d) \/ NoMemoryForArgs(d) \/ DropBreaks(d)
             \/ ServeInline(d)
      PROVE  c \in answered \cup refused' \cup starved'
  <2>1. ~ Handshake(d) /\ ~ ServeInline(d) /\ ~ DropBreaks(d)
    BY <1>3, <1>5 DEF Handshake, ServeInline, DropBreaks, BrokenPipe
  <2>2. ~ HandOver(d)
    BY <1>1, <1>2 DEF HandOver
  <2>3. ~ HandshakeFails(d)
    BY <1>1, <1>2, <1>5 DEF HandshakeFails, BrokenPipe, Release
  <2>4. CASE Refusal(d)
    BY <2>4, <1>1, <1>2 DEF Refusal, Release, Pool!Refuse
  <2>5. CASE NoMemoryForArgs(d)
    BY <2>5, <1>1, <1>2 DEF NoMemoryForArgs, Release
  <2>6. QED  BY <1>7, <2>1, <2>2, <2>3, <2>4, <2>5
<1>8. ASSUME NEW d \in Conns, ServeStep(d)
      PROVE  c \in answered \cup refused' \cup starved'
  <2>1. CASE Cleanup(d)
    <3>1. c = d /\ at[c] = "cleanup" /\ starved' = starved
      BY <2>1, <1>1, <1>2 DEF Cleanup, Release
    <3>2. QED  BY <3>1, <1>1 DEF IInv, CleanupHasReason
  <2>2. ~ HandleError(d) /\ ~ WriteBreaks(d) /\ ~ CleanupBreaks(d)
    BY <1>5 DEF HandleError, WriteBreaks, CleanupBreaks, Exits, BrokenPipe
  <2>3. /\ ~ ReadRequest(d) /\ ~ ReadNothing(d) /\ ~ ReadAlert(d)
        /\ ~ HandleRequest(d) /\ ~ HandleWithoutMemory(d) /\ ~ WriteResponse(d)
    BY <1>3 DEF ReadRequest, ReadNothing, ReadAlert, HandleRequest,
      HandleWithoutMemory,
                WriteResponse, Goto
  <2>4. QED  BY <1>8, <2>1, <2>2, <2>3 DEF ServeStep
<1>9. ~ ListenFails
  BY <1>5 DEF ListenFails, Exits
<1>10. ASSUME NEW d \in Conns, Connect(d) \/ Speak(d) \/ Leave(d)
       PROVE  FALSE
  BY <1>10, <1>3 DEF Connect, Speak, Leave
<1>11. QED
  BY <1>4, <1>6, <1>7, <1>8, <1>9, <1>10 DEF Next, MainStep

\* A connection that is closed by the running server with its request made and
\* its client there was answered, refused by the full queue, or failed for want
\* of memory (main, handle_connection_wrapper).
THEOREM ClosedOnlyWithAnswer == Spec => ClosedWithAnswer
<1>1. IInv /\ [Next]_vars =>
        [\A c \in Open : c \notin Open' /\ process' = "up"
           /\ client[c] = "request" /\ c \notin gone
           => c \in answered \cup refused' \cup starved']_vars
  BY ClosingStep
<1>2. QED  BY <1>1, ServerInvariant, PTL DEF Spec, ClosedWithAnswer
=============================================================================
