---------------------------- MODULE Wire_proofs ----------------------------
(***************************************************************************)
(* What the operations of Wire preserve, whoever calls them.               *)
(*                                                                         *)
(* WireInv(S) says that the queue of every host h, and the connection it   *)
(* has accepted, only hold messages of S[h]; the type invariant is the     *)
(* case in which S[h] is everything.  Accounted says that a caller is in   *)
(* one place if it waits and in none if it does not.                       *)
(***************************************************************************)
EXTENDS Wire, SequenceTheorems, FiniteSetTheorems, TLAPS

Carries(S) ==
  /\ queue \in [Hosts -> Seq(Conn)]
  /\ active \in [Hosts -> Conn]
  /\ \A h \in Hosts : queue[h] \in Seq(S[h]) /\ active[h] \in S[h]

WireInv(S) ==
  /\ listening \subseteq Hosts
  /\ link \in [Callers -> Link]
  /\ Carries(S)

(* S[h] does not depend on who sent a message, nor on what p_decode makes  *)
(* of the name in it.                                                      *)
Closed(S) ==
  /\ S \in [Hosts -> SUBSET Conn]
  /\ \A h \in Hosts :
       /\ NoConn \in S[h]
       /\ \A m \in S[h] :
            /\ [m EXCEPT !.from = Nobody] \in S[h]
            /\ m.arg \in Names =>
                 \A n \in Names : [m EXCEPT !.arg = n] \in S[h]

Open(c) == link[c].state = "open"

Bounded ==
  \A h \in Hosts : Len(queue[h]) <= Backlog /\ (queue[h] # <<>> => h \in listening)

Accounted ==
  \A c \in Callers :
    IF Open(c) THEN \E p \in Hosts \X (0..Backlog) : Places(c) = {p}
               ELSE Places(c) = {}

-----------------------------------------------------------------------------
(* Types.                                                                  *)

LEMMA EndedType ==
  ASSUME NEW s \in States
  PROVE  Ended(s) \in Link
BY DEF Ended, Link, Texts

LEMMA NobodyCalls == Nobody \notin Callers
BY WireAssumption DEF Callers

LEMMA AppendCarries ==
  ASSUME NEW S, Closed(S), WireInv(S), NEW h \in Hosts, NEW m \in S[h]
  PROVE  Append(queue[h], m) \in Seq(S[h]) /\ Append(queue[h], m) \in Seq(Conn)
<1>1. queue[h] \in Seq(S[h]) /\ queue[h] \in Seq(Conn)
  BY DEF WireInv, Carries
<1>2. m \in Conn
  BY DEF Closed
<1> QED
  BY <1>1, <1>2, AppendProperties

LEMMA DialCarries ==
  ASSUME NEW S, Closed(S), WireInv(S),
         NEW c \in Callers, NEW h \in Hosts, NEW op, NEW arg, NEW token,
         [from |-> c, op |-> op, arg |-> arg, token |-> token] \in S[h],
         Dial(c, h, op, arg, token)
  PROVE  WireInv(S)'
<1> DEFINE m == [from |-> c, op |-> op, arg |-> arg, token |-> token]
<1>1. Append(queue[h], m) \in Seq(S[h]) /\ Append(queue[h], m) \in Seq(Conn)
  BY AppendCarries
<1>2. queue' \in [Hosts -> Seq(Conn)]
  BY <1>1 DEF Dial, WireInv, Carries
<1>3. \A g \in Hosts : queue'[g] \in Seq(S[g])
  BY <1>1 DEF Dial, WireInv, Carries
<1>4. link' \in [Callers -> Link]
  BY EndedType DEF Dial, WireInv, States
<1> QED
  BY <1>2, <1>3, <1>4 DEF Dial, WireInv, Carries

LEMMA PostCarries ==
  ASSUME NEW S, Closed(S), WireInv(S), NEW h \in Hosts,
         NEW op, NEW arg, NEW token,
         [from |-> Nobody, op |-> op, arg |-> arg, token |-> token] \in S[h],
         Post(h, op, arg, token)
  PROVE  queue' \in [Hosts -> Seq(Conn)] /\ \A g \in Hosts : queue'[g] \in Seq(S[g])
<1> DEFINE m == [from |-> Nobody, op |-> op, arg |-> arg, token |-> token]
<1>1. Append(queue[h], m) \in Seq(S[h]) /\ Append(queue[h], m) \in Seq(Conn)
  BY AppendCarries
<1> QED
  BY <1>1 DEF Post, WireInv, Carries

(* Closing a caller's end changes no message but its sender.               *)
LEMMA AbandonedCarries ==
  ASSUME NEW S, Closed(S), WireInv(S), NEW C
  PROVE  /\ AbandonedQueue(C) \in [Hosts -> Seq(Conn)]
         /\ AbandonedActive(C) \in [Hosts -> Conn]
         /\ \A h \in Hosts : /\ AbandonedQueue(C)[h] \in Seq(S[h])
                             /\ AbandonedActive(C)[h] \in S[h]
<1>1. \A h \in Hosts : \A m \in S[h] :
        Without(C, m) \in S[h] /\ Without(C, m) \in Conn
  BY DEF Closed, Without
<1>2. ASSUME NEW h \in Hosts
      PROVE  AbandonedQueue(C)[h] \in Seq(S[h])
  <2>1. queue[h] \in Seq(S[h]) /\ Len(queue[h]) \in Nat
    BY DEF WireInv, Carries
  <2>2. \A k \in 1..Len(queue[h]) : Without(C, queue[h][k]) \in S[h]
    BY <1>1, <2>1
  <2> QED
    BY <2>1, <2>2 DEF AbandonedQueue
<1>3. ASSUME NEW h \in Hosts
      PROVE  AbandonedQueue(C)[h] \in Seq(Conn)
  <2>1. queue[h] \in Seq(S[h]) /\ Len(queue[h]) \in Nat
    BY DEF WireInv, Carries
  <2>2. \A k \in 1..Len(queue[h]) : Without(C, queue[h][k]) \in Conn
    BY <1>1, <2>1
  <2> QED
    BY <2>1, <2>2 DEF AbandonedQueue
<1>4. AbandonedQueue(C) \in [Hosts -> Seq(Conn)]
  BY <1>3 DEF AbandonedQueue
<1>5. /\ AbandonedActive(C) \in [Hosts -> Conn]
      /\ \A h \in Hosts : AbandonedActive(C)[h] \in S[h]
  BY <1>1 DEF AbandonedActive, WireInv, Carries
<1> QED
  BY <1>2, <1>4, <1>5

LEMMA TimeoutCarries ==
  ASSUME NEW S, Closed(S), WireInv(S), NEW c \in Callers, Timeout(c)
  PROVE  WireInv(S)'
<1>1. link' \in [Callers -> Link]
  BY EndedType DEF Timeout, WireInv, States
<1>2. Carries(S)'
  BY AbandonedCarries DEF Timeout, Carries
<1> QED
  BY <1>1, <1>2 DEF Timeout, WireInv

LEMMA TakeCarries ==
  ASSUME NEW S, Closed(S), WireInv(S), NEW h \in Hosts, TakeConnection(h)
  PROVE  WireInv(S)'
<1>1. queue[h] \in Seq(S[h]) /\ queue[h] \in Seq(Conn) /\ queue[h] # <<>>
  BY DEF WireInv, Carries, TakeConnection
<1>2. /\ Head(queue[h]) \in S[h] /\ Head(queue[h]) \in Conn
      /\ Tail(queue[h]) \in Seq(S[h]) /\ Tail(queue[h]) \in Seq(Conn)
  BY <1>1, HeadTailProperties
<1> DEFINE m == Head(queue[h])
<1>3. PICK n \in (IF m.arg \in Names THEN Decoded(m.arg) ELSE {m.arg}) :
        active' = [active EXCEPT ![h] = [m EXCEPT !.arg = n]]
  BY DEF TakeConnection
<1>4. [m EXCEPT !.arg = n] \in S[h] /\ [m EXCEPT !.arg = n] \in Conn
  <2>1. CASE m.arg \in Names
    BY <1>2, <2>1 DEF Closed, Decoded
  <2>2. CASE m.arg \notin Names
    <3>1. [m EXCEPT !.arg = n] = m
      BY <1>2, <2>2 DEF Conn
    <3> QED
      BY <1>2, <3>1
  <2> QED
    BY <2>1, <2>2
<1> QED
  BY <1>2, <1>3, <1>4 DEF TakeConnection, WireInv, Carries

LEMMA AnsweredType ==
  ASSUME NEW S, WireInv(S), NEW h \in Hosts, NEW text \in Texts,
         NEW names \in SUBSET Names
  PROVE  AnsweredLinks(h, text, names) \in [Callers -> Link]
BY DEF AnsweredLinks, Link, States, WireInv

LEMMA CloseCarries ==
  ASSUME NEW S, Closed(S), WireInv(S), NEW h \in Hosts,
         active' = [active EXCEPT ![h] = NoConn], UNCHANGED queue
  PROVE  Carries(S)'
<1>1. NoConn \in S[h] /\ NoConn \in Conn
  BY DEF Closed
<1> QED
  BY <1>1 DEF WireInv, Carries

LEMMA AnswerCarries ==
  ASSUME NEW S, Closed(S), WireInv(S), NEW h \in Hosts, NEW text \in Texts,
         NEW names \in SUBSET Names, AnswerAndClose(h, text, names)
  PROVE  WireInv(S)'
BY CloseCarries, AnsweredType DEF AnswerAndClose, WireInv

LEMMA HangUpCarries ==
  ASSUME NEW S, Closed(S), WireInv(S), NEW h \in Hosts, HangUp(h)
  PROVE  WireInv(S)'
<1>1. link' \in [Callers -> Link]
  BY EndedType DEF HangUp, WireInv, States
<1> QED
  BY <1>1, CloseCarries DEF HangUp, WireInv

LEMMA CloseListenerCarries ==
  ASSUME NEW S, Closed(S), WireInv(S), NEW h \in Hosts, CloseListener(h)
  PROVE  WireInv(S)'
<1>1. link' \in [Callers -> Link]
  BY EndedType DEF CloseListener, WireInv, States
<1>2. Carries(S)'
  <2>1. NoConn \in S[h] /\ NoConn \in Conn
    BY DEF Closed
  <2>2. \A T : <<>> \in Seq(T)
    OBVIOUS
  <2> QED
    BY <2>1, <2>2 DEF CloseListener, WireInv, Carries
<1> QED
  BY <1>1, <1>2 DEF CloseListener, WireInv

LEMMA DiesCarries ==
  ASSUME NEW S, Closed(S), WireInv(S), NEW h \in Hosts,
         NEW C \in SUBSET Callers, ProcessDies(h, C)
  PROVE  WireInv(S)'
<1>1. link' \in [Callers -> Link]
  BY EndedType DEF ProcessDies, WireInv, States
<1>2. Carries(S)'
  <2>1. NoConn \in S[h] /\ NoConn \in Conn
    BY DEF Closed
  <2>2. \A T : <<>> \in Seq(T)
    OBVIOUS
  <2> QED
    BY <2>1, <2>2, AbandonedCarries DEF ProcessDies, Carries
<1> QED
  BY <1>1, <1>2 DEF ProcessDies, WireInv

-----------------------------------------------------------------------------
(* Places.                                                                 *)

LEMMA PlacesAreAt ==
  ASSUME NEW c, NEW h \in Hosts, NEW k \in 0..Backlog
  PROVE  <<h, k>> \in Places(c) <=> At(c, h, k)
BY DEF Places

(* When the connections in R are closed and the callers in C are gone, the *)
(* others are where they were.                                             *)
LEMMA Closing ==
  ASSUME Accounted, NEW R, NEW C,
         \A c \in Callers :
           /\ Places(c)' = IF c \in C THEN {} ELSE Places(c) \ R
           /\ Open(c)' <=> Open(c) /\ c \notin C /\ Places(c) \cap R = {}
  PROVE  Accounted'
<1> SUFFICES ASSUME NEW c \in Callers
             PROVE  IF Open(c)'
                    THEN \E p \in Hosts \X (0..Backlog) : Places(c)' = {p}
                    ELSE Places(c)' = {}
  BY DEF Accounted, Hosts, Callers
<1>1. CASE Open(c)'
  <2>1. PICK p \in Hosts \X (0..Backlog) : Places(c) = {p}
    BY <1>1 DEF Accounted
  <2>2. Places(c)' = {p}
    BY <1>1, <2>1
  <2> QED
    BY <1>1, <2>2
<1>2. CASE ~Open(c)'
  <2>1. CASE ~Open(c)
    <3>1. Places(c) = {}
      BY <2>1 DEF Accounted
    <3> QED
      BY <1>2, <3>1
  <2>2. CASE Open(c) /\ c \notin C
    <3>1. PICK p \in Hosts \X (0..Backlog) : Places(c) = {p}
      BY <2>2 DEF Accounted
    <3>2. p \in R
      BY <1>2, <2>2, <3>1
    <3>3. Places(c)' = {}
      BY <2>2, <3>1, <3>2
    <3> QED
      BY <1>2, <3>3
  <2>3. CASE c \in C
    BY <1>2, <2>3
  <2> QED
    BY <2>1, <2>2, <2>3
<1> QED
  BY <1>1, <1>2

LEMMA AbandonedPlaces ==
  ASSUME NEW S, WireInv(S), NEW C,
         queue' = AbandonedQueue(C), active' = AbandonedActive(C),
         NEW d \in Callers
  PROVE  Places(d)' = IF d \in C THEN {} ELSE Places(d)
<1>1. \A m \in Conn : Without(C, m).from = d <=> m.from = d /\ d \notin C
  BY NobodyCalls DEF Without, Conn
<1>2. ASSUME NEW h \in Hosts, NEW k \in 0..Backlog
      PROVE  At(d, h, k)' <=> At(d, h, k) /\ d \notin C
  <2>1. active[h] \in Conn /\ queue[h] \in Seq(Conn)
    BY DEF WireInv, Carries
  <2>2. active'[h] = Without(C, active[h])
    BY DEF AbandonedActive
  <2>3. queue'[h] = [j \in 1..Len(queue[h]) |-> Without(C, queue[h][j])]
    BY DEF AbandonedQueue
  <2>4. Len(queue'[h]) = Len(queue[h])
    BY <2>1, <2>3
  <2>5. k \in 1..Len(queue[h]) =>
          /\ queue[h][k] \in Conn
          /\ queue'[h][k] = Without(C, queue[h][k])
    BY <2>1, <2>3
  <2>6. k # 0 /\ k <= Len(queue[h]) => k \in 1..Len(queue[h])
    BY <2>1
  <2> QED
    BY <1>1, <2>1, <2>2, <2>4, <2>5, <2>6 DEF At
<1>3. \A p \in Hosts \X (0..Backlog) :
        p \in Places(d)' <=> p \in Places(d) /\ d \notin C
  BY <1>2 DEF Places, Hosts
<1>4. Places(d) \subseteq Hosts \X (0..Backlog) /\ Places(d)' \subseteq Hosts \X (0..Backlog)
  BY DEF Places, Hosts
<1> QED
  BY <1>3, <1>4

LEMMA AbandonedBounded ==
  ASSUME NEW S, WireInv(S), Bounded, NEW C,
         queue' = AbandonedQueue(C), UNCHANGED listening
  PROVE  Bounded'
<1> SUFFICES ASSUME NEW h \in Hosts
             PROVE  /\ Len(queue'[h]) <= Backlog
                    /\ queue'[h] # <<>> => h \in listening
  BY DEF Bounded, Hosts
<1>1. queue[h] \in Seq(Conn) /\ queue'[h] = [j \in 1..Len(queue[h]) |-> Without(C, queue[h][j])]
  BY DEF WireInv, Carries, AbandonedQueue
<1>2. Len(queue'[h]) = Len(queue[h])
  BY <1>1
<1>3. queue[h] = <<>> => queue'[h] = <<>>
  BY <1>1
<1> QED
  BY <1>2, <1>3 DEF Bounded

LEMMA TimeoutAccounted ==
  ASSUME NEW S, WireInv(S), Accounted, Bounded, NEW c \in Callers, Timeout(c)
  PROVE  Accounted' /\ Bounded'
<1>1. /\ queue' = AbandonedQueue({c}) /\ active' = AbandonedActive({c})
      /\ listening' = listening
  BY DEF Timeout
<1>2. ASSUME NEW d \in Callers
      PROVE  Places(d)' = IF d \in {c} THEN {} ELSE Places(d) \ {}
  BY <1>1, AbandonedPlaces
<1>3. ASSUME NEW d \in Callers
      PROVE  Open(d)' <=> Open(d) /\ d \notin {c} /\ Places(d) \cap {} = {}
  BY DEF Timeout, Open, Ended, WireInv
<1> QED
  BY <1>1, <1>2, <1>3, Closing, AbandonedBounded

(* Where a caller is in the queue of h.                                    *)
Standing(c, h, k) == k <= Len(queue[h]) /\ queue[h][k].from = c

LEMMA AppendStanding ==
  ASSUME NEW S, WireInv(S), NEW h \in Hosts, NEW m \in Conn,
         queue' = [queue EXCEPT ![h] = Append(@, m)],
         NEW c, NEW g \in Hosts, NEW k \in 1..Backlog
  PROVE  Standing(c, g, k)' <=>
           \/ Standing(c, g, k)
           \/ g = h /\ k = Len(queue[h]) + 1 /\ m.from = c
<1>1. queue[g] \in Seq(Conn) /\ queue[h] \in Seq(Conn)
  BY DEF WireInv, Carries
<1>2. /\ Len(Append(queue[h], m)) = Len(queue[h]) + 1
      /\ \A i \in 1..Len(queue[h]) : Append(queue[h], m)[i] = queue[h][i]
      /\ Append(queue[h], m)[Len(queue[h]) + 1] = m
  BY <1>1, AppendProperties
<1>3. queue'[g] = IF g = h THEN Append(queue[h], m) ELSE queue[g]
  BY DEF WireInv, Carries
<1>4. CASE g # h
  BY <1>3, <1>4 DEF Standing
<1>5. CASE g = h
  <2>1. Len(queue[h]) \in Nat
    BY <1>1
  <2>2. k <= Len(queue[h]) \/ k = Len(queue[h]) + 1 \/ k > Len(queue[h]) + 1
    BY <2>1
  <2> QED
    BY <1>2, <1>3, <1>5, <2>1, <2>2 DEF Standing
<1> QED
  BY <1>4, <1>5

LEMMA PostStanding ==
  ASSUME NEW S, WireInv(S), NEW h \in Hosts, NEW op, NEW arg, NEW token,
         [from |-> Nobody, op |-> op, arg |-> arg, token |-> token] \in Conn,
         Post(h, op, arg, token),
         NEW c \in Callers, NEW g \in Hosts, NEW k \in 1..Backlog
  PROVE  Standing(c, g, k)' <=> Standing(c, g, k)
<1> DEFINE m == [from |-> Nobody, op |-> op, arg |-> arg, token |-> token]
<1>1. CASE Reachable(h)
  <2>1. queue' = [queue EXCEPT ![h] = Append(@, m)] /\ m.from # c
    BY <1>1, NobodyCalls DEF Post
  <2>2. Standing(c, g, k)' <=>
          Standing(c, g, k) \/ (g = h /\ k = Len(queue[h]) + 1 /\ m.from = c)
    BY ZenonT(60), <2>1, AppendStanding
  <2> QED
    BY <2>1, <2>2
<1>2. CASE ~Reachable(h)
  BY <1>2 DEF Post, Standing
<1> QED
  BY <1>1, <1>2

LEMMA PostBounded ==
  ASSUME NEW S, WireInv(S), Bounded, NEW h \in Hosts, NEW op, NEW arg,
         NEW token, Post(h, op, arg, token), UNCHANGED listening
  PROVE  Bounded'
<1> DEFINE m == [from |-> Nobody, op |-> op, arg |-> arg, token |-> token]
<1> SUFFICES ASSUME NEW g \in Hosts
             PROVE  /\ Len(queue'[g]) <= Backlog
                    /\ queue'[g] # <<>> => g \in listening
  BY DEF Bounded, Hosts
<1>1. queue[g] \in Seq(Conn) /\ Len(queue[g]) \in Nat
  BY DEF WireInv, Carries
<1>2. CASE Reachable(h) /\ g = h
  <2>1. queue'[g] = Append(queue[g], m) /\ Len(queue[g]) < Backlog /\ g \in listening
    BY <1>2 DEF Post, Reachable, WireInv, Carries
  <2> QED
    BY <1>1, <2>1, WireAssumption
<1>3. CASE ~(Reachable(h) /\ g = h)
  <2>1. queue'[g] = queue[g]
    BY <1>3 DEF Post, WireInv, Carries
  <2> QED
    BY <2>1 DEF Bounded
<1> QED
  BY <1>2, <1>3

(* A new connection is where its message is.                               *)
LEMMA DialAccounted ==
  ASSUME NEW S, WireInv(S), Accounted, Bounded, NEW c \in Callers, ~Open(c),
         NEW h \in Hosts, NEW op, NEW arg, NEW token,
         [from |-> c, op |-> op, arg |-> arg, token |-> token] \in Conn,
         Dial(c, h, op, arg, token)
  PROVE  Accounted' /\ Bounded'
<1> DEFINE m == [from |-> c, op |-> op, arg |-> arg, token |-> token]
<1>1. CASE Reachable(h)
  <2>1. /\ queue' = [queue EXCEPT ![h] = Append(@, m)] /\ active' = active
        /\ listening' = listening /\ link' = [link EXCEPT ![c] = Ended("open")]
    BY <1>1 DEF Dial
  <2>2. queue[h] \in Seq(Conn) /\ Len(queue[h]) \in Nat /\ Len(queue[h]) < Backlog
    BY <1>1 DEF WireInv, Carries, Reachable
  <2>3. Len(queue[h]) + 1 \in 1..Backlog
    BY <2>2, WireAssumption
  <2>4. ASSUME NEW d \in Callers
        PROVE  Places(d)' = Places(d) \cup (IF d = c THEN {<<h, Len(queue[h]) + 1>>} ELSE {})
    <3>1. ASSUME NEW g \in Hosts, NEW k \in 0..Backlog
          PROVE  At(d, g, k)' <=> At(d, g, k) \/ (d = c /\ g = h /\ k = Len(queue[h]) + 1)
      <4>1. CASE k = 0
        BY <2>1, <2>2, <4>1 DEF At
      <4>2. CASE k # 0
        <5>1. k \in 1..Backlog
          BY <4>2, WireAssumption
        <5>2. Standing(d, g, k)' <=>
                \/ Standing(d, g, k)
                \/ g = h /\ k = Len(queue[h]) + 1 /\ m.from = d
          BY ZenonT(60), <2>1, <5>1, AppendStanding
        <5>3. m.from = c
          OBVIOUS
        <5> QED
          BY <4>2, <5>2, <5>3 DEF At, Standing
      <4> QED
        BY <4>1, <4>2
    <3>2. <<h, Len(queue[h]) + 1>> \in Hosts \X (0..Backlog)
      BY <2>3
    <3>3. ASSUME NEW p \in Hosts \X (0..Backlog)
          PROVE  p \in Places(d)' <=>
                   p \in Places(d) \/ (d = c /\ p = <<h, Len(queue[h]) + 1>>)
      <4>1. /\ p[1] \in Hosts /\ p[2] \in 0..Backlog
            /\ p = <<h, Len(queue[h]) + 1>> <=> p[1] = h /\ p[2] = Len(queue[h]) + 1
        OBVIOUS
      <4>2. /\ p \in Places(d)' <=> At(d, p[1], p[2])'
            /\ p \in Places(d) <=> At(d, p[1], p[2])
        BY DEF Places, Hosts
      <4> QED
        BY <3>1, <4>1, <4>2
    <3>4. Places(d) \subseteq Hosts \X (0..Backlog) /\ Places(d)' \subseteq Hosts \X (0..Backlog)
      BY DEF Places, Hosts
    <3> QED
      BY <3>2, <3>3, <3>4
  <2>5. ASSUME NEW d \in Callers
        PROVE  Open(d)' <=> Open(d) \/ d = c
    BY <2>1 DEF Open, Ended, WireInv
  <2>6. Places(c) = {}
    BY DEF Accounted
  <2>7. Accounted'
    <3>1. \A d \in Callers \ {c} : Places(d)' = Places(d) /\ (Open(d)' <=> Open(d))
      BY <2>4, <2>5
    <3>2. Places(c)' = {<<h, Len(queue[h]) + 1>>} /\ Open(c)'
      BY <2>4, <2>5, <2>6
    <3>3. <<h, Len(queue[h]) + 1>> \in Hosts \X (0..Backlog)
      BY <2>3
    <3>4. ASSUME NEW d \in Callers
          PROVE  IF Open(d)'
                 THEN \E p \in Hosts \X (0..Backlog) : Places(d)' = {p}
                 ELSE Places(d)' = {}
      BY <3>1, <3>2, <3>3 DEF Accounted
    <3> QED
      BY <3>4 DEF Accounted, Hosts, Callers
  <2>8. Bounded'
    <3> SUFFICES ASSUME NEW g \in Hosts
                 PROVE  /\ Len(queue'[g]) <= Backlog
                        /\ queue'[g] # <<>> => g \in listening
      BY <2>1 DEF Bounded, Hosts
    <3>1. CASE g = h
      <4>1. queue'[g] = Append(queue[h], m) /\ g \in listening
        BY <1>1, <2>1, <3>1 DEF WireInv, Carries, Reachable
      <4> QED
        BY <2>2, <4>1, WireAssumption
    <3>2. CASE g # h
      BY <2>1, <3>2 DEF Bounded, WireInv, Carries
    <3> QED
      BY <3>1, <3>2
  <2> QED
    BY <2>7, <2>8
<1>2. CASE ~Reachable(h)
  <2>1. /\ UNCHANGED <<queue, active, listening>>
        /\ link' = [link EXCEPT ![c] = Ended("refused")]
    BY <1>2 DEF Dial
  <2>2. \A d \in Callers : Places(d)' = Places(d)
    BY <2>1 DEF Places, At, Hosts
  <2>3. \A d \in Callers : Open(d)' <=> Open(d)
    BY <2>1 DEF Open, Ended, WireInv
  <2> QED
    BY <2>1, <2>2, <2>3 DEF Accounted, Bounded, Hosts, Callers
<1> QED
  BY <1>1, <1>2

(* accept moves everybody in the queue of h one place forward.             *)
LEMMA TakeAccounted ==
  ASSUME NEW S, WireInv(S), Accounted, Bounded, NEW h \in Hosts,
         active[h].from = Nobody, TakeConnection(h)
  PROVE  Accounted' /\ Bounded'
<1>1. queue[h] \in Seq(Conn) /\ queue[h] # <<>> /\ Len(queue[h]) \in Nat \ {0}
  BY EmptySeq DEF WireInv, Carries, TakeConnection
<1>2. /\ Len(queue'[h]) = Len(queue[h]) - 1
      /\ \A k \in 1..Len(queue'[h]) : queue'[h][k] = queue[h][k + 1]
  <2>1. queue'[h] = Tail(queue[h])
    BY DEF TakeConnection, WireInv, Carries
  <2> QED
    BY <1>1, <2>1, HeadTailProperties
<1>3. active'[h].from = queue[h][1].from
  <2>1. queue[h][1] = Head(queue[h]) /\ queue[h][1] \in Conn
    BY <1>1
  <2>2. PICK n : active' = [active EXCEPT ![h] = [Head(queue[h]) EXCEPT !.arg = n]]
    BY DEF TakeConnection
  <2> QED
    BY <2>1, <2>2 DEF WireInv, Carries, Conn
<1>4. \A g \in Hosts \ {h} : queue'[g] = queue[g] /\ active'[g] = active[g]
  BY DEF TakeConnection, WireInv, Carries
<1>5. UNCHANGED <<listening, link>>
  BY DEF TakeConnection
<1>6. ASSUME NEW d \in Callers, NEW g \in Hosts, NEW k \in 0..Backlog
      PROVE  At(d, g, k)' <=> IF g = h THEN At(d, h, k + 1) ELSE At(d, g, k)
  <2>1. CASE g # h
    BY <1>4, <2>1 DEF At
  <2>2. CASE g = h /\ k = 0
    BY <1>1, <1>3, <2>2 DEF At
  <2>3. CASE g = h /\ k # 0
    <3>1. k <= Len(queue[h]) - 1 <=> k + 1 <= Len(queue[h])
      BY <1>1
    <3>2. k <= Len(queue[h]) - 1 => queue'[h][k] = queue[h][k + 1]
      BY <1>1, <1>2, <2>3
    <3>3. k + 1 # 0
      OBVIOUS
    <3> QED
      BY <1>2, <2>3, <3>1, <3>2, <3>3 DEF At
  <2> QED
    BY <2>1, <2>2, <2>3
<1>7. ASSUME NEW d \in Callers
      PROVE  ~At(d, h, 0) /\ ~At(d, h, Backlog + 1)
  BY <1>1, NobodyCalls, WireAssumption DEF At, Bounded
<1>8. ASSUME NEW d \in Callers, NEW p \in Hosts \X (0..Backlog),
             Places(d) = {p}
      PROVE  \E q \in Hosts \X (0..Backlog) : Places(d)' = {q}
  <2>1. p \in Places(d) /\ p[1] \in Hosts /\ p[2] \in 0..Backlog /\ At(d, p[1], p[2])
    BY <1>8 DEF Places
  <2> DEFINE q == IF p[1] = h THEN <<h, p[2] - 1>> ELSE p
  <2>2. q \in Hosts \X (0..Backlog)
    <3>1. p[1] = h => p[2] # 0
      BY <1>7, <2>1
    <3> QED
      BY <2>1, <3>1, WireAssumption
  <2>3. ASSUME NEW g \in Hosts, NEW k \in 0..Backlog
        PROVE  At(d, g, k)' <=> <<g, k>> = q
    <3>1. \A j \in 0..Backlog : At(d, g, j) <=> p = <<g, j>>
      BY <1>8, PlacesAreAt
    <3>2. CASE g = h
      <4>1. At(d, g, k)' <=> k + 1 \in 0..Backlog /\ p = <<h, k + 1>>
        BY <1>6, <1>7, <3>1, <3>2, WireAssumption
      <4> QED
        BY <2>1, <3>2, <4>1
    <3>3. CASE g # h
      BY <1>6, <2>1, <3>1, <3>3
    <3> QED
      BY <3>2, <3>3
  <2>4. Places(d)' = {q}
    <3>1. \A r \in Hosts \X (0..Backlog) : r \in Places(d)' <=> r = q
      BY <2>3 DEF Places, Hosts
    <3>2. Places(d)' \subseteq Hosts \X (0..Backlog)
      BY DEF Places, Hosts
    <3> QED
      BY <2>2, <3>1, <3>2
  <2> QED
    BY <2>2, <2>4
<1>9. ASSUME NEW d \in Callers, Places(d) = {}
      PROVE  Places(d)' = {}
  <2>1. \A g \in Hosts, k \in 0..Backlog : ~At(d, g, k)
    BY <1>9, PlacesAreAt
  <2>2. ASSUME NEW g \in Hosts, NEW k \in 0..Backlog
        PROVE  ~At(d, g, k)'
    <3>1. k + 1 \in 0..Backlog \/ k = Backlog
      BY WireAssumption
    <3> QED
      BY <1>6, <1>7, <2>1, <3>1
  <2> QED
    BY <2>2 DEF Places, Hosts
<1>10. \A d \in Callers : Open(d)' <=> Open(d)
  BY <1>5 DEF Open
<1>11. Accounted'
  <2>1. ASSUME NEW d \in Callers
        PROVE  IF Open(d)'
               THEN \E p \in Hosts \X (0..Backlog) : Places(d)' = {p}
               ELSE Places(d)' = {}
    BY <1>8, <1>9, <1>10 DEF Accounted
  <2> QED
    BY <2>1 DEF Accounted, Hosts, Callers
<1>12. Bounded'
  <2>1. ASSUME NEW g \in Hosts
        PROVE  /\ Len(queue'[g]) <= Backlog
               /\ queue'[g] # <<>> => g \in listening
    <3>1. CASE g = h
      BY <1>1, <1>2, <3>1, WireAssumption DEF Bounded
    <3>2. CASE g # h
      BY <1>4, <3>2 DEF Bounded
    <3> QED
      BY <3>1, <3>2
  <2> QED
    BY <1>5, <2>1 DEF Bounded, Hosts
<1> QED
  BY <1>11, <1>12

(* The connection that h has accepted is closed.                           *)
LEMMA CloseAccounted ==
  ASSUME NEW S, WireInv(S), Accounted, NEW h \in Hosts,
         active' = [active EXCEPT ![h] = NoConn],
         \A c \in Callers : Open(c)' <=> Open(c) /\ active[h].from # c,
         \A c \in Callers, g \in Hosts, k \in 1..Backlog :
           Standing(c, g, k)' <=> Standing(c, g, k)
  PROVE  Accounted'
<1>1. ASSUME NEW c \in Callers
      PROVE  Places(c)' = Places(c) \ {<<h, 0>>}
  <2>1. ASSUME NEW g \in Hosts, NEW k \in 0..Backlog
        PROVE  At(c, g, k)' <=> At(c, g, k) /\ ~(g = h /\ k = 0)
    <3>1. CASE k = 0
      BY <3>1, NobodyCalls DEF At, NoConn, WireInv, Carries
    <3>2. CASE k # 0
      <4>1. k \in 1..Backlog
        BY <3>2, WireAssumption
      <4> QED
        BY <3>2, <4>1 DEF At, Standing
    <3> QED
      BY <3>1, <3>2
  <2>2. ASSUME NEW p \in Hosts \X (0..Backlog)
        PROVE  p \in Places(c)' <=> p \in Places(c) /\ p # <<h, 0>>
    <3>1. /\ p[1] \in Hosts /\ p[2] \in 0..Backlog
          /\ p = <<h, 0>> <=> p[1] = h /\ p[2] = 0
      OBVIOUS
    <3>2. /\ p \in Places(c)' <=> At(c, p[1], p[2])'
          /\ p \in Places(c) <=> At(c, p[1], p[2])
      BY DEF Places, Hosts
    <3> QED
      BY <2>1, <3>1, <3>2
  <2>3. Places(c) \subseteq Hosts \X (0..Backlog) /\ Places(c)' \subseteq Hosts \X (0..Backlog)
    BY DEF Places, Hosts
  <2> QED
    BY <2>2, <2>3
<1>2. ASSUME NEW c \in Callers
      PROVE  active[h].from # c <=> Places(c) \cap {<<h, 0>>} = {}
  <2>1. <<h, 0>> \in Places(c) <=> active[h].from = c
    BY WireAssumption DEF Places, At
  <2> QED
    BY <2>1
<1> QED
  BY <1>1, <1>2, Closing

LEMMA AnswerAccounted ==
  ASSUME NEW S, WireInv(S), Accounted, Bounded, NEW h \in Hosts,
         NEW text, NEW names, AnswerAndClose(h, text, names)
  PROVE  Accounted' /\ Bounded'
<1>1. \A c \in Callers : Open(c)' <=> Open(c) /\ active[h].from # c
  BY DEF AnswerAndClose, AnsweredLinks, Open
<1> QED
  BY <1>1, CloseAccounted DEF AnswerAndClose, Standing, Bounded, Hosts

LEMMA HangUpAccounted ==
  ASSUME NEW S, WireInv(S), Accounted, Bounded, NEW h \in Hosts, HangUp(h)
  PROVE  Accounted' /\ Bounded'
<1>1. \A c \in Callers : Open(c)' <=> Open(c) /\ active[h].from # c
  BY DEF HangUp, Ended, Open
<1> QED
  BY <1>1, CloseAccounted DEF HangUp, Standing, Bounded, Hosts

(* All sockets of h are closed, and the callers in C are gone.             *)
LEMMA SocketsClosed ==
  ASSUME NEW S, WireInv(S), Accounted, NEW h \in Hosts, NEW C,
         queue'[h] = <<>>, active'[h] = NoConn,
         \A c \in Callers, g \in Hosts \ {h} :
           /\ active'[g].from = c <=> active[g].from = c /\ c \notin C
           /\ \A k \in 1..Backlog :
                Standing(c, g, k)' <=> Standing(c, g, k) /\ c \notin C,
         \A c \in Callers :
           Open(c)' <=> /\ Open(c) /\ c \notin C
                        /\ c \notin Queued(h) /\ active[h].from # c,
         Bounded
  PROVE  Accounted'
<1> DEFINE R == {h} \X (0..Backlog)
<1>1. ASSUME NEW c \in Callers
      PROVE  Places(c)' = IF c \in C THEN {} ELSE Places(c) \ R
  <2>1. ASSUME NEW g \in Hosts, NEW k \in 0..Backlog
        PROVE  At(c, g, k)' <=> At(c, g, k) /\ g # h /\ c \notin C
    <3>1. CASE g = h
      <4>1. Len(queue'[h]) = 0 /\ active'[h].from # c
        BY NobodyCalls DEF NoConn
      <4> QED
        BY <3>1, <4>1 DEF At
    <3>2. CASE g # h /\ k = 0
      BY <3>2 DEF At
    <3>3. CASE g # h /\ k # 0
      <4>1. k \in 1..Backlog /\ g \in Hosts \ {h}
        BY <3>3, WireAssumption
      <4>2. Standing(c, g, k)' <=> Standing(c, g, k) /\ c \notin C
        BY <4>1
      <4> QED
        BY <3>3, <4>2 DEF At, Standing
    <3> QED
      BY <3>1, <3>2, <3>3
  <2>2. ASSUME NEW p \in Hosts \X (0..Backlog)
        PROVE  p \in Places(c)' <=> p \in Places(c) /\ p \notin R /\ c \notin C
    <3>1. /\ p[1] \in Hosts /\ p[2] \in 0..Backlog
          /\ p \in R <=> p[1] = h
      OBVIOUS
    <3>2. /\ p \in Places(c)' <=> At(c, p[1], p[2])'
          /\ p \in Places(c) <=> At(c, p[1], p[2])
      BY DEF Places, Hosts
    <3> QED
      BY <2>1, <3>1, <3>2
  <2>3. Places(c) \subseteq Hosts \X (0..Backlog) /\ Places(c)' \subseteq Hosts \X (0..Backlog)
    BY DEF Places, Hosts
  <2> QED
    BY <2>2, <2>3
<1>2. ASSUME NEW c \in Callers
      PROVE  c \notin Queued(h) /\ active[h].from # c <=> Places(c) \cap R = {}
  <2>1. Places(c) \cap R = {} <=> \A k \in 0..Backlog : ~At(c, h, k)
    <3>1. Places(c) \cap R = {} <=> \A k \in 0..Backlog : <<h, k>> \notin Places(c)
      BY DEF Places
    <3> QED
      BY <3>1, PlacesAreAt
  <2>2. queue[h] \in Seq(Conn) /\ Len(queue[h]) \in Nat /\ Len(queue[h]) <= Backlog
    BY DEF WireInv, Carries, Bounded
  <2>3. c \in Queued(h) <=> \E k \in 1..Backlog : At(c, h, k)
    BY <2>2, WireAssumption DEF Queued, At
  <2>4. active[h].from = c <=> At(c, h, 0)
    BY DEF At
  <2>5. 0..Backlog = {0} \cup 1..Backlog
    BY WireAssumption
  <2> QED
    BY <2>1, <2>3, <2>4, <2>5
<1>3. \A c \in Callers :
        /\ Places(c)' = IF c \in C THEN {} ELSE Places(c) \ R
        /\ Open(c)' <=> Open(c) /\ c \notin C /\ Places(c) \cap R = {}
  BY <1>1, <1>2
<1> HIDE DEF R
<1> QED
  BY <1>3, Closing

LEMMA CloseListenerAccounted ==
  ASSUME NEW S, WireInv(S), Accounted, Bounded, NEW h \in Hosts,
         CloseListener(h)
  PROVE  Accounted' /\ Bounded'
<1>1. queue'[h] = <<>> /\ active'[h] = NoConn
  BY DEF CloseListener, WireInv, Carries
<1>2. \A g \in Hosts \ {h} : queue'[g] = queue[g] /\ active'[g] = active[g]
  BY DEF CloseListener, WireInv, Carries
<1>3. ASSUME NEW c \in Callers
      PROVE  Open(c)' <=> Open(c) /\ c \notin Queued(h) /\ active[h].from # c
  <2>1. CASE c \in Queued(h)
    BY <2>1 DEF CloseListener, Open, Ended
  <2>2. CASE c \notin Queued(h) /\ active[h].from = c
    BY <2>2 DEF CloseListener, Open, Ended
  <2>3. CASE c \notin Queued(h) /\ active[h].from # c
    BY <2>3 DEF CloseListener, Open
  <2> QED
    BY <2>1, <2>2, <2>3
<1>4. Accounted'
  <2>1. \A c \in Callers, g \in Hosts \ {h} :
           /\ active'[g].from = c <=> active[g].from = c /\ c \notin {}
           /\ \A k \in 1..Backlog :
                Standing(c, g, k)' <=> Standing(c, g, k) /\ c \notin {}
    BY <1>2 DEF Standing
  <2>2. \A c \in Callers :
          Open(c)' <=> /\ Open(c) /\ c \notin {}
                       /\ c \notin Queued(h) /\ active[h].from # c
    BY <1>3
  <2> QED
    BY <1>1, <2>1, <2>2, SocketsClosed
<1>5. Bounded'
  <2>1. ASSUME NEW g \in Hosts
        PROVE  Len(queue'[g]) <= Backlog /\ (queue'[g] # <<>> => g \in listening')
    <3>1. CASE g = h
      BY <1>1, <3>1, WireAssumption
    <3>2. CASE g # h
      BY <1>2, <3>2 DEF CloseListener, Bounded
    <3> QED
      BY <3>1, <3>2
  <2> QED
    BY <2>1 DEF Bounded, Hosts
<1> QED
  BY <1>4, <1>5

(* Closing a caller's end moves nobody else.                               *)
LEMMA AbandonedStanding ==
  ASSUME NEW S, WireInv(S), NEW C, NEW d \in Callers, NEW h \in Hosts
  PROVE  /\ Len(AbandonedQueue(C)[h]) = Len(queue[h])
         /\ AbandonedActive(C)[h].from = d <=> active[h].from = d /\ d \notin C
         /\ \A k \in 1..Len(queue[h]) :
              AbandonedQueue(C)[h][k].from = d <=> queue[h][k].from = d /\ d \notin C
<1>1. \A m \in Conn : Without(C, m).from = d <=> m.from = d /\ d \notin C
  BY NobodyCalls DEF Without, Conn
<1>2. active[h] \in Conn /\ queue[h] \in Seq(Conn)
  BY DEF WireInv, Carries
<1>3. AbandonedActive(C)[h] = Without(C, active[h])
  BY DEF AbandonedActive
<1>4. AbandonedQueue(C)[h] = [j \in 1..Len(queue[h]) |-> Without(C, queue[h][j])]
  BY DEF AbandonedQueue
<1>5. Len(AbandonedQueue(C)[h]) = Len(queue[h])
  BY <1>2, <1>4
<1>6. \A k \in 1..Len(queue[h]) : /\ queue[h][k] \in Conn
                                  /\ AbandonedQueue(C)[h][k] = Without(C, queue[h][k])
  BY <1>2, <1>4
<1> QED
  BY <1>1, <1>2, <1>3, <1>5, <1>6

LEMMA DiesAccounted ==
  ASSUME NEW S, WireInv(S), Accounted, Bounded, NEW h \in Hosts,
         NEW C \in SUBSET Callers, ProcessDies(h, C)
  PROVE  Accounted' /\ Bounded'
<1>1. queue'[h] = <<>> /\ active'[h] = NoConn
  BY DEF ProcessDies, AbandonedQueue, AbandonedActive
<1>2. \A g \in Hosts \ {h} : /\ queue'[g] = AbandonedQueue(C)[g]
                             /\ active'[g] = AbandonedActive(C)[g]
  BY DEF ProcessDies, AbandonedQueue, AbandonedActive
<1>3. ASSUME NEW c \in Callers
      PROVE  Open(c)' <=> /\ Open(c) /\ c \notin C
                          /\ c \notin Queued(h) /\ active[h].from # c
  <2>1. CASE c \in C
    BY <2>1 DEF ProcessDies, Open, Ended
  <2>2. CASE c \notin C /\ (c \in Queued(h) \/ active[h].from = c)
    BY <2>2 DEF ProcessDies, Open, Ended
  <2>3. CASE c \notin C /\ c \notin Queued(h) /\ active[h].from # c
    BY <2>3 DEF ProcessDies, Open
  <2> QED
    BY <2>1, <2>2, <2>3
<1>4. ASSUME NEW c \in Callers, NEW g \in Hosts \ {h}
      PROVE  /\ active'[g].from = c <=> active[g].from = c /\ c \notin C
             /\ \A k \in 1..Backlog :
                  Standing(c, g, k)' <=> Standing(c, g, k) /\ c \notin C
  <2>0. /\ Len(AbandonedQueue(C)[g]) = Len(queue[g])
        /\ AbandonedActive(C)[g].from = c <=> active[g].from = c /\ c \notin C
        /\ \A k \in 1..Len(queue[g]) :
             AbandonedQueue(C)[g][k].from = c <=> queue[g][k].from = c /\ c \notin C
    <3>1. g \in Hosts
      OBVIOUS
    <3> QED
      BY <3>1, AbandonedStanding
  <2>1. active'[g].from = c <=> active[g].from = c /\ c \notin C
    BY <1>2, <2>0
  <2>2. ASSUME NEW k \in 1..Backlog
        PROVE  Standing(c, g, k)' <=> Standing(c, g, k) /\ c \notin C
    <3>1. Len(queue'[g]) = Len(queue[g]) /\ Len(queue[g]) \in Nat
      BY <1>2, <2>0 DEF WireInv, Carries
    <3>2. k <= Len(queue[g]) => k \in 1..Len(queue[g])
      BY <3>1
    <3>3. k \in 1..Len(queue[g]) =>
            (queue'[g][k].from = c <=> queue[g][k].from = c /\ c \notin C)
      BY <1>2, <2>0
    <3> QED
      BY <3>1, <3>2, <3>3 DEF Standing
  <2> QED
    BY <2>1, <2>2
<1>5. Accounted'
  BY <1>1, <1>3, <1>4, SocketsClosed
<1>6. Bounded'
  <2>1. ASSUME NEW g \in Hosts
        PROVE  Len(queue'[g]) <= Backlog /\ (queue'[g] # <<>> => g \in listening')
    <3>1. CASE g = h
      BY <1>1, <3>1, WireAssumption
    <3>2. CASE g # h
      <4>1. queue'[g] = [j \in 1..Len(queue[g]) |-> Without(C, queue[g][j])]
        BY <1>2, <3>2 DEF AbandonedQueue
      <4>2. queue[g] \in Seq(Conn) /\ Len(queue'[g]) = Len(queue[g])
        BY <4>1 DEF WireInv, Carries
      <4>3. queue[g] = <<>> => queue'[g] = <<>>
        BY <4>1
      <4> QED
        BY <3>2, <4>2, <4>3 DEF ProcessDies, Bounded
    <3> QED
      BY <3>1, <3>2
  <2> QED
    BY <2>1 DEF Bounded, Hosts
<1> QED
  BY <1>5, <1>6

LEMMA CutCarries ==
  ASSUME NEW S, Closed(S), WireInv(S), NEW c
  PROVE  /\ CutQueue(c) \in [Hosts -> Seq(Conn)]
         /\ \A h \in Hosts : CutQueue(c)[h] \in Seq(S[h])
<1>1. ASSUME NEW h \in Hosts
      PROVE  CutQueue(c)[h] \in Seq(S[h]) /\ CutQueue(c)[h] \in Seq(Conn)
  <2>1. /\ queue[h] \in Seq(S[h]) /\ queue[h] \in Seq(Conn) /\ Len(queue[h]) \in Nat
        /\ NoConn \in S[h] /\ NoConn \in Conn
    BY DEF WireInv, Carries, Closed
  <2>2. \A k \in 1..Len(queue[h]) :
          /\ (IF queue[h][k].from = c THEN NoConn ELSE queue[h][k]) \in S[h]
          /\ (IF queue[h][k].from = c THEN NoConn ELSE queue[h][k]) \in Conn
    BY <2>1
  <2> QED
    BY <2>1, <2>2 DEF CutQueue
<1> QED
  BY <1>1 DEF CutQueue

LEMMA GoneAccounted ==
  ASSUME NEW S, WireInv(S), Accounted, Bounded, NEW c \in Callers,
         queue' = AbandonedQueue({c}) \/ queue' = CutQueue(c),
         active' = AbandonedActive({c}),
         link' = [link EXCEPT ![c] = Ended("none")],
         UNCHANGED listening
  PROVE  Accounted' /\ Bounded'
<1>1. ASSUME NEW d \in Callers
      PROVE  Open(d)' <=> Open(d) /\ d \notin {c} /\ Places(d) \cap {} = {}
  BY DEF Open, Ended, WireInv
<1>2. CASE queue' = AbandonedQueue({c})
  <2>1. ASSUME NEW d \in Callers
        PROVE  Places(d)' = IF d \in {c} THEN {} ELSE Places(d) \ {}
    BY <1>2, AbandonedPlaces
  <2> QED
    BY <1>1, <1>2, <2>1, Closing, AbandonedBounded
<1>3. CASE queue' = CutQueue(c)
  <2>1. ASSUME NEW h \in Hosts
        PROVE  /\ queue[h] \in Seq(Conn) /\ Len(queue[h]) \in Nat
               /\ Len(queue'[h]) = Len(queue[h])
               /\ queue[h] = <<>> => queue'[h] = <<>>
               /\ \A k \in 1..Len(queue[h]) :
                    queue'[h][k] = IF queue[h][k].from = c THEN NoConn ELSE queue[h][k]
    <3>1. queue'[h] = [k \in 1..Len(queue[h]) |->
                         IF queue[h][k].from = c THEN NoConn ELSE queue[h][k]]
      BY <1>3 DEF CutQueue
    <3>2. queue[h] \in Seq(Conn) /\ Len(queue[h]) \in Nat
      BY DEF WireInv, Carries
    <3>3. queue[h] = <<>> => queue'[h] = <<>>
      BY <3>1
    <3>4. Len(queue'[h]) = Len(queue[h])
      BY <3>1, <3>2
    <3>5. \A k \in 1..Len(queue[h]) :
            queue'[h][k] = IF queue[h][k].from = c THEN NoConn ELSE queue[h][k]
      BY <3>1
    <3> QED
      BY <3>2, <3>3, <3>4, <3>5
  <2>2. ASSUME NEW d \in Callers
        PROVE  Places(d)' = IF d \in {c} THEN {} ELSE Places(d) \ {}
    <3>1. ASSUME NEW h \in Hosts, NEW k \in 0..Backlog
          PROVE  At(d, h, k)' <=> At(d, h, k) /\ d # c
      <4>1. CASE k = 0
        <5>0. AbandonedActive({c})[h].from = d <=> active[h].from = d /\ d \notin {c}
          BY AbandonedStanding
        <5>1. active'[h].from = d <=> active[h].from = d /\ d \notin {c}
          BY <5>0
        <5> QED
          BY <4>1, <5>1 DEF At
      <4>2. CASE k # 0
        <5>1. k <= Len(queue[h]) => k \in 1..Len(queue[h])
          BY <2>1, <4>2
        <5>2. NoConn.from # d
          BY NobodyCalls DEF NoConn
        <5> QED
          BY <2>1, <4>2, <5>1, <5>2 DEF At
      <4> QED
        BY <4>1, <4>2
    <3>2. \A p \in Hosts \X (0..Backlog) :
            p \in Places(d)' <=> p \in Places(d) /\ d # c
      BY <3>1 DEF Places, Hosts
    <3>3. Places(d) \subseteq Hosts \X (0..Backlog) /\ Places(d)' \subseteq Hosts \X (0..Backlog)
      BY DEF Places, Hosts
    <3> QED
      BY <3>2, <3>3
  <2>3. Bounded'
    BY <2>1 DEF Bounded, Hosts
  <2> QED
    BY <1>1, <2>2, <2>3, Closing
<1> QED
  BY <1>2, <1>3

(* What the invariants say when a new state is one of the old ones.        *)
LEMMA AccountedCounts ==
  ASSUME Accounted, Bounded
  PROVE  ConnectionsAccounted
<1>1. ASSUME NEW c \in Callers
      PROVE  Cardinality(Places(c)) = IF link[c].state = "open" THEN 1 ELSE 0
  <2>1. CASE Open(c)
    <3>1. PICK p \in Hosts \X (0..Backlog) : Places(c) = {p}
      BY <2>1 DEF Accounted
    <3>2. Cardinality(Places(c)) = 1
      BY <3>1, FS_Singleton
    <3> QED
      BY <2>1, <3>2 DEF Open
  <2>2. CASE ~Open(c)
    <3>1. Places(c) = {}
      BY <2>2 DEF Accounted
    <3> QED
      BY <2>2, <3>1, FS_EmptySet DEF Open
  <2> QED
    BY <2>1, <2>2
<1> QED
  BY <1>1 DEF ConnectionsAccounted, Bounded

-----------------------------------------------------------------------------
(* The interface of this module: what a step of a process may rely on.     *)

Sound(S) == WireInv(S) /\ Accounted /\ Bounded

(* No caller but those in C begins to wait, and no host but those in H     *)
(* accepts a connection, in this step.                                     *)
OpensOnly(C) == \A d \in Callers \ C : Open(d)' => Open(d)

AcceptsOnly(H) ==
  \A h \in Hosts \ H : active[h].from = Nobody => active'[h].from = Nobody

LEMMA SameSound ==
  ASSUME NEW S, Sound(S), UNCHANGED wire
  PROVE  Sound(S)' /\ OpensOnly({}) /\ AcceptsOnly({})
<1>1. UNCHANGED <<listening, queue, active, link>>
  BY DEF wire
<1>2. \A c : Places(c)' = Places(c)
  BY <1>1 DEF Places, At, Hosts
<1> QED
  BY <1>1, <1>2 DEF Sound, WireInv, Carries, Accounted, Bounded, Open,
                    OpensOnly, AcceptsOnly, Hosts, Callers

LEMMA ListenSound ==
  ASSUME NEW S, Sound(S), NEW h \in Hosts, OpenListener(h),
         UNCHANGED <<queue, active, link>>
  PROVE  Sound(S)' /\ OpensOnly({}) /\ AcceptsOnly({})
<1>1. \A c : Places(c)' = Places(c)
  BY DEF Places, At, Hosts
<1> QED
  BY <1>1 DEF OpenListener, Sound, WireInv, Carries, Accounted, Bounded, Open,
              OpensOnly, AcceptsOnly, Hosts, Callers

LEMMA ResetSound ==
  ASSUME NEW S, Sound(S), NEW c \in Callers, ~Open(c),
         link' = [link EXCEPT ![c] = Ended("none")],
         UNCHANGED <<listening, queue, active>>
  PROVE  Sound(S)' /\ OpensOnly({}) /\ AcceptsOnly({}) /\ ~Open(c)'
<1>1. \A d : Places(d)' = Places(d)
  BY DEF Places, At, Hosts
<1>2. \A d \in Callers : Open(d)' <=> Open(d)
  BY DEF Open, Ended, Sound, WireInv
<1>3. link' \in [Callers -> Link]
  BY EndedType DEF Sound, WireInv, States
<1> QED
  BY <1>1, <1>2, <1>3 DEF Sound, WireInv, Carries, Accounted, Bounded,
                          OpensOnly, AcceptsOnly, Hosts, Callers

LEMMA DialSound ==
  ASSUME NEW S, Closed(S), Sound(S), NEW c \in Callers, ~Open(c),
         NEW h \in Hosts, NEW op, NEW arg, NEW token,
         [from |-> c, op |-> op, arg |-> arg, token |-> token] \in S[h],
         Dial(c, h, op, arg, token)
  PROVE  Sound(S)' /\ OpensOnly({c}) /\ AcceptsOnly({})
<1>1. [from |-> c, op |-> op, arg |-> arg, token |-> token] \in Conn
  BY DEF Closed
<1>2. OpensOnly({c})
  BY DEF Dial, OpensOnly, Open, Sound, WireInv
<1>3. AcceptsOnly({})
  BY DEF Dial, AcceptsOnly
<1>4. WireInv(S)'
  BY DialCarries DEF Sound
<1>5. Accounted' /\ Bounded'
  BY <1>1, DialAccounted DEF Sound
<1> QED
  BY <1>2, <1>3, <1>4, <1>5 DEF Sound

LEMMA TimeoutSound ==
  ASSUME NEW S, Closed(S), Sound(S), NEW c \in Callers, Timeout(c)
  PROVE  Sound(S)' /\ OpensOnly({}) /\ AcceptsOnly({})
<1>1. OpensOnly({})
  BY DEF Timeout, OpensOnly, Open, Ended, Sound, WireInv
<1>2. AcceptsOnly({})
  BY DEF Timeout, AcceptsOnly, AbandonedActive, Without, Sound, WireInv, Carries, Conn
<1>3. WireInv(S)'
  BY TimeoutCarries DEF Sound
<1>4. Accounted' /\ Bounded'
  BY TimeoutAccounted DEF Sound
<1> QED
  BY <1>1, <1>2, <1>3, <1>4 DEF Sound

LEMMA TakeSound ==
  ASSUME NEW S, Closed(S), Sound(S), NEW h \in Hosts,
         active[h].from = Nobody, TakeConnection(h)
  PROVE  Sound(S)' /\ OpensOnly({}) /\ AcceptsOnly({h})
<1>1. OpensOnly({})
  BY DEF TakeConnection, OpensOnly, Open
<1>2. AcceptsOnly({h})
  BY DEF TakeConnection, AcceptsOnly, Sound, WireInv, Carries
<1>3. WireInv(S)'
  BY TakeCarries DEF Sound
<1>4. Accounted' /\ Bounded'
  BY TakeAccounted DEF Sound
<1> QED
  BY <1>1, <1>2, <1>3, <1>4 DEF Sound

(* The accepted connection is closed, with or without an answer.           *)
LEMMA CloseSound ==
  ASSUME NEW S, Closed(S), Sound(S), NEW h \in Hosts,
         active' = [active EXCEPT ![h] = NoConn],
         link' \in [Callers -> Link],
         \A c \in Callers : Open(c)' <=> Open(c) /\ active[h].from # c,
         UNCHANGED <<listening, queue>>
  PROVE  Sound(S)' /\ OpensOnly({}) /\ AcceptsOnly({}) /\ active'[h].from = Nobody
<1>1. OpensOnly({})
  BY DEF OpensOnly
<1>2. AcceptsOnly({}) /\ active'[h].from = Nobody
  BY DEF AcceptsOnly, NoConn, Sound, WireInv, Carries
<1>3. WireInv(S)'
  BY CloseCarries DEF Sound, WireInv
<1>4. Accounted'
  BY CloseAccounted DEF Sound, Standing
<1>5. Bounded'
  BY DEF Sound, Bounded, Hosts
<1> QED
  BY <1>1, <1>2, <1>3, <1>4, <1>5 DEF Sound

LEMMA PostSound ==
  ASSUME NEW S, Closed(S), Sound(S), NEW h \in Hosts,
         NEW op, NEW arg, NEW token,
         [from |-> Nobody, op |-> op, arg |-> arg, token |-> token] \in S[h],
         Post(h, op, arg, token), UNCHANGED <<listening, active, link>>
  PROVE  Sound(S)' /\ OpensOnly({}) /\ AcceptsOnly({})
<1>1. OpensOnly({}) /\ AcceptsOnly({})
  BY DEF OpensOnly, AcceptsOnly, Open
<1>2. [from |-> Nobody, op |-> op, arg |-> arg, token |-> token] \in Conn
  BY DEF Closed
<1>3. WireInv(S)'
  BY PostCarries DEF Sound, WireInv, Carries
<1>4. Bounded'
  BY PostBounded DEF Sound
<1>5. ASSUME NEW c \in Callers
      PROVE  Places(c)' = Places(c) /\ (Open(c)' <=> Open(c))
  <2>1. ASSUME NEW g \in Hosts, NEW k \in 0..Backlog
        PROVE  At(c, g, k)' <=> At(c, g, k)
    <3>1. CASE k = 0
      BY <3>1 DEF At
    <3>2. CASE k # 0
      <4>1. k \in 1..Backlog
        BY <3>2, WireAssumption
      <4>2. Standing(c, g, k)' <=> Standing(c, g, k)
        BY <1>2, <4>1, PostStanding DEF Sound
      <4> QED
        BY <3>2, <4>2 DEF At, Standing
    <3> QED
      BY <3>1, <3>2
  <2>2. \A p \in Hosts \X (0..Backlog) : At(c, p[1], p[2])' <=> At(c, p[1], p[2])
    BY <2>1
  <2> QED
    BY <2>2 DEF Places, Open, Hosts
<1>6. Accounted'
  <2>1. ASSUME NEW c \in Callers
        PROVE  IF Open(c)'
               THEN \E p \in Hosts \X (0..Backlog) : Places(c)' = {p}
               ELSE Places(c)' = {}
    BY <1>5 DEF Sound, Accounted
  <2> QED
    BY <2>1 DEF Accounted, Hosts, Callers
<1> QED
  BY <1>1, <1>3, <1>4, <1>6 DEF Sound

(* The same, and a message has been sent to another host before.           *)
LEMMA PostCloseSound ==
  ASSUME NEW S, Closed(S), Sound(S), NEW h \in Hosts, NEW g \in Hosts,
         NEW op, NEW arg, NEW token,
         [from |-> Nobody, op |-> op, arg |-> arg, token |-> token] \in S[g],
         Post(g, op, arg, token),
         active' = [active EXCEPT ![h] = NoConn],
         link' \in [Callers -> Link],
         \A c \in Callers : Open(c)' <=> Open(c) /\ active[h].from # c,
         UNCHANGED listening
  PROVE  Sound(S)' /\ OpensOnly({}) /\ AcceptsOnly({}) /\ active'[h].from = Nobody
<1>1. OpensOnly({})
  BY DEF OpensOnly
<1>2. AcceptsOnly({}) /\ active'[h].from = Nobody
  BY DEF AcceptsOnly, NoConn, Sound, WireInv, Carries
<1>3. [from |-> Nobody, op |-> op, arg |-> arg, token |-> token] \in Conn
  BY DEF Closed
<1>4. queue' \in [Hosts -> Seq(Conn)] /\ \A f \in Hosts : queue'[f] \in Seq(S[f])
  BY PostCarries DEF Sound
<1>5. active' \in [Hosts -> Conn] /\ \A f \in Hosts : active'[f] \in S[f]
  <2>1. NoConn \in S[h] /\ NoConn \in Conn
    BY DEF Closed
  <2> QED
    BY <2>1 DEF Sound, WireInv, Carries
<1>6. WireInv(S)'
  BY <1>4, <1>5 DEF Sound, WireInv, Carries
<1>7. ASSUME NEW c \in Callers, NEW f \in Hosts, NEW k \in 1..Backlog
      PROVE  Standing(c, f, k)' <=> Standing(c, f, k)
  BY <1>3, PostStanding DEF Sound
<1>8. Accounted'
  BY <1>7, CloseAccounted DEF Sound
<1>9. Bounded'
  BY PostBounded DEF Sound
<1> QED
  BY <1>1, <1>2, <1>6, <1>8, <1>9 DEF Sound

LEMMA AnswerSound ==
  ASSUME NEW S, Closed(S), Sound(S), NEW h \in Hosts, NEW text \in Texts,
         NEW names \in SUBSET Names, AnswerAndClose(h, text, names)
  PROVE  Sound(S)' /\ OpensOnly({}) /\ AcceptsOnly({}) /\ active'[h].from = Nobody
<1>1. \A c \in Callers : Open(c)' <=> Open(c) /\ active[h].from # c
  BY DEF AnswerAndClose, AnsweredLinks, Open
<1>2. link' \in [Callers -> Link]
  BY AnsweredType DEF AnswerAndClose, Sound
<1> QED
  BY <1>1, <1>2, CloseSound DEF AnswerAndClose

LEMMA HangUpSound ==
  ASSUME NEW S, Closed(S), Sound(S), NEW h \in Hosts, HangUp(h)
  PROVE  Sound(S)' /\ OpensOnly({}) /\ AcceptsOnly({}) /\ active'[h].from = Nobody
<1>1. \A c \in Callers : Open(c)' <=> Open(c) /\ active[h].from # c
  BY DEF HangUp, Ended, Open
<1>2. link' \in [Callers -> Link]
  BY HangUpCarries DEF Sound, WireInv
<1> QED
  BY <1>1, <1>2, CloseSound DEF HangUp

LEMMA CloseListenerSound ==
  ASSUME NEW S, Closed(S), Sound(S), NEW h \in Hosts, CloseListener(h)
  PROVE  Sound(S)' /\ OpensOnly({}) /\ AcceptsOnly({}) /\ active'[h].from = Nobody
<1>1. ASSUME NEW c \in Callers
      PROVE  Open(c)' => Open(c)
  <2>1. CASE c \in Queued(h)
    BY <2>1 DEF CloseListener, Open, Ended
  <2>2. CASE c \notin Queued(h) /\ active[h].from = c
    BY <2>2 DEF CloseListener, Open, Ended
  <2>3. CASE c \notin Queued(h) /\ active[h].from # c
    BY <2>3 DEF CloseListener, Open
  <2> QED
    BY <2>1, <2>2, <2>3
<1>2. AcceptsOnly({}) /\ active'[h].from = Nobody
  BY DEF CloseListener, AcceptsOnly, NoConn, Sound, WireInv, Carries
<1> QED
  BY <1>1, <1>2, CloseListenerCarries, CloseListenerAccounted DEF Sound, OpensOnly

LEMMA DiesSound ==
  ASSUME NEW S, Closed(S), Sound(S), NEW h \in Hosts,
         NEW C \in SUBSET Callers, ProcessDies(h, C)
  PROVE  /\ Sound(S)' /\ OpensOnly({}) /\ AcceptsOnly({})
         /\ active'[h].from = Nobody
         /\ \A c \in C : ~Open(c)'
<1>1. ASSUME NEW c \in Callers
      PROVE  (Open(c)' => Open(c)) /\ (c \in C => ~Open(c)')
  <2>1. CASE c \in C
    BY <2>1 DEF ProcessDies, Open, Ended
  <2>2. CASE c \notin C /\ (c \in Queued(h) \/ active[h].from = c)
    BY <2>2 DEF ProcessDies, Open, Ended
  <2>3. CASE c \notin C /\ c \notin Queued(h) /\ active[h].from # c
    BY <2>3 DEF ProcessDies, Open
  <2> QED
    BY <2>1, <2>2, <2>3
<1>2. active'[h].from = Nobody
  BY DEF ProcessDies, NoConn, AbandonedActive
<1>3. AcceptsOnly({})
  BY DEF ProcessDies, AcceptsOnly, AbandonedActive, Without, NoConn, Sound,
         WireInv, Carries, Conn
<1> QED
  BY <1>1, <1>2, <1>3, DiesCarries, DiesAccounted DEF Sound, OpensOnly

LEMMA GoneSound ==
  ASSUME NEW S, Closed(S), Sound(S), NEW c \in Callers,
         queue' = AbandonedQueue({c}) \/ queue' = CutQueue(c),
         active' = AbandonedActive({c}),
         link' = [link EXCEPT ![c] = Ended("none")],
         UNCHANGED listening
  PROVE  Sound(S)' /\ OpensOnly({}) /\ AcceptsOnly({})
<1>1. OpensOnly({})
  BY DEF OpensOnly, Open, Ended, Sound, WireInv
<1>2. AcceptsOnly({})
  BY DEF AcceptsOnly, AbandonedActive, Without, Sound, WireInv, Carries, Conn
<1>3. WireInv(S)'
  <2>1. link' \in [Callers -> Link]
    BY EndedType DEF Sound, WireInv, States
  <2>2. Carries(S)'
    BY AbandonedCarries, CutCarries DEF Sound, Carries
  <2> QED
    BY <2>1, <2>2 DEF Sound, WireInv
<1>4. Accounted' /\ Bounded'
  BY GoneAccounted DEF Sound
<1> QED
  BY <1>1, <1>2, <1>3, <1>4 DEF Sound
=============================================================================
