--------------------------- MODULE Stored_proofs ---------------------------
(***************************************************************************)
(* With one client, a write that was reported as done is on a disk: no     *)
(* DELETE is behind a WRITE in a queue that the WRITE has to pass, neither *)
(* the master's nor the worker's.                                          *)
(***************************************************************************)
EXTENDS PekarDrive_proofs

(* A message by which host h would begin to delete, or delete, a file.     *)
Deletes(h, m) == m.op = "DELETE" /\ (h # Master => m.token = "master")

NoDelete(h) ==
  /\ ~Deletes(h, active[h])
  /\ \A k \in 1..Len(queue[h]) : ~Deletes(h, queue[h][k])

(* Nothing behind the message of caller x at host h deletes.               *)
NoneBehind(h, x) ==
  /\ active[h].from = x =>
       \A k \in 1..Len(queue[h]) : ~Deletes(h, queue[h][k])
  /\ \A j, k \in 1..Len(queue[h]) :
       j < k /\ queue[h][j].from = x => ~Deletes(h, queue[h][k])

(* A name that n may have become is on a disk, and stays there.            *)
Stored(n) ==
  \E w \in Workers : disk[w] \cap Decoded(n) # {} /\ NoDelete(w)

(* What client c has sent is what it was called with.                      *)
Carried(c, m) ==
  m.from = c => /\ m.op = request[c].op
                /\ m.token = "other"
                /\ m.op = "WRITE" => m.arg \in Decoded(request[c].file)

Sent(c) ==
  \A h \in Hosts : /\ Carried(c, active[h])
                   /\ \A k \in 1..Len(queue[h]) : Carried(c, queue[h][k])

(* What the main thread has sent to worker w is what n may have become.    *)
Ahead(w, n) ==
  /\ active[w].from = Main => active[w].arg \in Decoded(n)
  /\ \A k \in 1..Len(queue[w]) :
       queue[w][k].from = Main => queue[w][k].arg \in Decoded(n)

(* Worker w has, or may get, the WRITE of the request the master handles.  *)
UnderWay(w) ==
  /\ Ahead(w, active[Master].arg)
  /\ NoneBehind(w, Main)
  /\ wpc[w] = "reply" /\ active[w].from = Main /\ written[w] = "count" =>
       disk[w] \cap Decoded(active[Master].arg) # {}

(* Client c has been told the number of bytes.                             *)
Told(c) == link[c].text = "count" \/ (cpc[c] = "done" /\ printed[c] = "count")

Reported(c) ==
  request[c].op = "WRITE" /\ Told(c) =>
    Stored(request[c].file) /\ NoDelete(Master)

Writing ==
  mpc = "writing" =>
    /\ \A w \in Workers : UnderWay(w)
    /\ link[Main].text = "count" => Stored(active[Master].arg)

Replying == \A w \in Workers : wpc[w] = "reply" => active[w].token = "master"

Found == mpc = "found" => active[Master].op = "DELETE"

SInv(c) ==
  /\ Sent(c)
  /\ NoneBehind(Master, c)
  /\ Writing
  /\ Reported(c)
  /\ Replying
  /\ Found

-----------------------------------------------------------------------------
(* How a step can change the messages.                                     *)

Same(n, m) ==
  /\ n.from \in {m.from, Nobody}
  /\ n.op = m.op /\ n.arg = m.arg /\ n.token = m.token

Weak(n, m) == Same(n, m) \/ n = NoConn

(* Queues lose callers, or are lost.                                       *)
QueuesFade ==
  \A h \in Hosts :
    \/ queue'[h] = <<>>
    \/ /\ Len(queue'[h]) = Len(queue[h])
       /\ \A k \in 1..Len(queue[h]) : Weak(queue'[h][k], queue[h][k])

(* Accepted connections lose callers; those of the hosts in H are closed.  *)
ActiveFades(H) ==
  \A h \in Hosts : IF h \in H THEN active'[h] = NoConn
                              ELSE Same(active'[h], active[h])

Fades(H) == QueuesFade /\ ActiveFades(H)

(* Nobody but D is told a count.                                           *)
CountsOnly(D) ==
  \A d \in Callers \ D : link'[d].text = "count" => link[d].text = "count"

(* Message m may be behind the others at host h.                           *)
Sends(h, m) ==
  queue' = queue \/ queue' = [queue EXCEPT ![h] = Append(@, m)]

LEMMA DecodedDeeper ==
  ASSUME NEW n, NEW m \in Decoded(n)
  PROVE  Decoded(m) \subseteq Decoded(n)
BY WireAssumption DEF Decoded

LEMMA Messages ==
  ASSUME IInv, NEW h \in Hosts
  PROVE  /\ active[h] \in Conn /\ queue[h] \in Seq(Conn)
         /\ Len(queue[h]) \in Nat
         /\ \A k \in 1..Len(queue[h]) : queue[h][k] \in Conn
BY DEF IInv, Sound, WireInv, Carries

LEMMA SameFades ==
  ASSUME UNCHANGED <<queue, active>>
  PROVE  Fades({})
BY DEF Fades, QueuesFade, ActiveFades, Weak, Same

LEMMA AbandonedFades ==
  ASSUME IInv, NEW C,
         queue' = AbandonedQueue(C), active' = AbandonedActive(C)
  PROVE  Fades({})
<1>1. \A m \in Conn : Same(Without(C, m), m)
  BY DEF Without, Same, Conn
<1>2. ASSUME NEW h \in Hosts
      PROVE  /\ Len(queue'[h]) = Len(queue[h])
             /\ \A k \in 1..Len(queue[h]) : Weak(queue'[h][k], queue[h][k])
             /\ Same(active'[h], active[h])
  <2>1. queue'[h] = [k \in 1..Len(queue[h]) |-> Without(C, queue[h][k])]
    BY DEF AbandonedQueue
  <2>2. Len(queue'[h]) = Len(queue[h])
    BY <2>1, Messages
  <2>3. active'[h] = Without(C, active[h])
    BY DEF AbandonedActive
  <2> QED
    BY <1>1, <2>1, <2>2, <2>3, Messages DEF Weak
<1> QED
  BY <1>2 DEF Fades, QueuesFade, ActiveFades

LEMMA CutFades ==
  ASSUME IInv, NEW c, queue' = CutQueue(c), active' = AbandonedActive({c})
  PROVE  Fades({})
<1>1. \A m \in Conn : Same(Without({c}, m), m) /\ Same(m, m)
  BY DEF Without, Same, Conn
<1>2. ASSUME NEW h \in Hosts
      PROVE  /\ Len(queue'[h]) = Len(queue[h])
             /\ \A k \in 1..Len(queue[h]) : Weak(queue'[h][k], queue[h][k])
             /\ Same(active'[h], active[h])
  <2>1. queue'[h] = [k \in 1..Len(queue[h]) |->
                       IF queue[h][k].from = c THEN NoConn ELSE queue[h][k]]
    BY DEF CutQueue
  <2>2. Len(queue'[h]) = Len(queue[h])
    BY <2>1, Messages
  <2>3. active'[h] = Without({c}, active[h])
    BY DEF AbandonedActive
  <2> QED
    BY <1>1, <2>1, <2>2, <2>3, Messages DEF Weak
<1> QED
  BY <1>2 DEF Fades, QueuesFade, ActiveFades

LEMMA CloseFades ==
  ASSUME IInv, NEW h \in Hosts,
         active' = [active EXCEPT ![h] = NoConn], UNCHANGED queue
  PROVE  Fades({h})
BY Messages DEF Fades, QueuesFade, ActiveFades, Weak, Same, IInv, Sound,
                WireInv, Carries

LEMMA CloseListenerFades ==
  ASSUME IInv, NEW h \in Hosts, CloseListener(h)
  PROVE  Fades({h}) /\ CountsOnly({})
<1>1. Fades({h})
  BY DEF CloseListener, Fades, QueuesFade, ActiveFades, Weak, Same, IInv,
         Sound, WireInv, Carries
<1>2. ASSUME NEW d \in Callers, link'[d].text = "count"
      PROVE  link[d].text = "count"
  <2>1. CASE d \in Queued(h)
    BY <1>2, <2>1 DEF CloseListener, Ended
  <2>2. CASE d \notin Queued(h) /\ active[h].from = d
    BY <1>2, <2>2 DEF CloseListener, Ended
  <2>3. CASE d \notin Queued(h) /\ active[h].from # d
    BY <1>2, <2>3 DEF CloseListener
  <2> QED
    BY <2>1, <2>2, <2>3
<1> QED
  BY <1>1, <1>2 DEF CountsOnly

LEMMA DiesFades ==
  ASSUME IInv, NEW h \in Hosts, NEW C, ProcessDies(h, C)
  PROVE  Fades({h}) /\ CountsOnly({})
<1>1. \A m \in Conn : Same(Without(C, m), m)
  BY DEF Without, Same, Conn
<1>2. active'[h] = NoConn /\ queue'[h] = <<>>
  BY DEF ProcessDies, AbandonedActive, AbandonedQueue
<1>3. ASSUME NEW g \in Hosts \ {h}
      PROVE  /\ Len(queue'[g]) = Len(queue[g])
             /\ \A k \in 1..Len(queue[g]) : Weak(queue'[g][k], queue[g][k])
             /\ Same(active'[g], active[g])
  <2>1. queue'[g] = [k \in 1..Len(queue[g]) |-> Without(C, queue[g][k])]
    BY DEF ProcessDies, AbandonedQueue
  <2>2. Len(queue'[g]) = Len(queue[g])
    BY <2>1, Messages
  <2>3. active'[g] = Without(C, active[g])
    BY DEF ProcessDies, AbandonedActive
  <2> QED
    BY <1>1, <2>1, <2>2, <2>3, Messages DEF Weak
<1>4. ASSUME NEW d \in Callers, link'[d].text = "count"
      PROVE  link[d].text = "count"
  <2>1. CASE d \in C
    BY <1>4, <2>1 DEF ProcessDies, Ended
  <2>2. CASE d \notin C /\ (d \in Queued(h) \/ active[h].from = d)
    BY <1>4, <2>2 DEF ProcessDies, Ended
  <2>3. CASE d \notin C /\ d \notin Queued(h) /\ active[h].from # d
    BY <1>4, <2>3 DEF ProcessDies
  <2> QED
    BY <2>1, <2>2, <2>3
<1> QED
  BY <1>2, <1>3, <1>4 DEF Fades, QueuesFade, ActiveFades, CountsOnly

LEMMA HangUpCounts ==
  ASSUME NEW h, HangUp(h)
  PROVE  CountsOnly({})
<1> SUFFICES ASSUME NEW d \in Callers, link'[d].text = "count"
             PROVE  link[d].text = "count"
  BY DEF CountsOnly
<1>1. CASE active[h].from = d
  <2>1. link'[d] = Ended("eof")
    BY <1>1 DEF HangUp
  <2>2. Ended("eof").text = ""
    BY DEF Ended
  <2> QED
    BY <2>1, <2>2
<1>2. CASE active[h].from # d
  BY <1>2 DEF HangUp
<1> QED
  BY <1>1, <1>2

LEMMA AnswerCounts ==
  ASSUME NEW h, NEW text, NEW names, AnswerAndClose(h, text, names),
         text # "count"
  PROVE  CountsOnly({})
BY DEF AnswerAndClose, AnsweredLinks, CountsOnly

-----------------------------------------------------------------------------
(* What every step keeps that sends no DELETE.                             *)

Kept(H) ==
  /\ \A h \in H, x \in Callers : NoneBehind(h, x) => NoneBehind(h, x)'
  /\ \A h \in H : NoDelete(h) => NoDelete(h)'

Moves(c) == Kept(Hosts) /\ (Sent(c) => Sent(c)')

(* ... and in which the main thread sends nothing.                         *)
AheadKept == \A w \in Workers : \A n : Ahead(w, n) => Ahead(w, n)'

LEMMA SentNext ==
  ASSUME NEW c, UNCHANGED request,
         \A h \in Hosts : /\ Carried(c, active'[h])
                         /\ \A k \in 1..Len(queue'[h]) : Carried(c, queue'[h][k])
  PROVE  Sent(c)'
<1>1. ASSUME NEW h \in Hosts
      PROVE  Carried(c, active[h])'
  BY DEF Carried
<1>2. ASSUME NEW h \in Hosts, NEW k \in 1..Len(queue'[h])
      PROVE  Carried(c, queue[h][k])'
  BY DEF Carried
<1> QED
  BY <1>1, <1>2 DEF Sent, Hosts

LEMMA AheadNext ==
  ASSUME NEW w, NEW n,
         active'[w].from = Main => active'[w].arg \in Decoded(n),
         \A k \in 1..Len(queue'[w]) :
           queue'[w][k].from = Main => queue'[w][k].arg \in Decoded(n)
  PROVE  Ahead(w, n)'
BY DEF Ahead

LEMMA FadesMove ==
  ASSUME IInv, NEW c \in Clients, NEW H, Fades(H)
  PROVE  /\ Kept(Hosts) /\ AheadKept
         /\ UNCHANGED request => Moves(c)
<1>1. ASSUME NEW h \in Hosts, NEW n, NEW m \in Conn, Weak(n, m)
      PROVE  /\ Deletes(h, n) => Deletes(h, m)
             /\ \A x \in Callers : n.from = x => n = [m EXCEPT !.from = x] \/
                  (m.from = x /\ n.op = m.op /\ n.arg = m.arg /\ n.token = m.token)
             /\ \A x \in Callers : n.from = x => m.from = x
  BY <1>1, NobodyCalls DEF Weak, Same, NoConn, Deletes
<1>2. ASSUME NEW h \in Hosts
      PROVE  Weak(active'[h], active[h])
  BY DEF Fades, ActiveFades, Weak
<1>3. ASSUME NEW h \in Hosts, NEW k \in 1..Len(queue'[h])
      PROVE  /\ k \in 1..Len(queue[h]) /\ Weak(queue'[h][k], queue[h][k])
             /\ Len(queue'[h]) = Len(queue[h])
  <2>1. Len(<<>>) = 0
    OBVIOUS
  <2> QED
    BY <1>3, <2>1 DEF Fades, QueuesFade
<1>4. \A x \in Callers, h \in Hosts :
        /\ active'[h].from = x =>
             /\ active[h].from = x /\ active'[h].op = active[h].op
             /\ active'[h].arg = active[h].arg /\ active'[h].token = active[h].token
        /\ \A k \in 1..Len(queue'[h]) : queue'[h][k].from = x =>
             /\ queue[h][k].from = x /\ queue'[h][k].op = queue[h][k].op
             /\ queue'[h][k].arg = queue[h][k].arg
             /\ queue'[h][k].token = queue[h][k].token
  BY <1>2, <1>3, NobodyCalls DEF Weak, Same, NoConn
<1>5. \A h \in Hosts :
        /\ Deletes(h, active'[h]) => Deletes(h, active[h])
        /\ \A k \in 1..Len(queue'[h]) :
             Deletes(h, queue'[h][k]) => Deletes(h, queue[h][k])
  BY <1>1, <1>2, <1>3, Messages
<1>6. ASSUME NEW h \in Hosts, NEW x \in Callers, NoneBehind(h, x)
      PROVE  NoneBehind(h, x)'
  BY <1>3, <1>4, <1>5, <1>6 DEF NoneBehind
<1>7. ASSUME NEW h \in Hosts, NoDelete(h)
      PROVE  NoDelete(h)'
  BY <1>3, <1>5, <1>7 DEF NoDelete
<1>8. ASSUME NEW w \in Workers, NEW n, Ahead(w, n)
      PROVE  Ahead(w, n)'
  <2>1. w \in Hosts /\ Main \in Callers
    BY DEF Hosts, Callers
  <2> QED
    BY <1>3, <1>4, <1>8, <2>1, AheadNext DEF Ahead
<1>9. ASSUME Sent(c), UNCHANGED request
      PROVE  Sent(c)'
  <2>1. c \in Callers
    BY DEF Callers
  <2>2. ASSUME NEW h \in Hosts
        PROVE  /\ Carried(c, active'[h])
               /\ \A k \in 1..Len(queue'[h]) : Carried(c, queue'[h][k])
    <3>1. Carried(c, active'[h])
      BY <1>4, <1>9, <2>1 DEF Sent, Carried
    <3>2. ASSUME NEW k \in 1..Len(queue'[h])
          PROVE  Carried(c, queue'[h][k])
      BY <1>3, <1>4, <1>9, <2>1 DEF Sent, Carried
    <3> QED
      BY <3>1, <3>2
  <2> QED
    BY <1>9, <2>2, SentNext
<1> QED
  BY <1>6, <1>7, <1>8, <1>9 DEF Moves, Kept, AheadKept

LEMMA TakeMoves ==
  ASSUME IInv, NEW c \in Clients, NEW g \in Hosts, TakeConnection(g),
         UNCHANGED request
  PROVE  Moves(c) /\ AheadKept
<1>1. queue[g] \in Seq(Conn) /\ queue[g] # <<>> /\ Len(queue[g]) \in Nat \ {0}
  BY EmptySeq, Messages DEF TakeConnection
<1>2. /\ Len(queue'[g]) = Len(queue[g]) - 1
      /\ \A k \in 1..Len(queue'[g]) :
           k + 1 \in 1..Len(queue[g]) /\ queue'[g][k] = queue[g][k + 1]
  <2>1. queue'[g] = Tail(queue[g])
    BY DEF TakeConnection, IInv, Sound, WireInv, Carries
  <2> QED
    BY <1>1, <2>1, HeadTailProperties
<1>3. /\ active'[g].from = queue[g][1].from /\ active'[g].op = queue[g][1].op
      /\ active'[g].token = queue[g][1].token
      /\ active'[g].arg = queue[g][1].arg
           \/ active'[g].arg \in Decoded(queue[g][1].arg)
  <2>1. queue[g][1] = Head(queue[g]) /\ queue[g][1] \in Conn
    BY <1>1
  <2>2. PICK n \in (IF Head(queue[g]).arg \in Names
                    THEN Decoded(Head(queue[g]).arg) ELSE {Head(queue[g]).arg}) :
          active' = [active EXCEPT ![g] = [Head(queue[g]) EXCEPT !.arg = n]]
    BY DEF TakeConnection
  <2>3. active'[g] = [Head(queue[g]) EXCEPT !.arg = n]
    BY <2>2 DEF IInv, Sound, WireInv, Carries
  <2> QED
    BY <2>1, <2>2, <2>3 DEF Conn
<1>4. \A h \in Hosts \ {g} : queue'[h] = queue[h] /\ active'[h] = active[h]
  BY DEF TakeConnection, IInv, Sound, WireInv, Carries
<1>5. 1 \in 1..Len(queue[g])
  BY <1>1
<1>6. Deletes(g, active'[g]) <=> Deletes(g, queue[g][1])
  BY <1>3 DEF Deletes
<1>7. ASSUME NEW h \in Hosts, NEW x \in Callers, NoneBehind(h, x)
      PROVE  NoneBehind(h, x)'
  <2>1. CASE h = g
    <3>1. ASSUME active'[g].from = x, NEW k \in 1..Len(queue'[g])
          PROVE  ~Deletes(g, queue'[g][k])
      <4>1. 1 < k + 1 /\ queue[g][1].from = x
        BY <1>3, <3>1
      <4> QED
        BY <1>2, <1>5, <1>7, <2>1, <4>1 DEF NoneBehind
    <3>2. ASSUME NEW j \in 1..Len(queue'[g]), NEW k \in 1..Len(queue'[g]),
                 j < k, queue'[g][j].from = x
          PROVE  ~Deletes(g, queue'[g][k])
      <4>1. j + 1 < k + 1
        BY <3>2
      <4> QED
        BY <1>2, <1>7, <2>1, <3>2, <4>1 DEF NoneBehind
    <3> QED
      BY <2>1, <3>1, <3>2 DEF NoneBehind
  <2>2. CASE h # g
    BY <1>4, <1>7, <2>2 DEF NoneBehind
  <2> QED
    BY <2>1, <2>2
<1>8. ASSUME NEW h \in Hosts, NoDelete(h)
      PROVE  NoDelete(h)'
  <2>1. CASE h = g
    BY <1>2, <1>5, <1>6, <1>8, <2>1 DEF NoDelete
  <2>2. CASE h # g
    BY <1>4, <1>8, <2>2 DEF NoDelete
  <2> QED
    BY <2>1, <2>2
<1>9. ASSUME NEW w \in Workers, NEW n, Ahead(w, n)
      PROVE  Ahead(w, n)'
  <2>1. CASE w = g
    <3>1. ASSUME active'[g].from = Main
          PROVE  active'[g].arg \in Decoded(n)
      <4>1. queue[g][1].arg \in Decoded(n)
        BY <1>3, <1>5, <1>9, <2>1, <3>1 DEF Ahead
      <4> QED
        BY <1>3, <4>1, DecodedDeeper
    <3>2. \A k \in 1..Len(queue'[g]) :
            queue'[g][k].from = Main => queue'[g][k].arg \in Decoded(n)
      BY <1>2, <1>9, <2>1 DEF Ahead
    <3> QED
      BY <2>1, <3>1, <3>2, AheadNext
  <2>2. CASE w # g
    <3>1. w \in Hosts \ {g}
      BY <2>2 DEF Hosts
    <3> QED
      BY <1>4, <1>9, <3>1, AheadNext DEF Ahead
  <2> QED
    BY <2>1, <2>2
<1>10. ASSUME Sent(c)
       PROVE  Sent(c)'
  <2>1. ASSUME NEW h \in Hosts
        PROVE  /\ Carried(c, active'[h])
               /\ \A k \in 1..Len(queue'[h]) : Carried(c, queue'[h][k])
    <3>1. CASE h = g
      <4>1. ASSUME active'[g].from = c
            PROVE  /\ active'[g].op = request[c].op
                   /\ active'[g].token = "other"
                   /\ active'[g].op = "WRITE" =>
                        active'[g].arg \in Decoded(request[c].file)
        <5>1. Carried(c, queue[g][1]) /\ queue[g][1].from = c
          BY <1>3, <1>5, <1>10, <4>1 DEF Sent
        <5> QED
          BY <1>3, <5>1, DecodedDeeper DEF Carried
      <4>2. \A k \in 1..Len(queue'[g]) : Carried(c, queue'[g][k])
        BY <1>2, <1>10 DEF Sent
      <4> QED
        BY <3>1, <4>1, <4>2 DEF Carried
    <3>2. CASE h # g
      BY <1>4, <1>10, <3>2 DEF Sent
    <3> QED
      BY <3>1, <3>2
  <2> QED
    BY <2>1, SentNext
<1> QED
  BY <1>7, <1>8, <1>9, <1>10 DEF Moves, Kept, AheadKept

LEMMA SendAt ==
  ASSUME IInv, NEW g \in Hosts, NEW m \in Conn, Sends(g, m),
         NEW h \in Hosts, NEW k \in 1..Len(queue'[h])
  PROVE  \/ k \in 1..Len(queue[h]) /\ queue'[h][k] = queue[h][k]
         \/ /\ h = g /\ k = Len(queue[h]) + 1 /\ queue'[h][k] = m
            /\ Len(queue'[h]) = Len(queue[h]) + 1
<1>1. queue[h] \in Seq(Conn) /\ Len(queue[h]) \in Nat
  BY Messages
<1>2. CASE queue' = queue
  BY <1>2
<1>3. CASE queue' = [queue EXCEPT ![g] = Append(@, m)]
  <2>1. queue'[h] = IF h = g THEN Append(queue[h], m) ELSE queue[h]
    BY <1>3 DEF IInv, Sound, WireInv, Carries
  <2>2. /\ Len(Append(queue[h], m)) = Len(queue[h]) + 1
        /\ \A i \in 1..Len(queue[h]) : Append(queue[h], m)[i] = queue[h][i]
        /\ Append(queue[h], m)[Len(queue[h]) + 1] = m
    BY <1>1, AppendProperties
  <2> QED
    BY <1>1, <2>1, <2>2
<1> QED
  BY <1>2, <1>3 DEF Sends

(* A new message is behind a caller's only if it deletes nothing or the    *)
(* caller is not there.                                                    *)
LEMMA SendBehind ==
  ASSUME IInv, NEW g \in Hosts, NEW m \in Conn, Sends(g, m),
         NEW h \in Hosts, NEW x \in Callers, NoneBehind(h, x),
         UNCHANGED active,
         h = g => \/ ~Deletes(g, m)
                  \/ /\ active[h].from # x
                     /\ \A k \in 1..Len(queue[h]) : queue[h][k].from # x
  PROVE  NoneBehind(h, x)'
<1>1. ASSUME active[h].from = x, NEW k \in 1..Len(queue'[h])
      PROVE  ~Deletes(h, queue'[h][k])
  <2>1. CASE k \in 1..Len(queue[h]) /\ queue'[h][k] = queue[h][k]
    BY <1>1, <2>1 DEF NoneBehind
  <2>2. CASE h = g /\ queue'[h][k] = m
    BY <1>1, <2>2
  <2> QED
    BY <2>1, <2>2, SendAt
<1>2. ASSUME NEW j \in 1..Len(queue'[h]), NEW k \in 1..Len(queue'[h]),
             j < k, queue'[h][j].from = x
      PROVE  ~Deletes(h, queue'[h][k])
  <2>0. j \in 1..Len(queue[h]) /\ queue'[h][j] = queue[h][j]
    <3>1. Len(queue[h]) \in Nat
      BY Messages
    <3>2. CASE j = Len(queue[h]) + 1 /\ Len(queue'[h]) = Len(queue[h]) + 1
      BY <1>2, <3>1, <3>2
    <3> QED
      BY <3>2, SendAt
  <2>1. CASE k \in 1..Len(queue[h]) /\ queue'[h][k] = queue[h][k]
    BY <1>2, <2>0, <2>1 DEF NoneBehind
  <2>2. CASE h = g /\ queue'[h][k] = m
    BY <1>2, <2>0, <2>2
  <2> QED
    BY <2>1, <2>2, SendAt
<1> QED
  BY <1>1, <1>2 DEF NoneBehind

LEMMA SendNoDelete ==
  ASSUME IInv, NEW g \in Hosts, NEW m \in Conn, Sends(g, m),
         NEW h \in Hosts, NoDelete(h), UNCHANGED active,
         h = g => ~Deletes(g, m)
  PROVE  NoDelete(h)'
<1>1. ASSUME NEW k \in 1..Len(queue'[h])
      PROVE  ~Deletes(h, queue'[h][k])
  <2>1. CASE k \in 1..Len(queue[h]) /\ queue'[h][k] = queue[h][k]
    BY <2>1 DEF NoDelete
  <2>2. CASE h = g /\ queue'[h][k] = m
    BY <2>2
  <2> QED
    BY <2>1, <2>2, SendAt
<1> QED
  BY <1>1 DEF NoDelete

LEMMA SendMoves ==
  ASSUME IInv, NEW c \in Clients, NEW g \in Hosts, NEW m \in Conn, Sends(g, m),
         ~Deletes(g, m), m.from # c, UNCHANGED <<active, request>>
  PROVE  Moves(c) /\ (m.from # Main => AheadKept)
<1>1. ASSUME NEW h \in Hosts, NEW x \in Callers, NoneBehind(h, x)
      PROVE  NoneBehind(h, x)'
  BY <1>1, SendBehind
<1>2. ASSUME NEW h \in Hosts, NoDelete(h)
      PROVE  NoDelete(h)'
  BY <1>2, SendNoDelete
<1>3. ASSUME m.from # Main, NEW w \in Workers, NEW n, Ahead(w, n)
      PROVE  Ahead(w, n)'
  <2>1. w \in Hosts
    BY DEF Hosts
  <2>2. ASSUME NEW k \in 1..Len(queue'[w]), queue'[w][k].from = Main
        PROVE  queue'[w][k].arg \in Decoded(n)
    <3>1. k \in 1..Len(queue[w]) /\ queue'[w][k] = queue[w][k]
      BY <1>3, <2>1, <2>2, SendAt
    <3> QED
      BY <1>3, <2>2, <3>1 DEF Ahead
  <2> QED
    BY <1>3, <2>2, AheadNext DEF Ahead
<1>4. ASSUME Sent(c)
      PROVE  Sent(c)'
  <2>1. ASSUME NEW h \in Hosts, NEW k \in 1..Len(queue'[h])
        PROVE  Carried(c, queue'[h][k])
    <3>1. CASE k \in 1..Len(queue[h]) /\ queue'[h][k] = queue[h][k]
      BY <1>4, <3>1 DEF Sent
    <3>2. CASE queue'[h][k] = m
      BY <3>2 DEF Carried
    <3> QED
      BY <3>1, <3>2, SendAt
  <2> QED
    BY <1>4, <2>1, SentNext DEF Sent
<1> QED
  BY <1>1, <1>2, <1>3, <1>4 DEF Moves, Kept, AheadKept

-----------------------------------------------------------------------------
(* What is stored stays, and what is under way stays, unless the process   *)
(* in question takes a step.                                               *)

DiskKept == \A w \in Workers : NoDelete(w) => disk[w] \subseteq disk'[w]

LEMMA MovesKeep ==
  ASSUME NEW c, Moves(c)
  PROVE  /\ Kept(Workers) /\ (Sent(c) => Sent(c)')
         /\ c \in Clients => (NoneBehind(Master, c) => NoneBehind(Master, c)')
         /\ NoDelete(Master) => NoDelete(Master)'
BY DEF Moves, Kept, Hosts, Callers

LEMMA StoredKept ==
  ASSUME Kept(Workers), DiskKept, NEW n, Stored(n)
  PROVE  \E w \in Workers : disk'[w] \cap Decoded(n) # {} /\ NoDelete(w)'
<1>1. PICK w \in Workers : disk[w] \cap Decoded(n) # {} /\ NoDelete(w)
  BY DEF Stored
<1>3. disk'[w] \cap Decoded(n) # {}
  BY <1>1 DEF DiskKept
<1>4. NoDelete(w)'
  BY <1>1 DEF Kept
<1> QED
  BY <1>3, <1>4

LEMMA ReportedKept ==
  ASSUME NEW c, Moves(c), DiskKept, Reported(c), UNCHANGED request,
         Told(c)' => Told(c)
  PROVE  Reported(c)'
<1> SUFFICES ASSUME request[c].op = "WRITE", Told(c)
             PROVE  Stored(request[c].file)' /\ NoDelete(Master)'
  BY DEF Reported
<1>1. Stored(request[c].file) /\ NoDelete(Master)
  BY DEF Reported
<1>2. \E w \in Workers : disk'[w] \cap Decoded(request[c].file) # {}
                         /\ NoDelete(w)'
  BY <1>1, StoredKept, MovesKeep
<1>3. Stored(request[c].file)'
  BY <1>2 DEF Stored
<1>4. NoDelete(Master)'
  BY <1>1, MovesKeep
<1> QED
  BY <1>3, <1>4

(* The main thread and its request stay where they are.                    *)
LEMMA WritingKept ==
  ASSUME Kept(Workers), AheadKept, DiskKept, Writing, UNCHANGED mpc,
         active'[Master].arg = active[Master].arg,
         mpc = "writing" /\ link'[Main].text = "count" =>
           \/ link[Main].text = "count"
           \/ \E w \in Workers :
                /\ disk'[w] \cap Decoded(active[Master].arg) # {}
                /\ NoDelete(w)',
         \A w \in Workers :
           /\ mpc = "writing"
           /\ wpc'[w] = "reply" /\ active'[w].from = Main /\ written'[w] = "count"
           => disk'[w] \cap Decoded(active[Master].arg) # {}
  PROVE  Writing'
<1> SUFFICES ASSUME mpc = "writing"
             PROVE  /\ \A w \in Workers : UnderWay(w)'
                    /\ link'[Main].text = "count" => Stored(active[Master].arg)'
  BY DEF Writing
<1> DEFINE n == active[Master].arg
<1>1. ASSUME NEW w \in Workers
      PROVE  UnderWay(w)'
  <2>1. UnderWay(w) /\ w \in Hosts /\ Main \in Callers
    BY DEF Writing, Hosts, Callers
  <2>2. NoneBehind(w, Main)'
    BY <2>1 DEF UnderWay, Kept
  <2>3. /\ active'[w].from = Main => active'[w].arg \in Decoded(n)
        /\ \A k \in 1..Len(queue'[w]) :
             queue'[w][k].from = Main => queue'[w][k].arg \in Decoded(n)
    <3>1. \A x : Ahead(w, x) => Ahead(w, x)'
      BY DEF AheadKept
    <3>2. PICK x : x = n
      OBVIOUS
    <3>3. Ahead(w, x)
      BY <2>1, <3>2 DEF UnderWay
    <3>4. Ahead(w, x)'
      BY <3>1, <3>3
    <3> QED
      BY <3>2, <3>4 DEF Ahead
  <2>4. Ahead(w, active[Master].arg)'
    BY <2>3 DEF Ahead
  <2> QED
    BY <2>2, <2>4 DEF UnderWay
<1>2. ASSUME link'[Main].text = "count"
      PROVE  Stored(active[Master].arg)'
  <2>1. \E w \in Workers : disk'[w] \cap Decoded(n) # {} /\ NoDelete(w)'
    <3>1. CASE link[Main].text = "count"
      <4>1. Stored(n)
        BY <3>1 DEF Writing
      <4>2. PICK x : x = n
        OBVIOUS
      <4>3. \E w \in Workers : disk'[w] \cap Decoded(x) # {} /\ NoDelete(w)'
        BY <4>1, <4>2, StoredKept
      <4> QED
        BY <4>2, <4>3
    <3>2. CASE link[Main].text # "count"
      BY <1>2, <3>2
    <3> QED
      BY <3>1, <3>2
  <2> QED
    BY <2>1 DEF Stored
<1> QED
  BY <1>1, <1>2

-----------------------------------------------------------------------------
(* Workers.                                                                *)

(* Only the connection that worker w has accepted may change in more than  *)
(* its caller.                                                             *)
SameBut(w) == \A h \in Hosts \ {w} : Same(active'[h], active[h])

LEMMA MasterElsewhere ==
  ASSUME NEW w \in Workers
  PROVE  w \in Hosts /\ Master \in Hosts \ {w} /\ Main \in Callers
BY WireAssumption DEF Hosts, Callers

(* A worker that is not about to answer a count.                           *)
LEMMA QuietWorker ==
  ASSUME IInv, NEW c \in Clients, SInv(c), NEW w \in Workers,
         Moves(c), AheadKept, SameBut(w), CountsOnly({}),
         UNCHANGED <<disk, masterVars, clientVars>>,
         \A v \in Workers \ {w} : wpc'[v] = wpc[v] /\ written'[v] = written[v],
         wpc'[w] # "reply"
  PROVE  SInv(c)'
<1>1. UNCHANGED <<mpc, cpc, request, printed>>
  BY DEF masterVars, clientVars
<1>2. Sent(c)' /\ NoneBehind(Master, c)'
  BY MovesKeep DEF SInv
<1>3. Same(active'[Master], active[Master])
  BY MasterElsewhere DEF SameBut
<1>4. DiskKept
  BY DEF DiskKept
<1>5. Writing'
  <2>1. ASSUME NEW v \in Workers, mpc = "writing", wpc'[v] = "reply",
               active'[v].from = Main, written'[v] = "count"
        PROVE  disk'[v] \cap Decoded(active[Master].arg) # {}
    <3>1. v # w /\ v \in Hosts \ {w} /\ wpc[v] = "reply" /\ written[v] = "count"
      BY <2>1 DEF Hosts
    <3>2. active[v].from = Main
      BY <2>1, <3>1, NobodyCalls, MasterElsewhere DEF SameBut, Same
    <3> QED
      BY <2>1, <3>1, <3>2 DEF SInv, Writing, UnderWay
  <2>2. link'[Main].text = "count" => link[Main].text = "count"
    BY MasterElsewhere DEF CountsOnly
  <2> QED
    BY <1>1, <1>3, <1>4, <2>1, <2>2, WritingKept, MovesKeep DEF SInv, Same
<1>6. Reported(c)'
  <2>1. Told(c)' => Told(c)
    BY <1>1 DEF Told, CountsOnly, Callers
  <2> QED
    BY <1>1, <1>4, <2>1, ReportedKept DEF SInv
<1>7. Replying'
  BY DEF SInv, Replying, SameBut, Same, Hosts
<1>8. Found'
  BY <1>1, <1>3 DEF SInv, Found, Same
<1> QED
  BY <1>2, <1>5, <1>6, <1>7, <1>8 DEF SInv

LEMMA SameSameBut ==
  ASSUME NEW w, UNCHANGED active
  PROVE  SameBut(w)
BY DEF SameBut, Same

LEMMA FadesSameBut ==
  ASSUME NEW w, Fades({w}) \/ Fades({})
  PROVE  SameBut(w)
BY DEF SameBut, Fades, ActiveFades

LEMMA WorkerStored ==
  ASSUME IInv, NEW c \in Clients, SInv(c), NEW w \in Workers,
         \/ RegisterWorker(w) \/ WorkerListens(w) \/ WorkerAccepts(w)
         \/ WorkerRebinds(w) \/ WorkerHangsUp(w) \/ WorkerPing(w)
         \/ WorkerLs(w) \/ WorkerDies(w) \/ StartWorker(w),
         UNCHANGED <<masterVars, clientVars>>
  PROVE  SInv(c)'
<1> USE MasterElsewhere
<1>0. UNCHANGED request
  BY DEF clientVars
<1>1. /\ \A v \in Workers \ {w} : wpc'[v] = wpc[v] /\ written'[v] = written[v]
      /\ wpc'[w] # "reply" /\ disk' = disk
  BY DEF RegisterWorker, WorkerListens, WorkerAccepts, WorkerRebinds,
         WorkerHangsUp, WorkerPing, WorkerLs, WorkerDies, StartWorker,
         WorkerGoto, IInv, WorkerTypeOK
<1>2. CASE RegisterWorker(w)
  <2> DEFINE m == [from |-> Nobody, op |-> "REGISTER", arg |-> w,
                   token |-> IF w \in Trusted THEN "worker" ELSE "other"]
  <2>1. /\ m \in Conn /\ ~Deletes(Master, m) /\ m.from # c /\ m.from # Main
    BY NobodyCalls DEF Conn, MsgTypes, Deletes, Callers
  <2>2. Sends(Master, m) /\ UNCHANGED <<active, link>>
    BY <1>2 DEF RegisterWorker, Post, Sends
  <2>3. Moves(c) /\ AheadKept
    BY <1>0, <2>1, <2>2, SendMoves
  <2> QED
    BY <1>1, <2>2, <2>3, QuietWorker, SameSameBut DEF CountsOnly
<1>3. CASE WorkerListens(w) \/ StartWorker(w)
  <2>1. UNCHANGED <<queue, active, link>>
    BY <1>3 DEF WorkerListens, StartWorker, wire
  <2>2. Moves(c) /\ AheadKept
    BY <1>0, <2>1, SameFades, FadesMove
  <2> QED
    BY <1>1, <2>1, <2>2, QuietWorker, SameSameBut DEF CountsOnly
<1>4. CASE WorkerAccepts(w)
  <2>1. TakeConnection(w)
    BY <1>4 DEF WorkerAccepts
  <2>2. Moves(c) /\ AheadKept
    BY <1>0, <2>1, TakeMoves
  <2>3. SameBut(w) /\ CountsOnly({})
    BY <2>1 DEF TakeConnection, SameBut, Same, CountsOnly, IInv, Sound,
                WireInv, Carries
  <2> QED
    BY <1>1, <2>2, <2>3, QuietWorker
<1>5. CASE WorkerRebinds(w) \/ WorkerDies(w)
  <2>1. Fades({w}) /\ CountsOnly({})
    BY <1>5, CloseListenerFades, DiesFades DEF WorkerRebinds, WorkerDies
  <2>2. Moves(c) /\ AheadKept
    BY <1>0, <2>1, FadesMove
  <2> QED
    BY <1>1, <2>1, <2>2, QuietWorker, FadesSameBut
<1>6. CASE WorkerHangsUp(w) \/ WorkerPing(w) \/ WorkerLs(w)
  <2>1. active' = [active EXCEPT ![w] = NoConn] /\ UNCHANGED queue
    BY <1>6 DEF WorkerHangsUp, WorkerPing, WorkerLs, HangUp, AnswerAndClose
  <2>2. Fades({w})
    BY <2>1, CloseFades
  <2>3. Moves(c) /\ AheadKept
    BY <1>0, <2>2, FadesMove
  <2>4. CASE HangUp(w)
    BY <2>4, HangUpCounts, <1>1, <2>2, <2>3, QuietWorker, FadesSameBut
  <2>5. CASE \E text \in {"pong", "listing"} :
                 \E names : AnswerAndClose(w, text, names)
    BY <2>5, AnswerCounts, <1>1, <2>2, <2>3, QuietWorker, FadesSameBut
  <2> QED
    BY <1>6, <2>4, <2>5 DEF WorkerHangsUp, WorkerPing, WorkerLs
<1> QED
  BY <1>2, <1>3, <1>4, <1>5, <1>6

(* The file operations.                                                    *)
LEMMA FileStored ==
  ASSUME IInv, NEW c \in Clients, SInv(c), NEW w \in Workers,
         WorkerWrite(w) \/ WorkerDelete(w), UNCHANGED <<masterVars, clientVars>>
  PROVE  SInv(c)'
<1> USE MasterElsewhere
<1>0. UNCHANGED <<mpc, cpc, request, printed, queue, active, link>>
  BY DEF masterVars, clientVars, WorkerWrite, WorkerDelete, wire
<1>1. Moves(c) /\ AheadKept
  BY <1>0, SameFades, FadesMove
<1>2. /\ \A v \in Workers \ {w} : /\ wpc'[v] = wpc[v] /\ written'[v] = written[v]
                                  /\ disk'[v] = disk[v]
      /\ active[w].token = "master"
  BY DEF WorkerWrite, WorkerDelete, WorkerGoto, Handles, IInv, WorkerTypeOK
<1>3. NoDelete(w) => disk[w] \subseteq disk'[w]
  <2>1. CASE WorkerWrite(w)
    BY <2>1 DEF WorkerWrite, IInv, WorkerTypeOK
  <2>2. CASE WorkerDelete(w)
    BY <2>2 DEF WorkerDelete, Handles, NoDelete, Deletes
  <2> QED
    BY <2>1, <2>2
<1>4. DiskKept
  BY <1>2, <1>3 DEF DiskKept
<1>5. Sent(c)' /\ NoneBehind(Master, c)'
  BY <1>1, MovesKeep DEF SInv
<1>6. Writing'
  <2>1. ASSUME NEW v \in Workers, mpc = "writing", wpc'[v] = "reply",
               active'[v].from = Main, written'[v] = "count"
        PROVE  disk'[v] \cap Decoded(active[Master].arg) # {}
    <3>1. CASE v # w
      BY <1>0, <1>2, <2>1, <3>1 DEF SInv, Writing, UnderWay
    <3>2. CASE v = w
      <4>1. active[w].arg \in Decoded(active[Master].arg)
        BY <1>0, <2>1, <3>2 DEF SInv, Writing, UnderWay, Ahead
      <4>2. WorkerWrite(w)
        BY <2>1, <3>2 DEF WorkerDelete, IInv, WorkerTypeOK
      <4>3. PICK n \in Decoded(active[w].arg) :
              disk' = [disk EXCEPT ![w] = @ \cup {n}]
        BY <2>1, <3>2, <4>2 DEF WorkerWrite, IInv, WorkerTypeOK
      <4>4. n \in disk'[w] /\ n \in Decoded(active[Master].arg)
        BY <4>1, <4>3, DecodedDeeper DEF IInv, WorkerTypeOK
      <4> QED
        BY <3>2, <4>4
    <3> QED
      BY <3>1, <3>2
  <2> QED
    BY <1>0, <1>1, <1>4, <2>1, WritingKept, MovesKeep DEF SInv
<1>7. Reported(c)'
  BY <1>0, <1>1, <1>4, ReportedKept DEF SInv, Told
<1>8. Replying'
  BY <1>0, <1>2 DEF SInv, Replying
<1>9. Found'
  BY <1>0 DEF SInv, Found
<1> QED
  BY <1>5, <1>6, <1>7, <1>8, <1>9 DEF SInv

(* answer_client: the count goes to the main thread.                       *)
LEMMA RepliesStored ==
  ASSUME IInv, NEW c \in Clients, SInv(c), NEW w \in Workers,
         WorkerReplies(w), UNCHANGED <<masterVars, clientVars>>
  PROVE  SInv(c)'
<1> USE MasterElsewhere
<1>0. /\ UNCHANGED <<mpc, cpc, request, printed, queue, disk>>
      /\ active' = [active EXCEPT ![w] = NoConn]
      /\ wpc[w] = "reply" /\ wpc' = [wpc EXCEPT ![w] = "rebind"]
      /\ written' = [written EXCEPT ![w] = ""]
  BY DEF masterVars, clientVars, WorkerReplies, WorkerGoto, AnswerAndClose
<1>1. Fades({w})
  BY <1>0, CloseFades
<1>2. Moves(c) /\ AheadKept /\ SameBut(w)
  BY <1>0, <1>1, FadesMove, FadesSameBut
<1>3. DiskKept
  BY <1>0 DEF DiskKept
<1>4. Sent(c)' /\ NoneBehind(Master, c)'
  BY <1>2, MovesKeep DEF SInv
<1>5. Same(active'[Master], active[Master])
  BY <1>2 DEF SameBut
<1>6. active[w].from # c
  BY <1>0 DEF SInv, Replying, Sent, Carried
<1>7. link'[c].text = link[c].text
  BY <1>6 DEF WorkerReplies, AnswerAndClose, AnsweredLinks, Callers
<1>8. Writing'
  <2>1. ASSUME NEW v \in Workers, mpc = "writing", wpc'[v] = "reply",
               active'[v].from = Main, written'[v] = "count"
        PROVE  disk'[v] \cap Decoded(active[Master].arg) # {}
    <3>1. v # w
      BY <1>0, <2>1 DEF IInv, WorkerTypeOK
    <3>2. v \in Hosts /\ active'[v] = active[v] /\ wpc'[v] = wpc[v] /\ written'[v] = written[v]
      BY <1>0, <3>1 DEF IInv, WorkerTypeOK, Sound, WireInv, Carries, Hosts
    <3> QED
      BY <1>0, <2>1, <3>2 DEF SInv, Writing, UnderWay
  <2>2. ASSUME mpc = "writing", link'[Main].text = "count",
               link[Main].text # "count"
        PROVE  \E v \in Workers :
                 disk'[v] \cap Decoded(active[Master].arg) # {} /\ NoDelete(v)'
    <3>1. active[w].from = Main /\ written[w] = "count"
      BY <2>2 DEF WorkerReplies, AnswerAndClose, AnsweredLinks
    <3>2. disk[w] \cap Decoded(active[Master].arg) # {} /\ NoneBehind(w, Main)
      BY <1>0, <2>2, <3>1 DEF SInv, Writing, UnderWay
    <3>3. active'[w] = NoConn /\ queue'[w] = queue[w]
      BY <1>0 DEF IInv, Sound, WireInv, Carries
    <3>4. NoDelete(w)'
      BY <3>1, <3>2, <3>3 DEF NoneBehind, NoDelete, Deletes, NoConn
    <3> QED
      BY <1>0, <3>2, <3>4
  <2> QED
    BY <1>0, <1>2, <1>3, <1>5, <2>1, <2>2, WritingKept, MovesKeep DEF SInv, Same
<1>9. Reported(c)'
  <2>1. Told(c)' => Told(c)
    BY <1>0, <1>7 DEF Told
  <2> QED
    BY <1>0, <1>2, <1>3, <2>1, ReportedKept DEF SInv
<1>10. Replying'
  BY <1>0, <1>2 DEF SInv, Replying, SameBut, Same, Hosts, IInv, WorkerTypeOK
<1>11. Found'
  BY <1>0, <1>5 DEF SInv, Found, Same
<1> QED
  BY <1>4, <1>8, <1>9, <1>10, <1>11 DEF SInv

-----------------------------------------------------------------------------
(* The master.                                                             *)

LEMMA MasterElse ==
  /\ Master \in Hosts /\ Main \in Callers /\ Admin \in Callers
  /\ \A w \in Workers : w \in Hosts \ {Master}
  /\ \A c \in Clients : c \in Callers /\ c # Main /\ c # Admin
BY WireAssumption DEF Hosts, Callers

(* A step of the master after which it is not waiting for a write.         *)
LEMMA QuietMain ==
  ASSUME IInv, NEW c \in Clients, SInv(c), Moves(c), SameBut(Master),
         link'[c].text = "count" => link[c].text = "count",
         UNCHANGED <<workerVars, clientVars>>,
         mpc' # "writing",
         mpc' = "found" => active'[Master].op = "DELETE"
  PROVE  SInv(c)'
<1> USE MasterElse
<1>1. UNCHANGED <<disk, wpc, cpc, request, printed>>
  BY DEF workerVars, clientVars
<1>2. Sent(c)' /\ NoneBehind(Master, c)'
  BY MovesKeep DEF SInv
<1>3. Writing'
  BY DEF Writing
<1>4. Reported(c)'
  <2>1. Told(c)' => Told(c)
    BY <1>1 DEF Told
  <2>2. DiskKept
    BY <1>1 DEF DiskKept
  <2> QED
    BY <1>1, <2>1, <2>2, ReportedKept DEF SInv
<1>5. Replying'
  BY <1>1 DEF SInv, Replying, SameBut, Same
<1>6. Found'
  BY DEF Found
<1> QED
  BY <1>2, <1>3, <1>4, <1>5, <1>6 DEF SInv

(* The queues and the connections stay as they are.                        *)
LEMMA StillStored ==
  ASSUME IInv, NEW c \in Clients, SInv(c),
         UNCHANGED <<queue, active, workerVars, clientVars>>,
         link'[c].text = "count" => link[c].text = "count",
         mpc' # "writing", mpc' = "found" => active[Master].op = "DELETE"
  PROVE  SInv(c)'
<1>1. Moves(c) /\ SameBut(Master)
  BY SameFades, FadesMove, SameSameBut DEF clientVars
<1> QED
  BY <1>1, QuietMain

LEMMA LoopStored ==
  ASSUME IInv, NEW c \in Clients, SInv(c),
         MasterListens \/ StartLoop \/ WorkerListed \/ SkipWorker \/ StartMaster,
         UNCHANGED <<workerVars, clientVars>>
  PROVE  SInv(c)'
<1> USE MasterElse
<1>1. UNCHANGED <<queue, active>>
  BY DEF MasterListens, StartLoop, WorkerListed, SkipWorker, StartMaster, wire
<1>2. link'[c] = link[c]
  BY DEF MasterListens, StartLoop, WorkerListed, SkipWorker, StartMaster, wire,
         IInv, Sound, WireInv
<1>3. mpc' # "writing" /\ (mpc' = "found" => active[Master].op = "DELETE")
  BY DEF MasterListens, StartLoop, WorkerListed, SkipWorker, StartMaster,
         MainGoto
<1> QED
  BY <1>1, <1>2, <1>3, StillStored

LEMMA MasterDiesStored ==
  ASSUME IInv, NEW c \in Clients, SInv(c), NEW cause, MasterDies(cause),
         UNCHANGED <<workerVars, clientVars>>
  PROVE  SInv(c)'
<1> USE MasterElse
<1>1. Fades({Master}) /\ CountsOnly({})
  BY DiesFades DEF MasterDies
<1>2. Moves(c) /\ SameBut(Master)
  BY <1>1, FadesMove, FadesSameBut DEF clientVars
<1>3. mpc' = "off"
  BY DEF MasterDies
<1> QED
  BY <1>1, <1>2, <1>3, QuietMain DEF CountsOnly

LEMMA AcceptStored ==
  ASSUME IInv, NEW c \in Clients, SInv(c), MasterAccepts \/ ServerRestart,
         UNCHANGED <<workerVars, clientVars>>
  PROVE  SInv(c)'
<1> USE MasterElse
<1>1. CASE MasterAccepts
  <2>1. TakeConnection(Master) /\ mpc' = "handle"
    BY <1>1 DEF MasterAccepts, MainGoto
  <2>2. Moves(c)
    BY <2>1, TakeMoves DEF clientVars
  <2>3. SameBut(Master) /\ link' = link
    BY <2>1 DEF TakeConnection, SameBut, Same, IInv, Sound, WireInv, Carries
  <2> QED
    BY <2>1, <2>2, <2>3, QuietMain
<1>2. CASE ServerRestart
  <2>1. CloseListener(Master) /\ mpc' = "closed"
    BY <1>2 DEF ServerRestart, MainGoto
  <2>2. Fades({Master}) /\ CountsOnly({})
    BY <2>1, CloseListenerFades
  <2>3. Moves(c) /\ SameBut(Master)
    BY <2>2, FadesMove, FadesSameBut DEF clientVars
  <2> QED
    BY <2>1, <2>2, <2>3, QuietMain DEF CountsOnly
<1> QED
  BY <1>1, <1>2

(* The master closes the connection it handles.                            *)
LEMMA ClosingMoves ==
  ASSUME IInv, NEW c \in Clients,
         active' = [active EXCEPT ![Master] = NoConn], UNCHANGED queue,
         UNCHANGED clientVars
  PROVE  Moves(c) /\ SameBut(Master)
<1>1. Fades({Master})
  BY CloseFades, MasterElse
<1> QED
  BY <1>1, FadesMove, FadesSameBut DEF clientVars

LEMMA ReplyStored ==
  ASSUME IInv, NEW c \in Clients, SInv(c),
         \/ HangUp(Master)
         \/ \E text \in Texts \ {"count"} : \E names :
              AnswerAndClose(Master, text, names),
         mpc' = "restart",
         UNCHANGED <<workerVars, clientVars>>
  PROVE  SInv(c)'
<1>1. active' = [active EXCEPT ![Master] = NoConn] /\ UNCHANGED queue
  BY DEF HangUp, AnswerAndClose
<1>2. Moves(c) /\ SameBut(Master)
  BY <1>1, ClosingMoves
<1>3. CountsOnly({})
  BY HangUpCounts, AnswerCounts
<1>4. link'[c].text = "count" => link[c].text = "count"
  BY <1>3, MasterElse DEF CountsOnly
<1> QED
  BY <1>2, <1>4, QuietMain

LEMMA HandlerStored ==
  ASSUME IInv, NEW c \in Clients, SInv(c),
         \/ NothingRead \/ Unavailable \/ RejectRegister \/ AppendFile
         \/ EndLoop \/ Register,
         UNCHANGED <<workerVars, clientVars>>
  PROVE  SInv(c)'
<1>1. CASE NothingRead \/ RejectRegister \/ Register
  BY <1>1, ReplyStored DEF NothingRead, RejectRegister, Register, MainGoto
<1>2. CASE Unavailable \/ AppendFile \/ EndLoop
  <2>1. /\ mpc' = "restart"
        /\ \E text \in Texts \ {"count"} : \E names : AnswerAndClose(Master, text, names)
    BY <1>2 DEF Unavailable, AppendFile, EndLoop, Reply, MainGoto, Texts
  <2> QED
    BY <2>1, ReplyStored
<1> QED
  BY <1>1, <1>2

LEMMA EndWriteStored ==
  ASSUME IInv, NEW c \in Clients, SInv(c), NEW text, EndWrite(text),
         text # "count", UNCHANGED <<workerVars, clientVars>>
  PROVE  SInv(c)'
<1> USE MasterElse
<1>1. /\ active' = [active EXCEPT ![Master] = NoConn] /\ UNCHANGED queue
      /\ mpc' = "restart"
  BY DEF EndWrite, MainGoto
<1>2. Moves(c) /\ SameBut(Master)
  BY <1>1, ClosingMoves
<1>3. link'[c].text = "count" => link[c].text = "count"
  BY DEF EndWrite, AnsweredLinks
<1> QED
  BY <1>1, <1>2, <1>3, QuietMain

(* written_bytes with an answer: the count is passed on.                   *)
LEMMA WrittenStored ==
  ASSUME IInv, NEW c \in Clients, SInv(c), Written,
         UNCHANGED <<workerVars, clientVars>>
  PROVE  SInv(c)'
<1> USE MasterElse
<1>1. CASE link[Main].text # "count"
  BY <1>1, EndWriteStored DEF Written
<1>2. CASE active[Master].from # c
  <2>1. /\ active' = [active EXCEPT ![Master] = NoConn] /\ UNCHANGED queue
        /\ mpc' = "restart"
    BY DEF Written, EndWrite, MainGoto
  <2>2. Moves(c) /\ SameBut(Master)
    BY <2>1, ClosingMoves
  <2>3. link'[c] = link[c]
    BY <1>2 DEF Written, EndWrite, AnsweredLinks
  <2> QED
    BY <2>1, <2>2, <2>3, QuietMain
<1>3. CASE link[Main].text = "count" /\ active[Master].from = c
  <2>1. /\ active' = [active EXCEPT ![Master] = NoConn] /\ UNCHANGED queue
        /\ mpc' = "restart" /\ mpc = "writing"
    BY DEF Written, EndWrite, MainGoto
  <2>2. Moves(c) /\ SameBut(Master)
    BY <2>1, ClosingMoves
  <2>3. UNCHANGED <<disk, wpc, cpc, request, printed>>
    BY DEF workerVars, clientVars
  <2>4. Sent(c)' /\ NoneBehind(Master, c)'
    BY <2>2, MovesKeep DEF SInv
  <2>5. ASSUME request[c].op = "WRITE"
        PROVE  Stored(request[c].file)' /\ NoDelete(Master)'
    <3>1. Stored(active[Master].arg)
      BY <1>3, <2>1 DEF SInv, Writing
    <3>2. active[Master].arg \in Decoded(request[c].file)
      BY <1>3, <2>5 DEF SInv, Sent, Carried
    <3>3. Stored(request[c].file)
      BY <3>1, <3>2, DecodedDeeper DEF Stored
    <3>4. PICK n : n = request[c].file
      OBVIOUS
    <3>5. \E w \in Workers : disk'[w] \cap Decoded(n) # {} /\ NoDelete(w)'
      BY <2>2, <2>3, <3>3, <3>4, StoredKept, MovesKeep DEF DiskKept
    <3>6. Stored(request[c].file)'
      BY <2>3, <3>4, <3>5 DEF Stored
    <3>7. active'[Master] = NoConn
      BY <2>1 DEF IInv, Sound, WireInv, Carries
    <3>8. NoDelete(Master)'
      BY <1>3, <2>1, <3>7 DEF SInv, NoneBehind, NoDelete, Deletes, NoConn
    <3> QED
      BY <3>6, <3>8
  <2>6. Reported(c)'
    BY <2>3, <2>5 DEF Reported
  <2>7. Writing' /\ Found'
    BY <2>1 DEF Writing, Found
  <2>8. Replying'
    BY <2>2, <2>3 DEF SInv, Replying, SameBut, Same
  <2> QED
    BY <2>4, <2>6, <2>7, <2>8 DEF SInv
<1> QED
  BY <1>1, <1>2, <1>3

(* What Dial and Post do to the queues.                                    *)
LEMMA DialSends ==
  ASSUME IInv, NEW x \in Callers, NEW h, NEW op, NEW arg, NEW token,
         Dial(x, h, op, arg, token)
  PROVE  /\ Sends(h, [from |-> x, op |-> op, arg |-> arg, token |-> token])
         /\ UNCHANGED active
         /\ link'[x].text = ""
         /\ \A d \in Callers \ {x} : link'[d] = link[d]
BY DEF Dial, Sends, Ended, IInv, Sound, WireInv

LEMMA NotWaiting ==
  ASSUME IInv, NEW x \in Callers, ~Open(x), NEW h \in Hosts
  PROVE  /\ active[h].from # x
         /\ \A k \in 1..Len(queue[h]) : queue[h][k].from # x
<1>1. Places(x) = {}
  BY DEF IInv, Sound, Accounted
<1>2. active[h].from # x
  <2>1. 0 \in 0..Backlog
    BY WireAssumption
  <2> QED
    BY <1>1, <2>1, PlacesAreAt DEF At
<1>3. ASSUME NEW k \in 1..Len(queue[h])
      PROVE  queue[h][k].from # x
  <2>1. k \in 0..Backlog /\ k # 0 /\ k <= Len(queue[h])
    BY Messages, WireAssumption DEF IInv, Sound, Bounded
  <2> QED
    BY <1>1, <2>1, PlacesAreAt DEF At
<1> QED
  BY <1>2, <1>3

LEMMA AskStored ==
  ASSUME IInv, NEW c \in Clients, SInv(c), AskWorker,
         UNCHANGED <<workerVars, clientVars>>
  PROVE  SInv(c)'
<1> USE MasterElse
<1> DEFINE h == table[slot + 1].host
           m == [from |-> Main, op |-> "LS", arg |-> NoName, token |-> "master"]
<1>1. slot + 1 \in 1..Len(table) /\ h \in Hosts
  BY WorkerAssumption DEF AskWorker, IInv, TableOK, LoopInTable, MasterTypeOK
<1>2. m \in Conn /\ ~Deletes(h, m) /\ m.from # c
  BY DEF Conn, MsgTypes, Deletes
<1> HIDE DEF h
<1>3. Sends(h, m) /\ UNCHANGED active /\ link'[c] = link[c]
  <2>1. Dial(Main, h, "LS", NoName, "master")
    BY DEF AskWorker, h
  <2> QED
    BY <2>1, DialSends
<1> HIDE DEF m
<1>4. Moves(c) /\ SameBut(Master)
  BY <1>1, <1>2, <1>3, SendMoves, SameSameBut DEF clientVars
<1>5. mpc' = "listing"
  BY DEF AskWorker, MainGoto
<1> QED
  BY <1>3, <1>4, <1>5, QuietMain

(* worker_delete: nobody has been told of a write.                         *)
LEMMA DeleteStored ==
  ASSUME IInv, NEW c \in Clients, SInv(c), SendDelete,
         UNCHANGED <<workerVars, clientVars>>
  PROVE  SInv(c)'
<1> USE MasterElse
<1> DEFINE h == table[slot + 1].host
           m == [from |-> Nobody, op |-> "DELETE", arg |-> active[Master].arg,
                 token |-> "master"]
<1>1. slot + 1 \in 1..Len(table) /\ h \in Workers
  BY WorkerAssumption DEF SendDelete, IInv, TableOK, LoopInTable, MasterTypeOK
<1>2. m \in Conn /\ m.from # c
  BY Messages, NobodyCalls DEF Conn, MsgTypes
<1>3. Sends(h, m)
  BY DEF SendDelete, Post, Sends
<1> HIDE DEF h, m
<1>4. /\ active' = [active EXCEPT ![Master] = NoConn]
      /\ mpc = "found" /\ mpc' = "restart"
      /\ link'[c].text = "count" => link[c].text = "count"
  BY DEF SendDelete, MainGoto, AnsweredLinks
<1>5. /\ active'[Master] = NoConn
      /\ \A w \in Workers : active'[w] = active[w]
  BY <1>4 DEF IInv, Sound, WireInv, Carries
<1>6. UNCHANGED <<disk, wpc, cpc, request, printed>>
  BY DEF workerVars, clientVars
<1>7. ~(request[c].op = "WRITE" /\ Told(c))
  BY <1>4 DEF SInv, Found, Reported, NoDelete, Deletes
<1>8. Reported(c)'
  BY <1>4, <1>6, <1>7 DEF Reported, Told
<1>9. Sent(c)'
  <2>1. ASSUME NEW g \in Hosts
        PROVE  Carried(c, active'[g])
    <3>1. CASE g = Master
      BY <1>5, <3>1, NobodyCalls DEF Carried, NoConn
    <3>2. CASE g \in Workers
      BY <1>5, <3>2 DEF SInv, Sent
    <3> QED
      BY <3>1, <3>2 DEF Hosts
  <2>2. ASSUME NEW g \in Hosts, NEW k \in 1..Len(queue'[g])
        PROVE  Carried(c, queue'[g][k])
    <3>1. CASE k \in 1..Len(queue[g]) /\ queue'[g][k] = queue[g][k]
      BY <3>1 DEF SInv, Sent
    <3>2. CASE queue'[g][k] = m
      BY <1>2, <3>2 DEF Carried
    <3> QED
      BY <1>1, <1>2, <1>3, <3>1, <3>2, SendAt
  <2> QED
    BY <1>6, <2>1, <2>2, SentNext
<1>10. NoneBehind(Master, c)'
  <2>1. queue'[Master] = queue[Master]
    BY <1>1, <1>3 DEF Sends, IInv, Sound, WireInv, Carries
  <2> QED
    BY <1>5, <2>1, NobodyCalls DEF SInv, NoneBehind, NoConn
<1>11. Writing' /\ Found'
  BY <1>4 DEF Writing, Found
<1>12. Replying'
  BY <1>5, <1>6 DEF SInv, Replying
<1> QED
  BY <1>8, <1>9, <1>10, <1>11, <1>12 DEF SInv

(* least_load, client_init and conn_write.                                 *)
LEMMA StartWriteStored ==
  ASSUME IInv, NEW c \in Clients, SInv(c), StartWrite,
         UNCHANGED <<workerVars, clientVars>>
  PROVE  SInv(c)'
<1> USE MasterElse
<1>1. PICK n \in Decoded(active[Master].arg) :
        Dial(Main, table[1].host, "WRITE", n, "master")
  BY DEF StartWrite
<1> DEFINE h == table[1].host
           m == [from |-> Main, op |-> "WRITE", arg |-> n, token |-> "master"]
<1>2. 1 \in 1..Len(table) /\ h \in Hosts
  BY WorkerAssumption, EmptySeq DEF StartWrite, IInv, TableOK, MasterTypeOK
<1>3. m \in Conn /\ ~Deletes(h, m) /\ m.from # c
  BY DEF Conn, MsgTypes, Deletes, Decoded
<1> HIDE DEF h
<1>4. /\ Sends(h, m) /\ UNCHANGED active
      /\ link'[c] = link[c] /\ link'[Main].text = ""
  BY <1>1, DialSends DEF h
<1>5. m.arg = n
  OBVIOUS
<1> HIDE DEF m
<1>6. Moves(c)
  BY <1>2, <1>3, <1>4, SendMoves DEF clientVars
<1>7. UNCHANGED <<disk, wpc, cpc, request, printed>> /\ mpc' = "writing"
  BY DEF workerVars, clientVars, StartWrite, MainGoto
<1>8. ~Open(Main)
  BY DEF StartWrite, Request, IInv, MainIdle
<1>9. ASSUME NEW w \in Workers
      PROVE  UnderWay(w)'
  <2>1. /\ active[w].from # Main
        /\ \A k \in 1..Len(queue[w]) : queue[w][k].from # Main
    BY <1>8, NotWaiting
  <2>2. NoneBehind(w, Main)'
    <3>1. NoneBehind(w, Main)
      BY <2>1 DEF NoneBehind
    <3> QED
      BY <1>6, <3>1 DEF Moves, Kept
  <2>3. ASSUME NEW k \in 1..Len(queue'[w]), queue'[w][k].from = Main
        PROVE  queue'[w][k].arg \in Decoded(active'[Master].arg)
    <3>1. queue'[w][k] = m
      <4>1. CASE k \in 1..Len(queue[w]) /\ queue'[w][k] = queue[w][k]
        BY <2>1, <2>3, <4>1
      <4>2. w \in Hosts /\ m \in Conn
        BY <1>3
      <4>3. \/ k \in 1..Len(queue[w]) /\ queue'[w][k] = queue[w][k]
            \/ /\ w = h /\ k = Len(queue[w]) + 1 /\ queue'[w][k] = m
               /\ Len(queue'[w]) = Len(queue[w]) + 1
        <5>1. h \in Hosts /\ Sends(h, m)
          BY <1>2, <1>4
        <5> QED
          BY <4>2, <5>1, SendAt
      <4> QED
        BY <4>1, <4>3
    <3> QED
      BY <1>4, <1>5, <3>1
  <2> QED
    BY <1>4, <2>1, <2>2, <2>3 DEF UnderWay, Ahead
<1>10. Writing'
  BY <1>4, <1>9 DEF Writing
<1>11. Sent(c)' /\ NoneBehind(Master, c)'
  BY <1>6, MovesKeep DEF SInv
<1>12. Reported(c)'
  <2>1. Told(c)' => Told(c)
    BY <1>4, <1>7 DEF Told
  <2>2. DiskKept
    BY <1>7 DEF DiskKept
  <2> QED
    BY <1>6, <1>7, <2>1, <2>2, ReportedKept DEF SInv
<1>13. Replying' /\ Found'
  BY <1>4, <1>7 DEF SInv, Replying, Found
<1> QED
  BY <1>10, <1>11, <1>12, <1>13 DEF SInv

LEMMA MainStored ==
  ASSUME IInv, NEW c \in Clients, SInv(c),
         MainProgress \/ WriteReadsZero \/ StartMaster \/ MasterDies("killed"),
         UNCHANGED <<workerVars, clientVars>>
  PROVE  SInv(c)'
<1>1. CASE \/ ReadFile \/ SearchNull \/ MainSigpipe \/ DeleteSigpipe
           \/ WriteCrashes \/ MasterDies("killed")
  <2>1. \E cause : MasterDies(cause)
    BY <1>1 DEF ReadFile, SearchNull, MainSigpipe, DeleteSigpipe, WriteCrashes
  <2> QED
    BY <2>1, MasterDiesStored
<1>2. CASE WriteFails \/ WriteDecodesNothing \/ WriteReadsZero
  <2>1. \E text \in {"-1", "garbage"} : EndWrite(text)
    BY <1>2 DEF WriteFails, WriteDecodesNothing, WriteReadsZero
  <2> QED
    BY <2>1, EndWriteStored
<1>3. CASE \/ MasterListens \/ StartLoop \/ WorkerListed \/ SkipWorker
           \/ StartMaster
  BY <1>3, LoopStored
<1>4. CASE MasterAccepts \/ ServerRestart
  BY <1>4, AcceptStored
<1>5. CASE \/ NothingRead \/ Unavailable \/ RejectRegister \/ AppendFile
           \/ EndLoop \/ Register
  BY <1>5, HandlerStored
<1>6. CASE Written
  BY <1>6, WrittenStored
<1>7. CASE AskWorker
  BY <1>7, AskStored
<1>8. CASE SendDelete
  BY <1>8, DeleteStored
<1>9. CASE StartWrite
  BY <1>9, StartWriteStored
<1> QED
  BY <1>1, <1>2, <1>3, <1>4, <1>5, <1>6, <1>7, <1>8, <1>9
  DEF MainProgress, MainLocks

-----------------------------------------------------------------------------
(* The ping thread, and timeouts.                                          *)

(* A step in which the main thread, the workers and the client stay where  *)
(* they are.                                                               *)
LEMMA QuietSystem ==
  ASSUME IInv, NEW c \in Clients, SInv(c), Moves(c), AheadKept,
         \A h \in Hosts : Same(active'[h], active[h]),
         CountsOnly({}), UNCHANGED <<mpc, workerVars, clientVars>>
  PROVE  SInv(c)'
<1> USE MasterElse
<1>1. UNCHANGED <<disk, wpc, written, cpc, request, printed>>
  BY DEF workerVars, clientVars
<1>2. Sent(c)' /\ NoneBehind(Master, c)'
  BY MovesKeep DEF SInv
<1>3. DiskKept
  BY <1>1 DEF DiskKept
<1>4. Writing'
  <2>1. ASSUME NEW w \in Workers, mpc = "writing", wpc'[w] = "reply",
               active'[w].from = Main, written'[w] = "count"
        PROVE  disk'[w] \cap Decoded(active[Master].arg) # {}
    <3>1. active[w].from = Main
      BY <2>1, NobodyCalls DEF Same
    <3> QED
      BY <1>1, <2>1, <3>1 DEF SInv, Writing, UnderWay
  <2>2. link'[Main].text = "count" => link[Main].text = "count"
    BY DEF CountsOnly
  <2> QED
    BY <1>3, <2>1, <2>2, WritingKept, MovesKeep DEF SInv, Same
<1>5. Reported(c)'
  <2>1. Told(c)' => Told(c)
    BY <1>1 DEF Told, CountsOnly
  <2> QED
    BY <1>1, <1>3, <2>1, ReportedKept DEF SInv
<1>6. Replying' /\ Found'
  BY <1>1 DEF SInv, Replying, Found, Same
<1> QED
  BY <1>2, <1>4, <1>5, <1>6 DEF SInv

LEMMA SameStored ==
  ASSUME IInv, NEW c \in Clients, SInv(c), CountsOnly({}),
         UNCHANGED <<queue, active, mpc, workerVars, clientVars>>
  PROVE  SInv(c)'
<1>1. Moves(c) /\ AheadKept
  BY SameFades, FadesMove DEF clientVars
<1>2. \A h \in Hosts : Same(active'[h], active[h])
  BY DEF Same
<1> QED
  BY <1>1, <1>2, QuietSystem

LEMMA EndedCounts ==
  ASSUME IInv, NEW x \in Callers, NEW s, link' = [link EXCEPT ![x] = Ended(s)]
  PROVE  CountsOnly({})
<1> SUFFICES ASSUME NEW d \in Callers, link'[d].text = "count"
             PROVE  link[d].text = "count"
  BY DEF CountsOnly
<1>1. CASE d = x
  <2>1. link'[d] = Ended(s)
    BY <1>1 DEF IInv, Sound, WireInv
  <2>2. Ended(s).text = ""
    BY DEF Ended
  <2> QED
    BY <2>1, <2>2
<1>2. CASE d # x
  BY <1>2 DEF IInv, Sound, WireInv
<1> QED
  BY <1>1, <1>2

LEMMA AdminStored ==
  ASSUME IInv, NEW c \in Clients, SInv(c), AdminProgress \/ PongReadsZero,
         UNCHANGED <<workerVars, clientVars>>
  PROVE  SInv(c)'
<1> USE MasterElse
<1>1. CASE StartRound \/ EndRound
  <2>1. UNCHANGED <<queue, active, link, mpc>>
    BY <1>1 DEF StartRound, EndRound, wire, mainVars
  <2> QED
    BY <2>1, SameStored DEF CountsOnly
<1>2. CASE Pong \/ PongFails \/ PongReadsZero
  <2>1. /\ UNCHANGED <<queue, active, mpc>>
        /\ link' = [link EXCEPT ![Admin] = Ended("none")]
    BY <1>2 DEF Pong, PongFails, PongReadsZero, mainVars
  <2> QED
    BY <2>1, EndedCounts, SameStored
<1>3. CASE Ping
  <2> DEFINE h == table[aslot + 1].host
             m == [from |-> Admin, op |-> "PING", arg |-> NoName,
                   token |-> "master"]
  <2>1. h \in Hosts
    <3>1. aslot + 1 \in 1..Len(table)
      BY <1>3 DEF Ping, IInv, MasterTypeOK
    <3> QED
      BY <3>1, WorkerAssumption DEF IInv, TableOK
  <2>2. m \in Conn /\ ~Deletes(h, m) /\ m.from # c /\ m.from # Main
    BY WireAssumption DEF Conn, MsgTypes, Deletes
  <2> HIDE DEF h
  <2>3. Dial(Admin, h, "PING", NoName, "master") /\ UNCHANGED mpc
    BY <1>3 DEF Ping, mainVars, h
  <2>4. Sends(h, m) /\ UNCHANGED active
    BY <2>3, DialSends
  <2>5. CountsOnly({})
    <3>1. link'[Admin].text = "" /\ \A d \in Callers \ {Admin} : link'[d] = link[d]
      BY <2>3, DialSends
    <3> QED
      BY <3>1 DEF CountsOnly
  <2> HIDE DEF m
  <2>6. Moves(c) /\ AheadKept
    BY <2>1, <2>2, <2>4, SendMoves DEF clientVars
  <2>7. \A g \in Hosts : Same(active'[g], active[g])
    BY <2>4 DEF Same
  <2> QED
    BY <2>3, <2>5, <2>6, <2>7, QuietSystem
<1>4. CASE AdminSigpipe
  BY <1>4, MasterDiesStored DEF AdminSigpipe
<1> QED
  BY <1>1, <1>2, <1>3, <1>4 DEF AdminProgress

LEMMA TimeoutStored ==
  ASSUME IInv, NEW c \in Clients, SInv(c), NEW x \in Callers, Timeout(x),
         UNCHANGED <<workerVars, masterVars, clientVars>>
  PROVE  SInv(c)'
<1>1. Fades({}) /\ CountsOnly({})
  BY AbandonedFades, EndedCounts DEF Timeout
<1>2. Moves(c) /\ AheadKept
  BY <1>1, FadesMove DEF clientVars
<1>3. \A h \in Hosts : Same(active'[h], active[h])
  BY <1>1 DEF Fades, ActiveFades
<1> QED
  BY <1>1, <1>2, <1>3, QuietSystem DEF masterVars

-----------------------------------------------------------------------------
(* The client.                                                             *)

(* What a step of the client leaves of the write that is under way.        *)
LEMMA ClientWriting ==
  ASSUME IInv, NEW c \in Clients, SInv(c), Kept(Workers), AheadKept,
         \A h \in Hosts : Same(active'[h], active[h]),
         link'[Main] = link[Main], UNCHANGED <<mpc, workerVars>>
  PROVE  Writing' /\ Replying' /\ Found'
<1> USE MasterElse
<1>1. UNCHANGED <<disk, wpc, written>>
  BY DEF workerVars
<1>2. DiskKept
  BY <1>1 DEF DiskKept
<1>3. ASSUME NEW w \in Workers, mpc = "writing", wpc'[w] = "reply",
             active'[w].from = Main, written'[w] = "count"
      PROVE  disk'[w] \cap Decoded(active[Master].arg) # {}
  <2>1. active[w].from = Main
    BY <1>3, NobodyCalls DEF Same
  <2> QED
    BY <1>1, <1>3, <2>1 DEF SInv, Writing, UnderWay
<1>4. Writing'
  BY <1>2, <1>3, WritingKept DEF SInv, Same
<1>5. Replying' /\ Found'
  BY <1>1 DEF SInv, Replying, Found, Same
<1> QED
  BY <1>4, <1>5

(* ls, file_read, file_write and file_delete: no other message of the      *)
(* client is anywhere.                                                     *)
LEMMA CallStored ==
  ASSUME IInv, NEW c \in Clients, SInv(c), CallMaster(c),
         UNCHANGED <<workerVars, masterVars>>
  PROVE  SInv(c)'
<1> USE MasterElse
<1>1. PICK op \in ClientOps, h \in Targets, n \in CallNames \cup {NoName} :
        /\ (n = NoName) <=> (op = "LS")
        /\ request' = [request EXCEPT ![c] = [op |-> op, file |-> n]]
        /\ Dial(c, h, op, n, "other")
  BY DEF CallMaster
<1> DEFINE m == [from |-> c, op |-> op, arg |-> n, token |-> "other"]
<1>2. /\ h \in Hosts /\ m \in Conn
      /\ \A w \in Workers : ~Deletes(w, m)
  BY ClientAssumption, WireAssumption DEF Conn, MsgTypes, Deletes
<1>3. /\ Sends(h, m) /\ UNCHANGED active /\ link'[c].text = ""
      /\ \A d \in Callers \ {c} : link'[d] = link[d]
  BY <1>1, DialSends
<1>4. m.from = c /\ m.op = op /\ m.arg = n /\ m.token = "other"
  OBVIOUS
<1> HIDE DEF m
<1>5. \A g \in Hosts : /\ active[g].from # c
                      /\ \A k \in 1..Len(queue[g]) : queue[g][k].from # c
  <2>1. ~Open(c)
    BY DEF CallMaster, IInv, ClientsIdle
  <2> QED
    BY <2>1, NotWaiting
<1>6. ASSUME NEW g \in Hosts, NEW x \in Callers, NoneBehind(g, x),
             g \in Workers \/ x = c
      PROVE  NoneBehind(g, x)'
  <2>1. g = h => \/ ~Deletes(h, m)
                 \/ /\ active[g].from # x
                    /\ \A k \in 1..Len(queue[g]) : queue[g][k].from # x
    BY <1>2, <1>5, <1>6
  <2>2. UNCHANGED active /\ Sends(h, m) /\ h \in Hosts /\ m \in Conn
    BY <1>2, <1>3
  <2> QED
    BY <1>6, <2>1, <2>2, SendBehind
<1>7. Kept(Workers)
  <2>1. ASSUME NEW w \in Workers, NoDelete(w)
        PROVE  NoDelete(w)'
    BY <1>2, <1>3, <2>1, SendNoDelete
  <2> QED
    BY <1>6, <2>1 DEF Kept
<1>8. AheadKept
  <2>1. ASSUME NEW w \in Workers, NEW a, Ahead(w, a)
        PROVE  Ahead(w, a)'
    <3>1. ASSUME NEW k \in 1..Len(queue'[w]), queue'[w][k].from = Main
          PROVE  queue'[w][k].arg \in Decoded(a)
      <4>1. k \in 1..Len(queue[w]) /\ queue'[w][k] = queue[w][k]
        <5>1. w \in Hosts
          OBVIOUS
        <5>2. \/ k \in 1..Len(queue[w]) /\ queue'[w][k] = queue[w][k]
              \/ /\ w = h /\ k = Len(queue[w]) + 1 /\ queue'[w][k] = m
                 /\ Len(queue'[w]) = Len(queue[w]) + 1
          BY <1>2, <1>3, <5>1, SendAt
        <5> QED
          BY <1>4, <3>1, <5>2
      <4> QED
        BY <2>1, <3>1, <4>1 DEF Ahead
    <3> QED
      BY <1>3, <2>1, <3>1, AheadNext DEF Ahead
  <2> QED
    BY <2>1 DEF AheadKept
<1>9. Writing' /\ Replying' /\ Found'
  BY <1>3, <1>7, <1>8, ClientWriting DEF masterVars, Same
<1>10. NoneBehind(Master, c)'
  BY <1>6 DEF SInv
<1>11. Sent(c)'
  <2>1. request'[c] = [op |-> op, file |-> n]
    BY <1>1 DEF IInv, ClientTypeOK
  <2>2. op = "WRITE" => n \in Decoded(n)
    BY <1>1, ClientAssumption, WireAssumption DEF Decoded
  <2>3. ASSUME NEW g \in Hosts, NEW k \in 1..Len(queue'[g]), queue'[g][k].from = c
        PROVE  queue'[g][k] = m
    <3>1. \/ k \in 1..Len(queue[g]) /\ queue'[g][k] = queue[g][k]
          \/ /\ g = h /\ k = Len(queue[g]) + 1 /\ queue'[g][k] = m
             /\ Len(queue'[g]) = Len(queue[g]) + 1
      BY <1>2, <1>3, SendAt
    <3> QED
      BY <1>5, <2>3, <3>1
  <2>4. ASSUME NEW g \in Hosts
        PROVE  Carried(c, active[g])'
    BY <1>3, <1>5 DEF Carried
  <2>5. ASSUME NEW g \in Hosts, NEW k \in 1..Len(queue'[g])
        PROVE  Carried(c, queue[g][k])'
    BY <1>4, <2>1, <2>2, <2>3 DEF Carried
  <2> QED
    BY <2>4, <2>5 DEF Sent, Hosts
<1>12. Reported(c)'
  BY <1>3 DEF CallMaster, Reported, Told, IInv, ClientTypeOK
<1> QED
  BY <1>9, <1>10, <1>11, <1>12 DEF SInv

LEMMA FinishStored ==
  ASSUME IInv, NEW c \in Clients, SInv(c), ClientProgress(c),
         UNCHANGED <<workerVars, masterVars>>
  PROVE  SInv(c)'
<1> USE MasterElse
<1>1. UNCHANGED <<queue, active, disk>> /\ link'[Main] = link[Main]
  BY DEF ClientProgress, CallRefused, Receive, ReceiveNothing, Finish,
         ClientReturns, wire, workerVars, IInv, Sound, WireInv
<1>2. Kept(Hosts) /\ AheadKept /\ (UNCHANGED request => Moves(c))
  BY <1>1, SameFades, FadesMove
<1>3. Writing' /\ Replying' /\ Found'
  BY <1>1, <1>2, ClientWriting DEF masterVars, Same, Kept
<1>4. NoneBehind(Master, c)'
  BY <1>2 DEF Kept, SInv
<1>5. CASE ClientReturns(c)
  <2>1. /\ request' = [request EXCEPT ![c] = NoRequest]
        /\ cpc[c] = "done"
    BY <1>5 DEF ClientReturns
  <2>2. Reported(c)'
    BY <2>1 DEF Reported, NoRequest, IInv, ClientTypeOK
  <2>3. \A g \in Hosts : /\ active[g].from # c
                        /\ \A k \in 1..Len(queue[g]) : queue[g][k].from # c
    <3>1. ~Open(c)
      BY <2>1 DEF IInv, ClientsIdle
    <3> QED
      BY <3>1, NotWaiting
  <2>4. Sent(c)'
    BY <1>1, <2>3 DEF Sent, Carried
  <2> QED
    BY <1>3, <1>4, <2>2, <2>4 DEF SInv
<1>6. CASE CallRefused(c) \/ Receive(c) \/ ReceiveNothing(c)
  <2>1. PICK text : Finish(c, text) /\ (text = "count" => link[c].text = "count")
    BY <1>6 DEF CallRefused, Receive, ReceiveNothing
  <2>2. /\ link'[c].text = "" /\ printed'[c] = text /\ UNCHANGED request
    BY <2>1 DEF Finish, Ended, IInv, Sound, WireInv, ClientTypeOK
  <2>3. Told(c)' => Told(c)
    BY <2>1, <2>2 DEF Told
  <2>4. Reported(c)'
    BY <1>1, <1>2, <2>2, <2>3, ReportedKept DEF SInv, DiskKept
  <2>5. Sent(c)'
    BY <1>2, <2>2 DEF Moves, SInv
  <2> QED
    BY <1>3, <1>4, <2>4, <2>5 DEF SInv
<1> QED
  BY <1>5, <1>6 DEF ClientProgress

LEMMA ClientDiesStored ==
  ASSUME IInv, NEW c \in Clients, SInv(c), ClientDies(c),
         UNCHANGED <<workerVars, masterVars>>
  PROVE  SInv(c)'
<1> USE MasterElse
<1>1. Fades({})
  BY AbandonedFades, CutFades DEF ClientDies
<1>2. Kept(Hosts) /\ AheadKept
  BY <1>1, FadesMove
<1>3. \A h \in Hosts : Same(active'[h], active[h])
  BY <1>1 DEF Fades, ActiveFades
<1>4. link'[Main] = link[Main]
  BY DEF ClientDies, IInv, Sound, WireInv
<1>5. Writing' /\ Replying' /\ Found'
  BY <1>2, <1>3, <1>4, ClientWriting DEF masterVars, Kept
<1>6. NoneBehind(Master, c)'
  BY <1>2 DEF Kept, SInv
<1>7. Reported(c)'
  BY DEF ClientDies, Reported, NoRequest, IInv, ClientTypeOK
<1>8. Sent(c)'
  <2>1. \A m \in Conn : Without({c}, m).from # c /\ NoConn.from # c
    BY NobodyCalls DEF Without, NoConn, Conn
  <2>2. ASSUME NEW g \in Hosts
        PROVE  active'[g].from # c
    BY <2>1, Messages DEF ClientDies, AbandonedActive
  <2>3. ASSUME NEW g \in Hosts, NEW k \in 1..Len(queue'[g])
        PROVE  queue'[g][k].from # c
    <3>1. CASE queue' = AbandonedQueue({c})
      <4>1. queue'[g] = [i \in 1..Len(queue[g]) |-> Without({c}, queue[g][i])]
        BY <3>1 DEF AbandonedQueue
      <4>2. Len(queue'[g]) = Len(queue[g])
        BY <4>1, Messages
      <4> QED
        BY <2>1, <4>1, <4>2, Messages
    <3>2. CASE queue' = CutQueue(c)
      <4>1. queue'[g] = [i \in 1..Len(queue[g]) |->
                           IF queue[g][i].from = c THEN NoConn ELSE queue[g][i]]
        BY <3>2 DEF CutQueue
      <4>2. Len(queue'[g]) = Len(queue[g])
        BY <4>1, Messages
      <4> QED
        BY <2>1, <4>1, <4>2, Messages
    <3> QED
      BY <3>1, <3>2 DEF ClientDies
  <2> QED
    BY <2>2, <2>3 DEF Sent, Carried
<1> QED
  BY <1>5, <1>6, <1>7, <1>8 DEF SInv

-----------------------------------------------------------------------------

LEMMA InitStored ==
  ASSUME Init, NEW c \in Clients
  PROVE  SInv(c)
<1> USE MasterElse
<1>1. \A h \in Hosts : active[h] = NoConn /\ Len(queue[h]) = 0
  <2>1. Len(<<>>) = 0
    OBVIOUS
  <2> QED
    BY <2>1 DEF Init, WireInit
<1>2. Sent(c) /\ NoneBehind(Master, c)
  BY <1>1, NobodyCalls DEF Sent, Carried, NoneBehind, NoConn
<1>3. Writing /\ Found
  BY DEF Init, MasterInit, Writing, Found
<1>4. Reported(c)
  BY DEF Init, ClientInit, Reported, NoRequest
<1>5. Replying
  BY DEF Init, WorkerInit, Replying
<1> QED
  BY <1>2, <1>3, <1>4, <1>5 DEF SInv

LEMMA NextStored ==
  ASSUME IInv, NEW c \in Clients, Clients = {c}, SInv(c), [Next]_vars
  PROVE  SInv(c)'
<1>1. ASSUME NEW w \in Workers,
             \/ WorkerStep(w)
             \/ StartWorker(w) /\ UNCHANGED <<masterVars, clientVars>>
             \/ WorkerDies(w) /\ UNCHANGED <<masterVars, clientVars>>
      PROVE  SInv(c)'
  BY <1>1, WorkerStored, FileStored, RepliesStored
  DEF WorkerStep, WorkerProgress
<1>2. CASE /\ MainProgress \/ WriteReadsZero \/ StartMaster
                \/ MasterDies("killed")
           /\ UNCHANGED <<workerVars, clientVars>>
  BY <1>2, MainStored
<1>3. CASE /\ AdminProgress \/ PongReadsZero
           /\ UNCHANGED <<workerVars, clientVars>>
  BY <1>3, AdminStored
<1>4. ASSUME NEW x \in Callers, TimeoutStep(x)
      PROVE  SInv(c)'
  BY <1>4, TimeoutStored DEF TimeoutStep
<1>5. CASE /\ ClientProgress(c) \/ CallMaster(c) \/ ClientDies(c)
           /\ UNCHANGED <<workerVars, masterVars>>
  BY <1>5, FinishStored, CallStored, ClientDiesStored
<1>6. CASE UNCHANGED vars
  BY <1>6, SameStored DEF vars, wire, masterVars, CountsOnly
<1>7. CASE Next
  <2>1. CASE \/ \E w \in Workers : WorkerStep(w)
             \/ MainStep \/ AdminStep \/ ZeroStep
             \/ \E d \in Clients : ClientStep(d)
             \/ \E x \in Callers : TimeoutStep(x)
    BY <1>1, <1>2, <1>3, <1>4, <1>5, <2>1
    DEF MainStep, AdminStep, ZeroStep, ReadsOfZero, ClientStep
  <2>2. CASE StartStep
    BY <1>1, <1>2, <1>5, <2>2 DEF StartStep
  <2>3. CASE Crash
    BY <1>1, <1>2, <1>5, <2>3 DEF Crash
  <2> QED
    BY <1>7, <2>1, <2>2, <2>3 DEF Next
<1> QED
  BY <1>6, <1>7

(* With one client, a file_write that returned the count of a worker has   *)
(* left the file on a disk, for any number of workers, names and crashes:  *)
(* the answer passes through two processes, each of which may be killed,   *)
(* time out or have the client's next DELETE in its queue.                 *)
THEOREM WritesAreStored ==
  ASSUME NEW c, Clients = {c}
  PROVE  Spec => []CountedWriteIsStored
<1>1. Init => SInv(c)
  BY InitStored
<1>2. IInv /\ SInv(c) /\ [Next]_vars => SInv(c)'
  BY NextStored
<1>3. SInv(c) => CountedWriteIsStored
  <2> SUFFICES ASSUME SInv(c), cpc[c] = "done", request[c].op = "WRITE",
                      printed[c] = "count"
               PROVE  \E w \in Workers : disk[w] \cap Decoded(request[c].file) # {}
    BY DEF CountedWriteIsStored
  <2> QED
    BY DEF SInv, Reported, Told, Stored
<1> QED
  BY <1>1, <1>2, <1>3, Inductive, PTL DEF Spec
=============================================================================
