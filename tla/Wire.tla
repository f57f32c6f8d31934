-------------------------------- MODULE Wire --------------------------------
(***************************************************************************)
(* The connections between the processes of PekarDrive: lib/comm.c over    *)
(* the TCP sockets of the kernel, which are external and are modelled from *)
(* how comm.c uses them.                                                   *)
(*                                                                         *)
(* A host that listens has a queue of connections the kernel has completed *)
(* but the program has not accepted yet.  client_init and the one          *)
(* conn_write that follows it are one step, so that a queued connection    *)
(* carries its message.  Closing the listening socket resets every         *)
(* connection that is still in its queue.                                  *)
(***************************************************************************)
EXTENDS Integers, Sequences, FiniteSets

CONSTANTS
  Master,     (* the host of the master                                    *)
  Workers,    (* the hosts of the workers                                  *)
  Clients,    (* the client processes                                      *)
  Main,       (* the master's main thread, when it calls a worker          *)
  Admin,      (* the master's ping thread, when it calls a worker          *)
  Nobody,     (* the far end of a connection that its caller has closed    *)
  Names,      (* file names                                                *)
  Prefix,     (* the pairs <<m, n>> such that n is m with something behind *)
  NoName,     (* the argument of a message without one                     *)
  Backlog     (* the connections the kernel queues for a listener          *)

Hosts == {Master} \cup Workers
Callers == Clients \cup {Main, Admin}

ASSUME WireAssumption ==
  /\ Master \notin Workers
  /\ Main # Admin
  /\ Nobody \notin Callers
  /\ {Main, Admin} \cap Clients = {}
  /\ NoName \notin Names
  /\ Workers \cap Names = {}
  /\ Backlog \in Nat \ {0}
  /\ Prefix \subseteq Names \X Names
  /\ \A n \in Names : <<n, n>> \in Prefix
  /\ \A l, m, n \in Names :
       <<l, m>> \in Prefix /\ <<m, n>> \in Prefix => <<l, n>> \in Prefix

VARIABLES
  listening,  (* the hosts whose listening socket is open                  *)
  queue,      (* the connections each listener has queued                  *)
  active,     (* the connection each host has accepted and not yet closed  *)
  link        (* what the connection each caller made has come to          *)

wire == <<listening, queue, active, link>>

(* enum type of packet.h; "nothing" is a connection that is closed by its  *)
(* caller before anything was sent on it.                                  *)
MsgTypes == {"PING", "LS", "WRITE", "READ", "APPEND", "REGISTER", "DELETE"}

Conn == [from : Callers \cup {Nobody}, op : MsgTypes \cup {"nothing"},
         arg : Names \cup Workers \cup {NoName},
         token : {"master", "worker", "other"}]

NoConn == [from |-> Nobody, op |-> "nothing", arg |-> NoName,
           token |-> "other"]

(* An answer: its text, or the names it lists.                             *)
Texts == {"", "pong", "listing", "count", "-1", "1", "Service unavailable.",
          "garbage"}

States == {"none", "open", "refused", "reset", "eof", "timeout", "answered"}

Link == [state : States, text : Texts, names : SUBSET Names]

Ended(s) == [state |-> s, text |-> "", names |-> {}]

WireTypeOK ==
  /\ listening \subseteq Hosts
  /\ queue \in [Hosts -> Seq(Conn)]
  /\ active \in [Hosts -> Conn]
  /\ link \in [Callers -> Link]

WireInit ==
  /\ listening = {}
  /\ queue = [h \in Hosts |-> <<>>]
  /\ active = [h \in Hosts |-> NoConn]
  /\ link = [c \in Callers |-> Ended("none")]

(* What p_decode makes of a name: it copies msg_len bytes and no           *)
(* terminator, so the string goes on with whatever the heap holds there.   *)
Decoded(n) == {m \in Names : <<n, m>> \in Prefix}

-----------------------------------------------------------------------------
(* The caller's end.                                                       *)

Reachable(h) == h \in listening /\ Len(queue[h]) < Backlog

(* client_init and conn_write, by a caller that then reads the answer.  A  *)
(* client_init that fails leaves an ERR_CONN with file descriptor 0.       *)
Dial(c, h, op, arg, token) ==
  LET m == [from |-> c, op |-> op, arg |-> arg, token |-> token] IN
  /\ link' = [link EXCEPT ![c] = IF Reachable(h) THEN Ended("open")
                                 ELSE Ended("refused")]
  /\ queue' = IF Reachable(h) THEN [queue EXCEPT ![h] = Append(@, m)]
              ELSE queue
  /\ UNCHANGED <<listening, active>>

(* client_init, conn_write and conn_close, by a caller that does not wait. *)
Post(h, op, arg, token) ==
  LET m == [from |-> Nobody, op |-> op, arg |-> arg, token |-> token] IN
  queue' = IF Reachable(h) THEN [queue EXCEPT ![h] = Append(@, m)] ELSE queue

(* The connection m after the callers in C have closed their ends.         *)
Without(C, m) == IF m.from \in C THEN [m EXCEPT !.from = Nobody] ELSE m

AbandonedQueue(C) ==
  [h \in Hosts |-> [k \in 1..Len(queue[h]) |-> Without(C, queue[h][k])]]

AbandonedActive(C) == [h \in Hosts |-> Without(C, active[h])]

(* The queues after c has died between client_init and conn_write.         *)
CutQueue(c) ==
  [h \in Hosts |-> [k \in 1..Len(queue[h]) |->
     IF queue[h][k].from = c THEN NoConn ELSE queue[h][k]]]

(* Variant: clients wait without a timeout.                                *)
TimeoutNotForClients(c) ==
  /\ c \notin Clients
  /\ link[c].state = "open"
  /\ link' = [link EXCEPT ![c] = Ended("timeout")]
  /\ queue' = AbandonedQueue({c})
  /\ active' = AbandonedActive({c})
  /\ UNCHANGED listening

(* The timeout of four seconds that client_init sets for conn_read.        *)
Timeout(c) ==
  /\ link[c].state = "open"
  /\ link' = [link EXCEPT ![c] = Ended("timeout")]
  /\ queue' = AbandonedQueue({c})
  /\ active' = AbandonedActive({c})
  /\ UNCHANGED listening

HasAnswer(c) == link[c].state = "answered"

(* conn_read returns 0 or -1.                                              *)
HasFailed(c) == link[c].state \in {"eof", "reset", "timeout"}

-----------------------------------------------------------------------------
(* The listener's end.                                                     *)

(* conn_listen up to accept.                                               *)
OpenListener(h) == listening' = listening \cup {h}

(* accept, and the conn_read and p_decode with which every handler starts. *)
TakeConnection(h) ==
  /\ queue[h] # <<>>
  /\ queue' = [queue EXCEPT ![h] = Tail(@)]
  /\ LET m == Head(queue[h]) IN
     \E n \in IF m.arg \in Names THEN Decoded(m.arg) ELSE {m.arg} :
       active' = [active EXCEPT ![h] = [m EXCEPT !.arg = n]]
  /\ UNCHANGED <<listening, link>>

(* The link of every caller when host h writes an answer and closes its    *)
(* connection; the answer is lost when the caller has gone.                *)
AnsweredLinks(h, text, names) ==
  [c \in Callers |-> IF active[h].from = c
                     THEN [state |-> "answered", text |-> text,
                           names |-> names]
                     ELSE link[c]]

(* conn_write and conn_close of the accepted connection.                   *)
AnswerAndClose(h, text, names) ==
  /\ link' = AnsweredLinks(h, text, names)
  /\ active' = [active EXCEPT ![h] = NoConn]
  /\ UNCHANGED <<listening, queue>>

(* conn_close of the accepted connection without an answer.                *)
HangUp(h) ==
  /\ link' = [c \in Callers |-> IF active[h].from = c THEN Ended("eof")
                                ELSE link[c]]
  /\ active' = [active EXCEPT ![h] = NoConn]
  /\ UNCHANGED <<listening, queue>>

Queued(h) == {queue[h][k].from : k \in 1..Len(queue[h])}

(* close of the listening socket, and of the accepted connection if there  *)
(* is one: whoever is in the queue is reset.                               *)
CloseListener(h) ==
  /\ listening' = listening \ {h}
  /\ queue' = [queue EXCEPT ![h] = <<>>]
  /\ active' = [active EXCEPT ![h] = NoConn]
  /\ link' = [c \in Callers |-> CASE c \in Queued(h)    -> Ended("reset")
                                  [] active[h].from = c -> Ended("eof")
                                  [] OTHER              -> link[c]]

(* The kernel closes the sockets of host h and of the callers C when their *)
(* process dies.                                                           *)
ProcessDies(h, C) ==
  /\ listening' = listening \ {h}
  /\ queue' = [AbandonedQueue(C) EXCEPT ![h] = <<>>]
  /\ active' = [AbandonedActive(C) EXCEPT ![h] = NoConn]
  /\ link' = [c \in Callers |->
                CASE c \in C                               -> Ended("none")
                  [] c \in Queued(h) \/ active[h].from = c -> Ended("reset")
                  [] OTHER                                 -> link[c]]

-----------------------------------------------------------------------------
(* The connection of c is the k-th in the queue of h, or is being handled. *)
At(c, h, k) == IF k = 0 THEN active[h].from = c
               ELSE k <= Len(queue[h]) /\ queue[h][k].from = c

Places(c) == {p \in Hosts \X (0..Backlog) : At(c, p[1], p[2])}

(* Every connection that a caller waits on is in exactly one queue or is   *)
(* being handled by exactly one host, and nobody else has one there.  Each *)
(* way out of the handlers of master and worker has to close the           *)
(* connection it has accepted, also when the file cannot be written, the   *)
(* token is wrong or nothing was read: a forgotten one is a caller whom no *)
(* process will ever answer.                                               *)
ConnectionsAccounted ==
  /\ \A c \in Callers :
       Cardinality(Places(c)) = IF link[c].state = "open" THEN 1 ELSE 0
  /\ \A h \in Hosts : queue[h] # <<>> => h \in listening
=============================================================================
