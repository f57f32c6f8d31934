------------------------------- MODULE Client -------------------------------
(***************************************************************************)
(* The client program (src/client/client.c) and the library it calls       *)
(* (lib/interface.c): one operation per process, each on a connection of   *)
(* its own, with the timeout of client_init on the read.                   *)
(***************************************************************************)
EXTENDS Wire

CONSTANTS
  ClientOps,  (* the operations the clients call                           *)
  CallNames,  (* the file names they call them with                        *)
  Targets     (* the hosts that set-ip and set-port were given             *)

ASSUME ClientAssumption ==
  /\ ClientOps \subseteq {"LS", "WRITE", "READ", "APPEND", "DELETE"}
  /\ CallNames \subseteq Names
  /\ Targets \subseteq Hosts

VARIABLES
  cpc,        (* where each client is                                      *)
  request,    (* the operation it was started with and its file            *)
  printed     (* what the operation returned                               *)

clientVars == <<cpc, request, printed>>

ClientTypeOK ==
  /\ cpc \in [Clients -> {"idle", "wait", "done"}]
  /\ request \in [Clients -> [op : MsgTypes \cup {"nothing"},
                              file : Names \cup {NoName}]]
  /\ printed \in [Clients -> Texts]

NoRequest == [op |-> "nothing", file |-> NoName]

ClientInit ==
  /\ cpc = [c \in Clients |-> "idle"]
  /\ request = [c \in Clients |-> NoRequest]
  /\ printed = [c \in Clients |-> ""]

(* ls, file_read, file_write and file_delete up to the read.               *)
CallMaster(c) ==
  /\ cpc[c] = "idle"
  /\ \E op \in ClientOps, h \in Targets,
        n \in CallNames \cup {NoName} :
       /\ (n = NoName) <=> (op = "LS")
       /\ request' = [request EXCEPT ![c] = [op |-> op, file |-> n]]
       /\ Dial(c, h, op, n, "other")
  /\ cpc' = [cpc EXCEPT ![c] = "wait"]
  /\ UNCHANGED printed

Finish(c, text) ==
  /\ cpc[c] = "wait"
  /\ link' = [link EXCEPT ![c] = Ended("none")]
  /\ cpc' = [cpc EXCEPT ![c] = "done"]
  /\ printed' = [printed EXCEPT ![c] = text]
  /\ UNCHANGED <<listening, queue, active, request>>

(* client.error: the error value of the operation (NULL, -1 or 0).         *)
CallRefused(c) == link[c].state = "refused" /\ Finish(c, "-1")

(* read_all and the conversion of the answer.                              *)
Receive(c) == HasAnswer(c) /\ Finish(c, link[c].text)

(* read_all does not tell the caller that nothing was read: the result is  *)
(* converted from memory nobody has written.                               *)
ReceiveNothing(c) == HasFailed(c) /\ Finish(c, "garbage")

(* The process ends; the next operation is a new one.                      *)
ClientReturns(c) ==
  /\ cpc[c] = "done"
  /\ cpc' = [cpc EXCEPT ![c] = "idle"]
  /\ request' = [request EXCEPT ![c] = NoRequest]
  /\ printed' = [printed EXCEPT ![c] = ""]
  /\ UNCHANGED wire

(* The process is killed while it waits, or between client_init and        *)
(* conn_write: then the connection brings nothing.                         *)
ClientDies(c) ==
  /\ cpc[c] = "wait"
  /\ \/ queue' = AbandonedQueue({c})
     \/ queue' = CutQueue(c)
  /\ active' = AbandonedActive({c})
  /\ link' = [link EXCEPT ![c] = Ended("none")]
  /\ cpc' = [cpc EXCEPT ![c] = "idle"]
  /\ request' = [request EXCEPT ![c] = NoRequest]
  /\ UNCHANGED <<listening, printed>>

ClientProgress(c) ==
  CallRefused(c) \/ Receive(c) \/ ReceiveNothing(c) \/ ClientReturns(c)
=============================================================================
