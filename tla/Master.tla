------------------------------- MODULE Master -------------------------------
(***************************************************************************)
(* The master: its main loop (src/master.c), the worker administration     *)
(* with its ping thread (src/worker_admin.c) and balance.c.                *)
(*                                                                         *)
(* The operations of the server table are single steps here, taken when    *)
(* the mutex is free: that they behave so is what ServerTable shows.       *)
(*                                                                         *)
(* A failed client_init gives the thread file descriptor 0.  zero is what  *)
(* that descriptor is: the standard input at first; nothing once a         *)
(* conn_close of such a connection has closed it; then the next socket     *)
(* that is made.  A send on a socket that is not connected raises SIGPIPE, *)
(* which ends the process.                                                 *)
(***************************************************************************)
EXTENDS Wire

CONSTANTS
  Pinging     (* whether the ping thread's timer expires in this instance  *)

ASSUME MasterAssumption == Pinging \in BOOLEAN

VARIABLES
  mpc,        (* the main thread                                           *)
  apc,        (* the ping thread                                           *)
  mutex,      (* the owner of the mutex of the server table, or Nobody     *)
  table,      (* the server table: worker ids and their hosts              *)
  workerId,   (* worker_id, the number of the next worker                  *)
  slot,       (* the loop variable i of worker_ls and find_by_file         *)
  total,      (* their worker_count, read once                             *)
  listing,    (* the names worker_ls has collected                         *)
  aslot,      (* the loop variable of for_each_server in the ping thread   *)
  zero,       (* what file descriptor 0 of the process is                  *)
  fault       (* why the process has ended                                 *)

masterVars == <<mpc, apc, mutex, table, workerId, slot, total, listing,
                aslot, zero, fault>>

MainSteps == {"off", "closed", "accept", "handle", "loop", "listing",
              "found", "writing", "restart"}

AdminSteps == {"timer", "ping", "pong", "remove"}

Faults == {"none", "killed", "worker_read", "find_by_file", "sigpipe",
           "written_bytes"}

MasterTypeOK ==
  /\ mpc \in MainSteps
  /\ apc \in AdminSteps
  /\ mutex \in {Admin, Nobody}
  /\ table \in Seq([id : Nat, host : Workers])
  /\ workerId \in Nat
  /\ slot \in Nat
  /\ total \in Nat
  /\ listing \subseteq Names
  /\ aslot \in Nat
  /\ zero \in {"stdin", "free", "listener", "stray"}
  /\ fault \in Faults

MasterInit ==
  /\ mpc = "closed"
  /\ apc = "timer"
  /\ mutex = Nobody
  /\ table = <<>>
  /\ workerId = 1
  /\ slot = 0
  /\ total = 0
  /\ listing = {}
  /\ aslot = 0
  /\ zero = "stdin"
  /\ fault = "none"

MainGoto(step) == mpc' = step

loopVars == <<slot, total, listing>>
adminVars == <<apc, mutex, aslot>>
tableVars == <<table, workerId>>

(* The process ends and its memory is gone.                                *)
MasterDies(cause) ==
  /\ ProcessDies(Master, {Main, Admin})
  /\ mpc' = "off"
  /\ apc' = "timer"
  /\ mutex' = Nobody
  /\ table' = <<>>
  /\ workerId' = 1
  /\ slot' = 0
  /\ total' = 0
  /\ listing' = {}
  /\ aslot' = 0
  /\ zero' = "stdin"
  /\ fault' = cause

(* It is started again, with nothing of what it knew before.               *)
StartMaster ==
  /\ mpc = "off"
  /\ MainGoto("closed")
  /\ fault' = "none"
  /\ UNCHANGED <<wire, adminVars, tableVars, loopVars, zero>>

-----------------------------------------------------------------------------
(* main.                                                                   *)

MasterListens ==
  /\ mpc = "closed"
  /\ OpenListener(Master)
  /\ MainGoto("accept")
  /\ UNCHANGED <<queue, active, link, adminVars, tableVars, loopVars, zero,
                 fault>>

MasterAccepts ==
  /\ mpc = "accept"
  /\ TakeConnection(Master)
  /\ MainGoto("handle")
  /\ UNCHANGED <<adminVars, tableVars, loopVars, zero, fault>>

(* server_restart.  When descriptor 0 is free, the new socket gets it.     *)
ServerRestart ==
  /\ mpc = "restart"
  /\ CloseListener(Master)
  /\ MainGoto("closed")
  /\ zero' = IF zero = "free" THEN "listener" ELSE zero
  /\ UNCHANGED <<adminVars, tableVars, loopVars, fault>>

-----------------------------------------------------------------------------
(* handle_client.  conn_write of the answer and the conn_close in          *)
(* server_restart are one step as far as the client can tell.              *)

Request(op) == mpc = "handle" /\ active[Master].op = op

Reply(text, names) ==
  /\ AnswerAndClose(Master, text, names)
  /\ MainGoto("restart")

(* conn_read returns nothing.                                              *)
NothingRead ==
  /\ Request("nothing")
  /\ HangUp(Master)
  /\ MainGoto("restart")
  /\ UNCHANGED <<adminVars, tableVars, loopVars, zero, fault>>

(* service_available.                                                      *)
Unavailable ==
  /\ mpc = "handle"
  /\ active[Master].op \notin {"nothing", "REGISTER"}
  /\ table = <<>>
  /\ Reply("Service unavailable.", {})
  /\ UNCHANGED <<adminVars, tableVars, loopVars, zero, fault>>

RejectRegister ==
  /\ Request("REGISTER")
  /\ active[Master].token # "worker"
  /\ HangUp(Master)
  /\ MainGoto("restart")
  /\ UNCHANGED <<adminVars, tableVars, loopVars, zero, fault>>

(* Variant: worker_id is not incremented.                                  *)
RegisterSameId ==
  /\ Request("REGISTER")
  /\ active[Master].token = "worker"
  /\ mutex = Nobody
  /\ table' = Append(table, [id |-> workerId, host |-> active[Master].arg])
  /\ HangUp(Master)
  /\ MainGoto("restart")
  /\ UNCHANGED <<workerId, adminVars, loopVars, zero, fault>>

(* Variant: the token is not compared.                                     *)
RegisterAnyToken ==
  /\ Request("REGISTER")
  /\ mutex = Nobody
  /\ table' = Append(table, [id |-> workerId, host |-> active[Master].arg])
  /\ workerId' = workerId + 1
  /\ HangUp(Master)
  /\ MainGoto("restart")
  /\ UNCHANGED <<adminVars, loopVars, zero, fault>>

(* add_worker, also for a host that is in the table already.  parse_ip     *)
(* copies the address without a terminator: the memory behind the copy is  *)
(* taken to end it.                                                        *)
Register ==
  /\ Request("REGISTER")
  /\ active[Master].token = "worker"
  /\ mutex = Nobody
  /\ table' = Append(table, [id |-> workerId, host |-> active[Master].arg])
  /\ workerId' = workerId + 1
  /\ HangUp(Master)
  /\ MainGoto("restart")
  /\ UNCHANGED <<adminVars, loopVars, zero, fault>>

(* worker_read is not finished and returns NULL, whose strlen is taken.    *)
ReadFile ==
  /\ Request("READ")
  /\ table # <<>>
  /\ MasterDies("worker_read")

(* worker_append is not finished and returns -1.                           *)
AppendFile ==
  /\ Request("APPEND")
  /\ table # <<>>
  /\ Reply("-1", {})
  /\ UNCHANGED <<adminVars, tableVars, loopVars, zero, fault>>

-----------------------------------------------------------------------------
(* worker_ls and find_by_file: ask one worker after the other for its      *)
(* listing (worker_ls_index).                                              *)

(* Variant: the loop starts below the first slot.                          *)
StartLoopBelow ==
  /\ Request("LS") \/ Request("DELETE")
  /\ table # <<>>
  /\ total' = Len(table)
  /\ slot' = -1
  /\ listing' = {}
  /\ MainGoto("loop")
  /\ UNCHANGED <<wire, adminVars, tableVars, zero, fault>>

StartLoop ==
  /\ Request("LS") \/ Request("DELETE")
  /\ table # <<>>
  /\ total' = Len(table)
  /\ slot' = 0
  /\ listing' = {}
  /\ MainGoto("loop")
  /\ UNCHANGED <<wire, adminVars, tableVars, zero, fault>>

(* getfs_index, client_init and conn_write.                                *)
AskWorker ==
  /\ mpc = "loop"
  /\ slot < total
  /\ mutex = Nobody
  /\ Dial(Main, table[slot + 1].host, "LS", NoName, "master")
  /\ MainGoto("listing")
  /\ UNCHANGED <<adminVars, tableVars, loopVars, zero, fault>>

(* The answer of a worker.  find_by_file stops at the first listing that   *)
(* has the name as a substring.                                            *)
Matches(names) == \E n \in names : n \in Decoded(active[Master].arg)

WorkerListed ==
  /\ mpc = "listing"
  /\ HasAnswer(Main)
  /\ link' = [link EXCEPT ![Main] = Ended("none")]
  /\ IF active[Master].op = "DELETE" /\ Matches(link[Main].names)
     THEN MainGoto("found") /\ UNCHANGED loopVars
     ELSE /\ MainGoto("loop")
          /\ slot' = slot + 1
          /\ listing' = IF active[Master].op = "LS"
                        THEN listing \cup link[Main].names ELSE listing
          /\ UNCHANGED total
  /\ UNCHANGED <<listening, queue, active, adminVars, tableVars, zero, fault>>

(* The send on descriptor 0 after a failed client_init raises SIGPIPE, or  *)
(* returns -1.                                                             *)
Refused(c) == link[c].state = "refused"
SendKills == zero \in {"listener", "stray"}
SendFails == zero # "listener"

(* Variant: worker_ls asks the same worker again.                          *)
RetryWorker ==
  /\ mpc = "listing"
  /\ active[Master].op = "LS"
  /\ HasFailed(Main) \/ (Refused(Main) /\ SendFails)
  /\ link' = [link EXCEPT ![Main] = Ended("none")]
  /\ MainGoto("loop")
  /\ UNCHANGED <<listening, queue, active, adminVars, tableVars, loopVars,
                 zero, fault>>

(* worker_ls_index returns NULL: worker_ls goes on with the next worker.   *)
SkipWorker ==
  /\ mpc = "listing"
  /\ active[Master].op = "LS"
  /\ HasFailed(Main) \/ (Refused(Main) /\ SendFails)
  /\ link' = [link EXCEPT ![Main] = Ended("none")]
  /\ slot' = slot + 1
  /\ MainGoto("loop")
  /\ UNCHANGED <<listening, queue, active, adminVars, tableVars, total,
                 listing, zero, fault>>

(* find_by_file gives the NULL to strstr.                                  *)
SearchNull ==
  /\ mpc = "listing"
  /\ active[Master].op = "DELETE"
  /\ HasFailed(Main) \/ (Refused(Main) /\ SendFails)
  /\ MasterDies("find_by_file")

(* Any send of the main thread on a socket that is not connected.          *)
MainSigpipe ==
  /\ mpc \in {"listing", "writing"}
  /\ Refused(Main)
  /\ SendKills
  /\ MasterDies("sigpipe")

EndLoop ==
  /\ mpc = "loop"
  /\ slot = total
  /\ IF active[Master].op = "LS" THEN Reply("listing", listing)
                                 ELSE Reply("1", {})
  /\ slot' = 0
  /\ total' = 0
  /\ listing' = {}
  /\ UNCHANGED <<adminVars, tableVars, zero, fault>>

(* getfs_index, and worker_delete: the message is sent, nothing is read,   *)
(* and the client is told "1".  conn_close of an ERR_CONN closes           *)
(* descriptor 0.                                                           *)
SendDelete ==
  /\ mpc = "found"
  /\ mutex = Nobody
  /\ LET h == table[slot + 1].host IN
     \/ /\ Reachable(h)
        /\ Post(h, "DELETE", active[Master].arg, "master")
        /\ UNCHANGED zero
     \/ /\ ~Reachable(h)
        /\ SendFails
        /\ zero' = "free"
        /\ UNCHANGED queue
  /\ link' = AnsweredLinks(Master, "1", {})
  /\ active' = [active EXCEPT ![Master] = NoConn]
  /\ slot' = 0
  /\ total' = 0
  /\ MainGoto("restart")
  /\ UNCHANGED <<listening, adminVars, tableVars, listing, fault>>

DeleteSigpipe ==
  /\ mpc = "found"
  /\ mutex = Nobody
  /\ ~Reachable(table[slot + 1].host)
  /\ SendKills
  /\ MasterDies("sigpipe")

-----------------------------------------------------------------------------
(* worker_write.                                                           *)

(* least_load, client_init and conn_write.  exec_long copies the name      *)
(* without a terminator.                                                   *)
StartWrite ==
  /\ Request("WRITE")
  /\ table # <<>>
  /\ mutex = Nobody
  /\ \E n \in Decoded(active[Master].arg) :
       Dial(Main, table[1].host, "WRITE", n, "master")
  /\ MainGoto("writing")
  /\ UNCHANGED <<adminVars, tableVars, loopVars, zero, fault>>

EndWrite(text) ==
  /\ link' = [AnsweredLinks(Master, text, {}) EXCEPT ![Main] = Ended("none")]
  /\ active' = [active EXCEPT ![Master] = NoConn]
  /\ MainGoto("restart")
  /\ UNCHANGED <<listening, queue, adminVars, tableVars, loopVars, fault>>

(* written_bytes with an answer.                                           *)
Written ==
  /\ mpc = "writing"
  /\ HasAnswer(Main)
  /\ EndWrite(link[Main].text)
  /\ UNCHANGED zero

(* conn_read returns -1.                                                   *)
WriteFails ==
  /\ mpc = "writing"
  /\ link[Main].state \in {"timeout", "reset"}
  /\ EndWrite("-1")
  /\ UNCHANGED zero

(* conn_read returns 0, which written_bytes does not take for an error: it *)
(* decodes the buffer that nothing was read into.                          *)
WriteDecodesNothing ==
  /\ mpc = "writing"
  /\ link[Main].state \in {"eof", "reset"}
  /\ EndWrite("garbage")
  /\ UNCHANGED zero

(* ... or dies of the length it finds there.                               *)
WriteCrashes ==
  /\ mpc = "writing"
  /\ \/ link[Main].state \in {"eof", "reset"}
     \/ Refused(Main) /\ SendFails
  /\ MasterDies("written_bytes")

(* After a failed client_init the answer is read from descriptor 0, for    *)
(* which no timeout is set; then conn_close closes it.                     *)
WriteReadsZero ==
  /\ mpc = "writing"
  /\ Refused(Main)
  /\ SendFails
  /\ \E text \in {"-1", "garbage"} : EndWrite(text)
  /\ zero' = "free"

-----------------------------------------------------------------------------
(* manager_thread: every update_time seconds, for_each_server(ping_server) *)
(* with the mutex held throughout.                                         *)

mainVars == <<mpc, slot, total, listing>>

StartRound ==
  /\ Pinging
  /\ mpc # "off"
  /\ apc = "timer"
  /\ mutex = Nobody
  /\ mutex' = Admin
  /\ aslot' = 0
  /\ apc' = "ping"
  /\ UNCHANGED <<wire, mainVars, tableVars, zero, fault>>

EndRound ==
  /\ apc = "ping"
  /\ aslot >= Len(table)
  /\ mutex' = Nobody
  /\ aslot' = 0
  /\ apc' = "timer"
  /\ UNCHANGED <<wire, mainVars, tableVars, zero, fault>>

(* ping_server.  Its connection is never closed: a socket that was given   *)
(* descriptor 0 keeps it.                                                  *)
Ping ==
  /\ apc = "ping"
  /\ aslot < Len(table)
  /\ Dial(Admin, table[aslot + 1].host, "PING", NoName, "master")
  /\ apc' = "pong"
  /\ zero' = IF zero = "free" THEN "stray" ELSE zero
  /\ UNCHANGED <<mainVars, tableVars, mutex, aslot, fault>>

(* Variant: the loop of for_each_server does not go on.                    *)
PongSameSlot ==
  /\ apc = "pong"
  /\ HasAnswer(Admin)
  /\ link' = [link EXCEPT ![Admin] = Ended("none")]
  /\ apc' = "ping"
  /\ UNCHANGED <<listening, queue, active, mainVars, tableVars, mutex, aslot,
                 zero, fault>>

Pong ==
  /\ apc = "pong"
  /\ HasAnswer(Admin)
  /\ link' = [link EXCEPT ![Admin] = Ended("none")]
  /\ aslot' = aslot + 1
  /\ apc' = "ping"
  /\ UNCHANGED <<listening, queue, active, mainVars, tableVars, mutex, zero,
                 fault>>

(* Variant: a mutex that its owner can lock again, so that remove_server   *)
(* removes the worker.                                                     *)
PongFailsRemoving ==
  /\ apc = "pong"
  /\ HasFailed(Admin)
  /\ link' = [link EXCEPT ![Admin] = Ended("none")]
  /\ table' = SubSeq(table, 1, aslot)
              \o SubSeq(table, aslot + 2, Len(table))
  /\ apc' = "ping"
  /\ UNCHANGED <<listening, queue, active, mainVars, workerId, mutex, aslot,
                 zero, fault>>

(* handle_ping_response: bytes <= 0.  remove_server waits for the mutex    *)
(* that the ping thread itself holds; "remove" has no way out.             *)
PongFails ==
  /\ apc = "pong"
  /\ HasFailed(Admin)
  /\ link' = [link EXCEPT ![Admin] = Ended("none")]
  /\ apc' = "remove"
  /\ UNCHANGED <<listening, queue, active, mainVars, tableVars, mutex, aslot,
                 zero, fault>>

(* After a failed client_init the answer is read from descriptor 0: what   *)
(* is read may or may not look like a ping.                                *)
PongReadsZero ==
  /\ apc = "pong"
  /\ Refused(Admin)
  /\ SendFails
  /\ link' = [link EXCEPT ![Admin] = Ended("none")]
  /\ \/ apc' = "remove" /\ UNCHANGED aslot
     \/ zero = "stdin" /\ apc' = "ping" /\ aslot' = aslot + 1
  /\ UNCHANGED <<listening, queue, active, mainVars, tableVars, mutex, zero,
                 fault>>

AdminSigpipe ==
  /\ apc = "pong"
  /\ Refused(Admin)
  /\ SendKills
  /\ MasterDies("sigpipe")

-----------------------------------------------------------------------------

(* The main thread's steps that wait for the mutex.                        *)
MainLocks == Register \/ AskWorker \/ SendDelete \/ StartWrite
             \/ DeleteSigpipe

(* What the main thread does on its own.                                   *)
MainProgress ==
  \/ MasterListens \/ MasterAccepts \/ ServerRestart \/ NothingRead
  \/ Unavailable \/ RejectRegister \/ ReadFile \/ AppendFile \/ StartLoop
  \/ WorkerListed \/ SkipWorker \/ SearchNull \/ MainSigpipe \/ EndLoop
  \/ Written \/ WriteFails \/ WriteDecodesNothing \/ WriteCrashes
  \/ MainLocks

(* What the ping thread does on its own, once its timer has expired.       *)
AdminProgress ==
  StartRound \/ EndRound \/ Ping \/ Pong \/ PongFails \/ AdminSigpipe

(* The reads of descriptor 0, which end when its owner pleases.            *)
ReadsOfZero == WriteReadsZero \/ PongReadsZero
=============================================================================
