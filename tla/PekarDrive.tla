----------------------------- MODULE PekarDrive -----------------------------
(***************************************************************************)
(* The whole system: one master, its workers, and clients, over the        *)
(* connections of Wire.  Any process may be killed at any moment, up to    *)
(* MaxCrashes times; workers and the master may be started again.          *)
(***************************************************************************)
EXTENDS Worker, Master, Client

CONSTANTS
  MaxCrashes  (* bound: how often a process is killed                      *)

ASSUME CrashAssumption == MaxCrashes \in Nat

VARIABLES crashes

vars == <<wire, workerVars, masterVars, clientVars, crashes>>

TypeOK ==
  /\ WireTypeOK
  /\ WorkerTypeOK
  /\ MasterTypeOK
  /\ ClientTypeOK
  /\ crashes \in 0..MaxCrashes

Init ==
  /\ WireInit
  /\ WorkerInit
  /\ MasterInit
  /\ ClientInit
  /\ crashes = 0

-----------------------------------------------------------------------------

WorkerStep(w) ==
  WorkerProgress(w) /\ UNCHANGED <<masterVars, clientVars, crashes>>

MainStep == MainProgress /\ UNCHANGED <<workerVars, clientVars, crashes>>

MainLockStep == MainLocks /\ UNCHANGED <<workerVars, clientVars, crashes>>

AdminStep == AdminProgress /\ UNCHANGED <<workerVars, clientVars, crashes>>

ClientStep(c) ==
  ClientProgress(c) /\ UNCHANGED <<workerVars, masterVars, crashes>>

TimeoutStep(c) ==
  Timeout(c) /\ UNCHANGED <<workerVars, masterVars, clientVars, crashes>>

(* The standard input of the master ends or has data.                      *)
ZeroStep == ReadsOfZero /\ UNCHANGED <<workerVars, clientVars, crashes>>

(* What operators and users do.                                            *)
StartStep ==
  \/ \E w \in Workers :
       StartWorker(w) /\ UNCHANGED <<masterVars, clientVars, crashes>>
  \/ StartMaster /\ UNCHANGED <<workerVars, clientVars, crashes>>
  \/ \E c \in Clients :
       CallMaster(c) /\ UNCHANGED <<workerVars, masterVars, crashes>>

Crash ==
  /\ crashes < MaxCrashes
  /\ crashes' = crashes + 1
  /\ \/ \E w \in Workers : WorkerDies(w) /\ UNCHANGED <<masterVars, clientVars>>
     \/ mpc # "off" /\ MasterDies("killed")
                    /\ UNCHANGED <<workerVars, clientVars>>
     \/ \E c \in Clients : ClientDies(c) /\ UNCHANGED <<workerVars, masterVars>>

Next ==
  \/ \E w \in Workers : WorkerStep(w)
  \/ MainStep
  \/ AdminStep
  \/ \E c \in Clients : ClientStep(c)
  \/ \E c \in Callers : TimeoutStep(c)
  \/ ZeroStep
  \/ StartStep
  \/ Crash

Spec == Init /\ [][Next]_vars

(* Running processes run, timers expire, and the mutex, which the ping     *)
(* thread leaves alone for a minute after every round, is not kept from    *)
(* the main thread for ever.  Nothing is assumed of the people who start   *)
(* and kill processes or type into the master's standard input.            *)
Fairness ==
  /\ \A w \in Workers : WF_vars(WorkerStep(w))
  /\ WF_vars(MainStep)
  /\ SF_vars(MainLockStep)
  /\ WF_vars(AdminStep)
  /\ \A c \in Clients : WF_vars(ClientStep(c))
  /\ \A c \in Callers : WF_vars(TimeoutStep(c))

FairSpec == Spec /\ Fairness

-----------------------------------------------------------------------------
(* Safety.                                                                 *)

(* worker_ls_index dereferences what getfs_index returns without looking,  *)
(* and so does worker_delete: while the main thread is in one of the loops *)
(* the slots it has counted stay in the table.                             *)
LoopInTable ==
  mpc \in {"loop", "listing", "found"} =>
    /\ total <= Len(table)
    /\ mpc # "loop" => slot < total

(* The ids in the table are those of one counter: no two workers share     *)
(* one, and remove_server would take the one that was meant.               *)
IdsInOrder ==
  \A k \in 1..Len(table) :
    table[k].id < workerId /\ \A j \in 1..(k - 1) : table[j].id < table[k].id

InTable(w) == \E k \in 1..Len(table) : table[k].host = w

(* Only a worker that was built with the right token gets into the table,  *)
(* whatever is in the queue when it or the master restarts, and nobody but *)
(* such a worker is ever sent a file.                                      *)
OnlyTrustedWorkers ==
  \A w \in Workers \ Trusted :
    /\ ~InTable(w)
    /\ \A k \in 1..Len(queue[w]) : queue[w][k].token # "master"

(* With one client at a time, a file_write that returns the number of      *)
(* bytes a worker has sent leaves a file whose name begins as the client   *)
(* said: neither a late DELETE of an earlier operation, nor an answer to   *)
(* somebody else, nor a worker killed before its answer can make it a lie, *)
(* as long as the rm of a killed worker ends before it is started again.   *)
CountedWriteIsStored ==
  \A c \in Clients :
    cpc[c] = "done" /\ request[c].op = "WRITE" /\ printed[c] = "count" =>
      \E w \in Workers : disk[w] \cap Decoded(request[c].file) # {}

-----------------------------------------------------------------------------
(* Liveness.                                                               *)

(* The master waits for a mutex that its ping thread will never release,   *)
(* or for descriptor 0.                                                    *)
Wedged ==
  \/ apc = "remove"
  \/ mpc = "writing" /\ Refused(Main)
  \/ apc = "pong" /\ Refused(Admin)

(* Every operation of a client comes to an end, whatever has happened to   *)
(* the master: client_init sets a timeout on everything that is read.      *)
ClientsReturn == \A c \in Clients : cpc[c] = "wait" ~> cpc[c] # "wait"

(* The main thread always comes back to accept, unless it is wedged or has *)
(* died: no worker can keep it for ever.                                   *)
MasterComesBack ==
  (mpc \notin {"off", "accept"}) ~> (mpc \in {"off", "accept"} \/ Wedged)

(* A round of pings ends and gives the mutex back, under the same          *)
(* exceptions.                                                             *)
RoundsEnd == (apc = "ping") ~> (apc = "timer" \/ Wedged)

(* A worker that has accepted a connection accepts again or dies; and what *)
(* is in its queue does not stay there: it is accepted, or reset with the  *)
(* socket that the worker closes after every connection, whether or not    *)
(* its caller still waits.                                                 *)
WorkersComeBack ==
  \A w \in Workers :
    /\ wpc[w] \notin {"off", "accept"} ~> wpc[w] \in {"off", "accept"}
    /\ queue[w] # <<>> ~> queue[w] = <<>>

-----------------------------------------------------------------------------
(* What the comments and the README say.                                   *)

(* "Worker is deleted from local table if worker is not responding         *)
(* properly."                                                              *)
FailedWorkerIsRemoved ==
  \A w \in Workers :
    (apc = "remove" /\ table[aslot + 1].host = w)
      ~> (~InTable(w) \/ mpc = "off")

(* "File was deleted.": after file_delete has returned 1, no worker has    *)
(* the file in the end.                                                    *)
DeletedFileIsGone ==
  \A c \in Clients, n \in Names :
    (cpc[c] = "done" /\ request[c] = [op |-> "DELETE", file |-> n]
       /\ printed[c] = "1")
      ~> \A w \in Workers : n \notin disk[w]

(* "Closes connection.": conn_close closes a connection, and not the       *)
(* master's standard input; otherwise a later connection that fails writes *)
(* to the listening socket, and SIGPIPE ends the master.                   *)
FailedConnectionsAreHarmless == fault # "sigpipe"

(* "List all contents stored on all worker nodes.": a worker that has      *)
(* booted gets into the table.                                             *)
BootedWorkerIsKnown ==
  \A w \in Trusted :
    (wpc[w] = "accept") ~> (InTable(w) \/ wpc[w] = "off" \/ mpc = "off")
=============================================================================
