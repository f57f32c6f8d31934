------------------------------- MODULE Worker -------------------------------
(***************************************************************************)
(* A worker (src/server/server.c with boot.c, file_exec.c and fs/fs.c), in *)
(* the build of the Makefile, which does not define THREADING: one         *)
(* connection is handled after the other.                                  *)
(*                                                                         *)
(* A worker registers at the master before it listens.  After every        *)
(* connection it calls conn_listen again on the socket that is already     *)
(* bound; the bind fails, and the worker closes the socket and makes a new *)
(* one.  Its files are in a directory that outlives the process.           *)
(***************************************************************************)
EXTENDS Wire

CONSTANTS
  Trusted,    (* the workers that were built with the master's tokens      *)
  MaxBoots    (* bound: how often worker processes are started             *)

ASSUME WorkerAssumption ==
  /\ Trusted \subseteq Workers
  /\ MaxBoots \in Nat

VARIABLES
  wpc,        (* where each worker process is                              *)
  disk,       (* the names in each worker's directory                      *)
  written,    (* the answer of the file operation that was executed        *)
  boots       (* the worker processes started so far                       *)

workerVars == <<wpc, disk, written, boots>>

WorkerSteps == {"off", "boot", "closed", "accept", "handle", "reply",
                "rebind"}

WorkerTypeOK ==
  /\ wpc \in [Workers -> WorkerSteps]
  /\ disk \in [Workers -> SUBSET Names]
  /\ written \in [Workers -> Texts]
  /\ boots \in 0..MaxBoots

WorkerInit ==
  /\ wpc = [w \in Workers |-> "off"]
  /\ disk \in [Workers -> SUBSET Names]
  /\ written = [w \in Workers |-> ""]
  /\ boots = 0

WorkerGoto(w, step) == wpc' = [wpc EXCEPT ![w] = step]

-----------------------------------------------------------------------------
(* boot.                                                                   *)

StartWorker(w) ==
  /\ wpc[w] = "off"
  /\ boots < MaxBoots
  /\ boots' = boots + 1
  /\ WorkerGoto(w, "boot")
  /\ UNCHANGED <<wire, disk, written>>

(* register_worker: without a connection the process ends; with one, the   *)
(* boot succeeds whether or not the master ever reads the message.         *)
RegisterWorker(w) ==
  /\ wpc[w] = "boot"
  /\ Post(Master, "REGISTER", w, IF w \in Trusted THEN "worker" ELSE "other")
  /\ WorkerGoto(w, IF Reachable(Master) THEN "closed" ELSE "off")
  /\ UNCHANGED <<listening, active, link, disk, written, boots>>

-----------------------------------------------------------------------------
(* The loop of main.                                                       *)

WorkerListens(w) ==
  /\ wpc[w] = "closed"
  /\ OpenListener(w)
  /\ WorkerGoto(w, "accept")
  /\ UNCHANGED <<queue, active, link, disk, written, boots>>

WorkerAccepts(w) ==
  /\ wpc[w] = "accept"
  /\ TakeConnection(w)
  /\ WorkerGoto(w, "handle")
  /\ UNCHANGED <<disk, written, boots>>

(* Variant: the socket is neither closed nor replaced.                     *)
WorkerKeepsSocket(w) ==
  /\ wpc[w] = "rebind"
  /\ UNCHANGED <<wire, workerVars>>

(* conn_listen on the bound socket fails; close and socket.                *)
WorkerRebinds(w) ==
  /\ wpc[w] = "rebind"
  /\ CloseListener(w)
  /\ WorkerGoto(w, "closed")
  /\ UNCHANGED <<disk, written, boots>>

-----------------------------------------------------------------------------
(* handle_client.                                                          *)

Handles(w, op) ==
  wpc[w] = "handle" /\ active[w].token = "master" /\ active[w].op = op

(* conn_read returns nothing, or the token is not the master's.            *)
WorkerHangsUp(w) ==
  /\ wpc[w] = "handle"
  /\ active[w].op = "nothing" \/ active[w].token # "master"
  /\ HangUp(w)
  /\ WorkerGoto(w, "rebind")
  /\ UNCHANGED <<disk, written, boots>>

WorkerPing(w) ==
  /\ Handles(w, "PING")
  /\ AnswerAndClose(w, "pong", {})
  /\ WorkerGoto(w, "rebind")
  /\ UNCHANGED <<disk, written, boots>>

(* file_list and file_list_to_str; no names when opendir fails.            *)
WorkerLs(w) ==
  /\ Handles(w, "LS")
  /\ \E names \in {disk[w], {}} : AnswerAndClose(w, "listing", names)
  /\ WorkerGoto(w, "rebind")
  /\ UNCHANGED <<disk, written, boots>>

(* Variant: the answer is sent before the file is written.                 *)
WorkerAnswersFirst(w) ==
  /\ Handles(w, "WRITE")
  /\ written' = [written EXCEPT ![w] = "count"]
  /\ WorkerGoto(w, "reply")
  /\ UNCHANGED <<wire, disk, boots>>

(* Variant: a write that fails leaves the handler at once, and nobody is   *)
(* left to close the connection.                                           *)
WorkerWriteForgets(w) ==
  /\ Handles(w, "WRITE")
  /\ \/ /\ \E n \in Decoded(active[w].arg) :
               disk' = [disk EXCEPT ![w] = @ \cup {n}]
        /\ written' = [written EXCEPT ![w] = "count"]
        /\ WorkerGoto(w, "reply")
        /\ UNCHANGED wire
     \/ /\ active' = [active EXCEPT ![w] = NoConn]
        /\ WorkerGoto(w, "rebind")
        /\ UNCHANGED <<listening, queue, link, disk, written>>
  /\ UNCHANGED boots

(* f_exec with write_file.  file_name copies the name once more without a  *)
(* terminator; fopen may fail, and fprintf when the disk is full.          *)
WorkerWrite(w) ==
  /\ Handles(w, "WRITE")
  /\ \/ \E n \in Decoded(active[w].arg), answer \in {"count", "-1"} :
          /\ disk' = [disk EXCEPT ![w] = @ \cup {n}]
          /\ written' = [written EXCEPT ![w] = answer]
     \/ /\ written' = [written EXCEPT ![w] = "-1"]
        /\ UNCHANGED disk
  /\ WorkerGoto(w, "reply")
  /\ UNCHANGED <<wire, boots>>

(* f_exec with delete_file, which ignores a name that does not exist and   *)
(* the result of rm; rm ends with the step.                                *)
WorkerDelete(w) ==
  /\ Handles(w, "DELETE")
  /\ \/ disk' = [disk EXCEPT ![w] = @ \ {active[w].arg}]
     \/ UNCHANGED disk
  /\ written' = [written EXCEPT ![w] = ""]
  /\ WorkerGoto(w, "reply")
  /\ UNCHANGED <<wire, boots>>

(* answer_client and conn_close.                                           *)
WorkerReplies(w) ==
  /\ wpc[w] = "reply"
  /\ AnswerAndClose(w, written[w], {})
  /\ written' = [written EXCEPT ![w] = ""]
  /\ WorkerGoto(w, "rebind")
  /\ UNCHANGED <<disk, boots>>

-----------------------------------------------------------------------------
(* The process dies; its directory stays.                                  *)
WorkerDies(w) ==
  /\ wpc[w] # "off"
  /\ ProcessDies(w, {})
  /\ written' = [written EXCEPT ![w] = ""]
  /\ WorkerGoto(w, "off")
  /\ UNCHANGED <<disk, boots>>

(* What a running worker does on its own.                                  *)
WorkerProgress(w) ==
  \/ RegisterWorker(w) \/ WorkerListens(w) \/ WorkerAccepts(w)
  \/ WorkerRebinds(w) \/ WorkerHangsUp(w) \/ WorkerPing(w) \/ WorkerLs(w)
  \/ WorkerWrite(w) \/ WorkerDelete(w) \/ WorkerReplies(w)
=============================================================================
