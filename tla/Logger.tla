------------------------------- MODULE Logger -------------------------------
(***************************************************************************)
(* src/util/logger.c in the master, whose main thread and ping thread both *)
(* log, the one without and the other with the mutex of the server table.  *)
(*                                                                         *)
(* logger formats every line into one buffer, which the first call         *)
(* allocates.  Errors and warnings are measured there, and then copied     *)
(* from there into a string of that length with their colour.              *)
(***************************************************************************)
EXTENDS Integers

CONSTANTS
  Threads,    (* the threads that log                                      *)
  Messages,   (* a function from messages to their lengths                 *)
  NoMessage   (* memory in which nothing was formatted yet                 *)

VARIABLES
  log_msg,    (* the thread whose allocation the pointer points to, or {}  *)
  memory,     (* what is in the buffer each thread may have allocated      *)
  pc,         (* where each thread is                                      *)
  msg,        (* its message, and its type                                 *)
  buffer,     (* the buffer that log_ignore has returned                   *)
  size,       (* the characters it has room for behind its malloc          *)
  line        (* what it has printed                                       *)

vars == <<log_msg, memory, pc, msg, buffer, size, line>>

Types == {"ERROR", "WARNING", "MESSAGE", "IGNORE"}
NoCall == [type |-> "IGNORE", text |-> NoMessage]

Init ==
  /\ log_msg = {}
  /\ memory = [t \in Threads |-> NoMessage]
  /\ pc = [t \in Threads |-> "idle"]
  /\ msg = [t \in Threads |-> NoCall]
  /\ buffer = [t \in Threads |-> {}]
  /\ size = [t \in Threads |-> 0]
  /\ line = [t \in Threads |-> NoMessage]

Goto(t, step) == pc' = [pc EXCEPT ![t] = step]
Target(t) == CHOOSE b \in buffer[t] : TRUE
Length(m) == IF m = NoMessage THEN 0 ELSE Messages[m]

(* logger: is there a buffer yet?                                          *)
Call(t) ==
  /\ pc[t] = "idle"
  /\ \E type \in Types, text \in DOMAIN Messages :
       msg' = [msg EXCEPT ![t] = [type |-> type, text |-> text]]
  /\ Goto(t, IF log_msg = {} THEN "malloc" ELSE "format")
  /\ UNCHANGED <<log_msg, memory, buffer, size, line>>

(* Another thread may have found that there is none too.                   *)
Allocate(t) ==
  /\ pc[t] = "malloc"
  /\ log_msg' = {t}
  /\ Goto(t, "format")
  /\ UNCHANGED <<memory, msg, buffer, size, line>>

(* log_ignore.                                                             *)
Format(t) ==
  /\ pc[t] = "format"
  /\ memory' = [b \in Threads |-> IF b \in log_msg THEN msg[t].text
                                  ELSE memory[b]]
  /\ buffer' = [buffer EXCEPT ![t] = log_msg]
  /\ Goto(t, CASE msg[t].type = "IGNORE"  -> "return"
               [] msg[t].type = "MESSAGE" -> "print"
               [] OTHER                   -> "measure")
  /\ UNCHANGED <<log_msg, msg, size, line>>

(* log_error and log_warning: strlen and malloc.                           *)
Measure(t) ==
  /\ pc[t] = "measure"
  /\ size' = [size EXCEPT ![t] = Length(memory[Target(t)])]
  /\ Goto(t, "print")
  /\ UNCHANGED <<log_msg, memory, msg, buffer, line>>

(* The text that is printed, for errors and warnings by way of a copy.  A  *)
(* copy that is too long for its string may end the process.               *)
PrintLine(t) ==
  /\ pc[t] = "print"
  /\ LET text == memory[Target(t)] IN
     \/ line' = [line EXCEPT ![t] = text] /\ Goto(t, "return")
     \/ /\ msg[t].type # "MESSAGE"
        /\ Length(text) > size[t]
        /\ pc' = [u \in Threads |-> "dead"]
        /\ UNCHANGED line
  /\ UNCHANGED <<log_msg, memory, msg, buffer, size>>

Return(t) ==
  /\ pc[t] = "return"
  /\ Goto(t, "idle")
  /\ msg' = [msg EXCEPT ![t] = NoCall]
  /\ buffer' = [buffer EXCEPT ![t] = {}]
  /\ size' = [size EXCEPT ![t] = 0]
  /\ line' = [line EXCEPT ![t] = NoMessage]
  /\ UNCHANGED <<log_msg, memory>>

Next == \E t \in Threads :
  \/ Call(t) \/ Allocate(t) \/ Format(t) \/ Measure(t) \/ PrintLine(t)
  \/ Return(t)

Spec == Init /\ [][Next]_vars

-----------------------------------------------------------------------------

(* "Logs log message of given type to stdout": what a call prints is the   *)
(* message it was given.                                                   *)
PrintsItsMessage ==
  \A t \in Threads :
    pc[t] = "return" /\ msg[t].type # "IGNORE" => line[t] = msg[t].text
=============================================================================
