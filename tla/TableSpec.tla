----------------------------- MODULE TableSpec -----------------------------
(***************************************************************************)
(* What the server table of the master promises its callers: a list of     *)
(* worker ids on which the operations of src/server_table.h take effect at *)
(* one instant between their call and their return, and answer what holds  *)
(* at that instant.  getfs_index has two instants: whether the index is    *)
(* within the table belongs to the first one, the slot and what is in it   *)
(* to the second, and servers may be removed in between.                   *)
(*                                                                         *)
(* A pointer is answered as the slot and the server in it at that instant. *)
(* It is a promise about that instant and not about the return: a server   *)
(* removed in between moves the ones behind it to other slots.             *)
(***************************************************************************)
EXTENDS Integers, Sequences

CONSTANTS
  Threads,   (* the callers                                                *)
  Ids        (* worker ids, ftid_t                                         *)

VARIABLES
  servers,   (* the ids in the table, oldest first                         *)
  status,    (* [Threads -> {"idle", "called", "checked", "done"}]         *)
  request,   (* the operation each thread called last                      *)
  result     (* what the operation returned, as a sequence of numbers      *)

absVars == <<servers, status, request, result>>

Operations == {"add", "remove", "for_each", "getfs_id", "getfs_pred",
               "getfs_index", "table_count"}

(* The slots whose server satisfies a predicate, given as a set of ids.    *)
Slots(s, S) == {k \in 1..Len(s) : s[k] \in S}

(* The table without its first entry for id, unchanged when there is none. *)
Without(s, id) ==
  IF Slots(s, {id}) = {}
  THEN s
  ELSE LET first == CHOOSE k \in Slots(s, {id}) :
                      \A j \in Slots(s, {id}) : k <= j
       IN  [j \in 1..(Len(s) - 1) |-> IF j < first THEN s[j] ELSE s[j + 1]]

(* The effect of an operation on the table.                                *)
Effect(s, c) ==
  CASE c.op = "add"    -> Append(s, c.arg)
    [] c.op = "remove" -> Without(s, c.arg)
    [] OTHER           -> s

(* The first slot with one of the servers of S, and that server; NULL      *)
(* (<<>>) when there is none.                                              *)
FirstOf(s, S) ==
  IF Slots(s, S) = {}
  THEN <<>>
  ELSE LET first == CHOOSE k \in Slots(s, S) : \A j \in Slots(s, S) : k <= j
       IN  <<first, s[first]>>

(* Slot k, and the server in it unless the slot is past the end.           *)
SlotAt(s, k) == IF k \in 1..Len(s) THEN <<k, s[k]>> ELSE <<k>>

(* The answers: a pointer, the number of servers, or the servers that      *)
(* for_each visits, in order.                                              *)
Answer(s, c) ==
  CASE c.op = "for_each"    -> s
    [] c.op = "getfs_id"    -> FirstOf(s, {c.arg})
    [] c.op = "getfs_pred"  -> FirstOf(s, c.pred)
    [] c.op = "getfs_index" -> SlotAt(s, c.arg + 1)
    [] c.op = "table_count" -> <<Len(s)>>
    [] OTHER                -> <<>>

Init ==
  /\ servers = <<>>
  /\ status = [t \in Threads |-> "idle"]
  /\ request = [t \in Threads |-> [op |-> "none", arg |-> 0, pred |-> {}]]
  /\ result = [t \in Threads |-> <<>>]

Invoke(t) ==
  /\ status[t] = "idle"
  /\ status' = [status EXCEPT ![t] = "called"]
  /\ request'[t] \in [op : Operations, arg : Nat, pred : SUBSET Ids]
  /\ request' = [request EXCEPT ![t] = request'[t]]
  /\ result' = [result EXCEPT ![t] = <<>>]
  /\ UNCHANGED servers

(* getfs_index: an index past the end is answered with NULL at once.       *)
Check(t) ==
  /\ status[t] = "called" /\ request[t].op = "getfs_index"
  /\ status' = [status EXCEPT ![t] =
                  IF request[t].arg < Len(servers) THEN "checked" ELSE "done"]
  /\ UNCHANGED <<servers, request, result>>

Perform(t) ==
  /\ IF request[t].op = "getfs_index" THEN status[t] = "checked"
                                      ELSE status[t] = "called"
  /\ status' = [status EXCEPT ![t] = "done"]
  /\ servers' = Effect(servers, request[t])
  /\ result' = [result EXCEPT ![t] = Answer(servers, request[t])]
  /\ UNCHANGED request

Finish(t) ==
  /\ status[t] = "done"
  /\ status' = [status EXCEPT ![t] = "idle"]
  /\ UNCHANGED <<servers, request, result>>

Next ==
  \E t \in Threads : Invoke(t) \/ Check(t) \/ Perform(t) \/ Finish(t)

Spec == Init /\ [][Next]_absVars
=============================================================================
