---------------------------- MODULE ServerTable ----------------------------
(***************************************************************************)
(* The server table of the master (src/server_table.c), called by several  *)
(* threads at once: the heap array server_table, its length server_count,  *)
(* and the mutex that guards both.                                         *)
(*                                                                         *)
(* Every operation is cut where another thread can see the difference: at  *)
(* pthread_mutex_lock and pthread_mutex_unlock, at the reads of            *)
(* server_count made without the lock, between ++server_count and the      *)
(* store of the new entry, and around every callback of for_each_server.   *)
(* An entry is represented by its id.  A pointer &server_table[k] is the   *)
(* slot number k + 1, NULL is 0.                                           *)
(***************************************************************************)
EXTENDS Integers, Sequences

CONSTANTS
  Threads,    (* the threads that call the table                           *)
  Ids,        (* the ids its entries may have (ftid_t)                     *)
  Indexes,    (* the arguments getfs_index is called with                  *)
  NoThread    (* the owner of a free mutex                                 *)

ASSUME TableAssumption ==
  /\ NoThread \notin Threads
  /\ Ids \subseteq Nat
  /\ Indexes \subseteq Nat

VARIABLES
  mutex,      (* the thread that owns the mutex, or NoThread               *)
  table,      (* the entries stored in server_table                        *)
  count,      (* server_count                                              *)
  pc,         (* where each thread is inside the operation it called       *)
  call,       (* the operation and its arguments                           *)
  pos,        (* the local index i, and then the slot that is returned     *)
  out         (* what the operation has found or visited so far            *)

vars == <<mutex, table, count, pc, call, pos, out>>

Steps == {"idle", "lock", "check", "read", "body", "store", "apply",
          "relock", "unlock", "return"}

Ops == {"none", "add", "remove", "for_each", "getfs_id", "getfs_pred",
        "getfs_index", "table_count"}

(* The steps a thread makes while it owns the mutex.                       *)
Inside == {"body", "store", "apply", "relock", "unlock"}

TypeOK ==
  /\ mutex \in Threads \cup {NoThread}
  /\ table \in Seq(Ids)
  /\ count \in Nat
  /\ pc \in [Threads -> Steps]
  /\ call \in [Threads -> [op : Ops, arg : Nat, pred : SUBSET Ids]]
  /\ pos \in [Threads -> Nat]
  /\ out \in [Threads -> Seq(Nat)]

Init ==
  /\ mutex = NoThread
  /\ table = <<>>
  /\ count = 0
  /\ pc = [t \in Threads |-> "idle"]
  /\ call = [t \in Threads |-> [op |-> "none", arg |-> 0, pred |-> {}]]
  /\ pos = [t \in Threads |-> 0]
  /\ out = [t \in Threads |-> <<>>]

Goto(t, step) == pc' = [pc EXCEPT ![t] = step]

-----------------------------------------------------------------------------
(* The calls.  add_server is given ids that are not in use: the master     *)
(* numbers its workers with a counter.                                     *)

Start(t, step, op, arg, pred) ==
  /\ pc[t] = "idle"
  /\ Goto(t, step)
  /\ call' = [call EXCEPT ![t] = [op |-> op, arg |-> arg, pred |-> pred]]
  /\ pos' = [pos EXCEPT ![t] = 0]
  /\ out' = [out EXCEPT ![t] = <<>>]
  /\ UNCHANGED <<mutex, table, count>>

Fresh(id) ==
  /\ \A k \in 1..Len(table) : table[k] # id
  /\ \A t \in Threads : ~(pc[t] # "idle" /\ call[t].op = "add"
                          /\ call[t].arg = id)

CallAdd(t) == \E id \in Ids : Fresh(id) /\ Start(t, "lock", "add", id, {})

CallRemove(t) == \E id \in Ids : Start(t, "lock", "remove", id, {})

CallForEach(t) == Start(t, "lock", "for_each", 0, {})

CallGetId(t) == \E id \in Ids : Start(t, "lock", "getfs_id", id, {})

CallGetPred(t) == \E S \in SUBSET Ids : Start(t, "lock", "getfs_pred", 0, S)

CallGetIndex(t) ==
  \E k \in Indexes : Start(t, "check", "getfs_index", k, {})

CallCount(t) == Start(t, "read", "table_count", 0, {})

-----------------------------------------------------------------------------
(* The reads of server_count that take no lock.                            *)

(* table_count.                                                            *)
ReadCount(t) ==
  /\ pc[t] = "read"
  /\ out' = [out EXCEPT ![t] = <<count>>]
  /\ Goto(t, "return")
  /\ UNCHANGED <<mutex, table, count, call, pos>>

(* The range check at the top of getfs_index; NULL when it fails.          *)
CheckIndex(t) ==
  /\ pc[t] = "check"
  /\ \/ call[t].arg >= count /\ Goto(t, "return")
     \/ call[t].arg < count /\ Goto(t, "lock")
  /\ UNCHANGED <<mutex, table, count, call, pos, out>>

-----------------------------------------------------------------------------
(* The critical sections.                                                  *)

(* Variant: an operation that enters without waiting for the mutex.        *)
LockNotWaiting(t) ==
  /\ pc[t] = "lock"
  /\ mutex' = t
  /\ Goto(t, "body")
  /\ UNCHANGED <<table, count, call, pos, out>>

(* pthread_mutex_lock, on a mutex that is not recursive.                   *)
Lock(t) ==
  /\ pc[t] = "lock"
  /\ mutex = NoThread
  /\ mutex' = t
  /\ Goto(t, "body")
  /\ UNCHANGED <<table, count, call, pos, out>>

Body(t, op) == pc[t] = "body" /\ call[t].op = op

(* ++server_count, evaluated before the array has grown.                   *)
AddGrow(t) ==
  /\ Body(t, "add")
  /\ count' = count + 1
  /\ Goto(t, "store")
  /\ UNCHANGED <<mutex, table, call, pos, out>>

(* realloc, and the store at server_table[server_count - 1].               *)
AddStore(t) ==
  /\ pc[t] = "store"
  /\ table' = Append(table, call[t].arg)
  /\ Goto(t, "unlock")
  /\ UNCHANGED <<mutex, count, call, pos, out>>

(* The first slot below server_count whose entry is in S, 0 if none is:    *)
(* the search loops of indexof, getfs_id and getfs_pred.                   *)
FirstSlot(S) ==
  LET hits == {k \in 1..count : table[k] \in S}
  IN  IF hits = {} THEN 0 ELSE CHOOSE k \in hits : \A j \in hits : k <= j

(* The loop that moves the entries behind slot k down by one, and the      *)
(* realloc that drops the last one.                                        *)
ShiftDown(k) ==
  [j \in 1..(Len(table) - 1) |-> IF j < k THEN table[j] ELSE table[j + 1]]

(* Variant: the count goes down before the search has found an entry.      *)
RemoveCountsFirst(t) ==
  LET k == FirstSlot({call[t].arg}) IN
  /\ Body(t, "remove")
  /\ count' = count - 1
  /\ IF k = 0 THEN UNCHANGED table ELSE table' = ShiftDown(k)
  /\ Goto(t, "unlock")
  /\ UNCHANGED <<mutex, call, pos, out>>

(* Variant: the early return of a failed search does not unlock.           *)
RemoveKeepsLock(t) ==
  LET k == FirstSlot({call[t].arg}) IN
  /\ Body(t, "remove")
  /\ \/ k = 0 /\ UNCHANGED <<table, count>> /\ Goto(t, "return")
     \/ k > 0 /\ table' = ShiftDown(k) /\ count' = count - 1
                /\ Goto(t, "unlock")
  /\ UNCHANGED <<mutex, call, pos, out>>

Remove(t) ==
  LET k == FirstSlot({call[t].arg}) IN
  /\ Body(t, "remove")
  /\ \/ k = 0 /\ UNCHANGED <<table, count>>
     \/ k > 0 /\ table' = ShiftDown(k) /\ count' = count - 1
  /\ Goto(t, "unlock")
  /\ UNCHANGED <<mutex, call, pos, out>>

(* Variant: the loop runs to i <= server_count.                            *)
ForEachOneMore(t) ==
  /\ Body(t, "for_each")
  /\ IF pos[t] <= count THEN Goto(t, "apply") ELSE Goto(t, "unlock")
  /\ UNCHANGED <<mutex, table, count, call, pos, out>>

(* for_each_server: the callback is applied to the next slot, or the loop  *)
(* is over.                                                                *)
ForEachNext(t) ==
  /\ Body(t, "for_each")
  /\ \/ pos[t] < count /\ Goto(t, "apply")
     \/ pos[t] >= count /\ Goto(t, "unlock")
  /\ UNCHANGED <<mutex, table, count, call, pos, out>>

(* Variant: the mutex is given back after every callback and taken again.  *)
ApplyReturnYields(t) ==
  /\ pc[t] = "apply"
  /\ out' = [out EXCEPT ![t] = Append(@, table[pos[t] + 1])]
  /\ pos' = [pos EXCEPT ![t] = @ + 1]
  /\ mutex' = NoThread
  /\ Goto(t, "lock")
  /\ UNCHANGED <<table, count, call>>

(* The callback returns.                                                   *)
ApplyReturn(t) ==
  /\ pc[t] = "apply"
  /\ out' = [out EXCEPT ![t] = Append(@, table[pos[t] + 1])]
  /\ pos' = [pos EXCEPT ![t] = @ + 1]
  /\ Goto(t, "body")
  /\ UNCHANGED <<mutex, table, count, call>>

(* The callback calls remove_server, as ping_server does for a worker that *)
(* does not answer.  Its pthread_mutex_lock waits for a mutex the thread   *)
(* owns itself: no step leads out of "relock".                             *)
CallbackRemoves(t) ==
  /\ pc[t] = "apply"
  /\ Goto(t, "relock")
  /\ UNCHANGED <<mutex, table, count, call, pos, out>>

(* The address of slot k is taken, 0 for NULL: the slot, with the entry    *)
(* that is in it now if there is one.                                      *)
Take(t, k) ==
  /\ pos' = [pos EXCEPT ![t] = k]
  /\ out' = [out EXCEPT ![t] = CASE k = 0 -> <<>>
                                [] k \in 1..count -> <<k, table[k]>>
                                [] OTHER -> <<k>>]
  /\ Goto(t, "unlock")
  /\ UNCHANGED <<mutex, table, count, call>>

Wanted(t) == IF call[t].op = "getfs_id" THEN {call[t].arg} ELSE call[t].pred

(* Variant: the loop does not stop at the first match, the last one wins.  *)
SearchLast(t) ==
  LET hits == {k \in 1..count : table[k] \in Wanted(t)} IN
  /\ Body(t, "getfs_id") \/ Body(t, "getfs_pred")
  /\ Take(t, IF hits = {} THEN 0 ELSE CHOOSE k \in hits : \A j \in hits : j <= k)

(* The search loops of getfs_id and getfs_pred.                            *)
Search(t) ==
  /\ Body(t, "getfs_id") \/ Body(t, "getfs_pred")
  /\ Take(t, FirstSlot(Wanted(t)))

(* getfs_index takes the address of the slot; the index is not compared    *)
(* with server_count again, so that the slot may be past the end by now.   *)
TakeIndex(t) ==
  /\ Body(t, "getfs_index")
  /\ Take(t, call[t].arg + 1)

Unlock(t) ==
  /\ pc[t] = "unlock"
  /\ mutex' = NoThread
  /\ Goto(t, "return")
  /\ UNCHANGED <<table, count, call, pos, out>>

(* The operation returns; a lookup returns the slot pos[t].                *)
Return(t) ==
  /\ pc[t] = "return"
  /\ Goto(t, "idle")
  /\ UNCHANGED <<mutex, table, count, call, pos, out>>

-----------------------------------------------------------------------------

Calls(t) ==
  \/ CallAdd(t) \/ CallRemove(t) \/ CallForEach(t) \/ CallGetId(t)
  \/ CallGetPred(t) \/ CallGetIndex(t) \/ CallCount(t)

(* Everything a thread does on its way through an operation, except that   *)
(* it is the callback that decides to call remove_server.                  *)
Progress(t) ==
  \/ ReadCount(t) \/ CheckIndex(t) \/ Lock(t) \/ AddGrow(t) \/ AddStore(t)
  \/ Remove(t) \/ ForEachNext(t) \/ ApplyReturn(t) \/ Search(t)
  \/ TakeIndex(t) \/ Unlock(t) \/ Return(t)

Next == \E t \in Threads : Calls(t) \/ Progress(t) \/ CallbackRemoves(t)

Spec == Init /\ [][Next]_vars

(* A thread that can run does run; strong fairness for the contended lock. *)
Fairness ==
  \A t \in Threads : WF_vars(Progress(t)) /\ SF_vars(Lock(t))

FairSpec == Spec /\ Fairness

-----------------------------------------------------------------------------
(* Safety.                                                                 *)

(* The mutex guards the operations: a thread that is between               *)
(* pthread_mutex_lock and pthread_mutex_unlock is the one that owns it.    *)
(* Every early return of the lookups and of remove_server has to unlock.   *)
MutualExclusion ==
  \A t \in Threads : (pc[t] \in Inside) <=> (mutex = t)

(* server_count is the number of entries that are stored, except that it   *)
(* is one ahead while add_server grows the array: the reads of the count   *)
(* without the lock (table_count, getfs_index) can see that.               *)
CountConsistent ==
  count = Len(table) + (IF \E t \in Threads : pc[t] = "store" THEN 1 ELSE 0)

(* for_each_server visits the table of one instant: in the middle of the   *)
(* loop the slots visited so far are the first slots of the table as it is *)
(* now, whatever the other threads have called meanwhile.                  *)
ForEachSnapshot ==
  \A t \in Threads :
    call[t].op = "for_each" /\ pc[t] \in Inside =>
      /\ pos[t] <= Len(table)
      /\ out[t] = SubSeq(table, 1, pos[t])

(* The callback is only given slots that exist (for_each_server passes     *)
(* &server_table[i] to it), also when add_server runs in another thread.   *)
CallbackInTable ==
  \A t \in Threads : pc[t] \in {"apply", "relock"} => pos[t] < Len(table)

-----------------------------------------------------------------------------
(* The table implements its abstract specification: add_server takes       *)
(* effect at ++server_count, table_count at its unlocked read, every other *)
(* operation inside its critical section; getfs_index is two steps there   *)
(* too, its unlocked range check and the address it takes.                 *)

Storing == {t \in Threads : pc[t] = "store"}

Done(t) == pc[t] \in {"store", "unlock", "return"}

Checked(t) == call[t].op = "getfs_index" /\ pc[t] \in {"lock", "body"}

Servers == IF Storing = {} THEN table
           ELSE Append(table, call[CHOOSE t \in Storing : TRUE].arg)

Status == [t \in Threads |-> CASE pc[t] = "idle" -> "idle"
                               [] pc[t] # "idle" /\ Done(t) -> "done"
                               [] pc[t] # "idle" /\ Checked(t) -> "checked"
                               [] OTHER -> "called"]

Result == [t \in Threads |-> IF Status[t] \in {"idle", "done"}
                             THEN out[t] ELSE <<>>]

Abstract == INSTANCE TableSpec WITH servers <- Servers, status <- Status,
                                    request <- call, result <- Result

(* The operations of server_table.c answer what TableSpec answers: all but *)
(* getfs_index behave as if they happened at one instant, a lookup answers *)
(* the first slot that held a requested server at that instant, and        *)
(* getfs_index the slot whose existence it checked at an earlier instant,  *)
(* which may be past the end when it is taken.  Although table_count and   *)
(* that check read server_count without the mutex, and add_server raises   *)
(* it before it has stored the entry.                                      *)
Linearizable == Abstract!Spec

-----------------------------------------------------------------------------
(* Liveness.                                                               *)

(* for_each_server's callback has called remove_server.                    *)
SelfBlocked == \E t \in Threads : pc[t] = "relock"

(* Every call returns, unless a callback of for_each_server has called     *)
(* remove_server: no path through the operations keeps the mutex.          *)
CallsReturn ==
  \A t \in Threads : pc[t] # "idle" ~> (pc[t] = "idle" \/ SelfBlocked)
=============================================================================
