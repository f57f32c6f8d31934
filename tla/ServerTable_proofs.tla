------------------------ MODULE ServerTable_proofs -------------------------
(***************************************************************************)
(* Proofs about ServerTable, for any set of threads, ids and indexes and   *)
(* any assignment of operations to threads.                                *)
(***************************************************************************)
EXTENDS ServerTable, WellFoundedInduction, SequenceTheorems, TLAPS

-----------------------------------------------------------------------------
(* Lemmas about the operators on the array.                                *)

(* Every non-empty set of naturals has a least element.                    *)
LEMMA LeastNatural ==
  ASSUME NEW S \in SUBSET Nat, S # {}
  PROVE  \E k \in S : \A j \in S : k <= j
<1>1. \E k \in S : \A j \in S : ~ (<<j, k>> \in OpToRel(<, Nat))
  BY NatLessThanWellFounded, WFMin, Zenon
<1>2. \A j, k \in S : (j < k) => <<j, k>> \in OpToRel(<, Nat)
  BY DEF OpToRel
<1>3. PICK k \in S : \A j \in S : ~ (<<j, k>> \in OpToRel(<, Nat))
  BY <1>1
<1>4. \A j \in S : ~ (j < k)
  BY <1>2, <1>3, Zenon
<1>5. \A j \in S : k <= j
  BY <1>4
<1> QED
  BY <1>5

(* The search loops return NULL (0) or the first slot below server_count   *)
(* whose entry matches, and NULL only when no entry does.                  *)
LEMMA FirstSlotIsFirst ==
  ASSUME count \in Nat, NEW S
  PROVE  /\ FirstSlot(S) \in 0..count
         /\ FirstSlot(S) > 0 =>
              /\ table[FirstSlot(S)] \in S
              /\ \A j \in 1..(FirstSlot(S) - 1) : table[j] \notin S
         /\ FirstSlot(S) = 0 => \A j \in 1..count : table[j] \notin S
<1> DEFINE hits == {k \in 1..count : table[k] \in S}
<1>1. CASE hits = {}
  BY <1>1 DEF FirstSlot
<1>2. CASE hits # {}
  <2>1. \E k \in hits : \A j \in hits : k <= j
    BY <1>2, LeastNatural, hits \in SUBSET Nat
  <2> DEFINE k == CHOOSE h \in hits : \A j \in hits : h <= j
  <2>2. k \in hits /\ \A j \in hits : k <= j
    BY <2>1
  <2>3. FirstSlot(S) = k
    BY <1>2 DEF FirstSlot
  <2> HIDE DEF k
  <2> QED
    BY <2>2, <2>3
<1> QED
  BY <1>1, <1>2

(* remove_server's loop and its realloc leave a sequence of ids that is    *)
(* one shorter.                                                            *)
LEMMA ShiftDownShorter ==
  ASSUME table \in Seq(Ids), NEW k \in 1..Len(table)
  PROVE  /\ ShiftDown(k) \in Seq(Ids)
         /\ Len(ShiftDown(k)) = Len(table) - 1
  BY DEF ShiftDown

-----------------------------------------------------------------------------
(* The inductive invariant.  MutualExclusion needs nothing else; the count *)
(* needs to know that only the owner of the mutex changes the array; the   *)
(* loop of for_each_server needs that its own thread is inside, that it    *)
(* starts with nothing visited, and which steps belong to which operation. *)

StepsOfOps ==
  \A t \in Threads :
    /\ call[t].op = "add" => call[t].arg \in Ids
    /\ pc[t] = "check" => call[t].op = "getfs_index"
    /\ pc[t] = "read" => call[t].op = "table_count"
    /\ pc[t] = "lock" /\ call[t].op = "for_each" => pos[t] = 0 /\ out[t] = <<>>
    /\ pc[t] = "store" => call[t].op = "add"
    /\ pc[t] \in {"apply", "relock"} =>
         call[t].op = "for_each" /\ pos[t] < Len(table)

IInv ==
  /\ TypeOK
  /\ MutualExclusion
  /\ CountConsistent
  /\ StepsOfOps
  /\ ForEachSnapshot

LEMMA InitIInv == Init => IInv
  BY TableAssumption DEF Init, IInv, TypeOK, MutualExclusion, CountConsistent,
     StepsOfOps, ForEachSnapshot, Steps, Ops, Inside

(* The calls change nothing but the caller's own locals.                   *)
LEMMA CallsIInv ==
  ASSUME IInv, NEW t \in Threads, Calls(t)
  PROVE  IInv'
<1>1. PICK step \in {"lock", "check", "read"}, op \in Ops, arg \in Nat,
           pred \in SUBSET Ids :
           /\ Start(t, step, op, arg, pred)
           /\ op = "add" => arg \in Ids
           /\ step = "check" => op = "getfs_index"
           /\ step = "read" => op = "table_count"
  BY TableAssumption DEF Calls, CallAdd, CallRemove, CallForEach, CallGetId,
     CallGetPred, CallGetIndex, CallCount, Ops
<1>2. TypeOK'
  BY <1>1 DEF Start, Goto, IInv, TypeOK, Steps
<1>3. MutualExclusion'
  BY <1>1 DEF Start, Goto, IInv, TypeOK, MutualExclusion, Inside
<1>4. CountConsistent'
  <2>1. \A u \in Threads : pc'[u] = "store" <=> pc[u] = "store"
    BY <1>1 DEF Start, Goto, IInv, TypeOK
  <2> QED
    BY <1>1, <2>1 DEF Start, IInv, CountConsistent
<1>5. StepsOfOps'
  BY <1>1 DEF Start, Goto, IInv, TypeOK, StepsOfOps
<1>6. ForEachSnapshot'
  BY <1>1 DEF Start, Goto, IInv, TypeOK, ForEachSnapshot, Inside
<1> QED
  BY <1>2, <1>3, <1>4, <1>5, <1>6 DEF IInv

(* Nor do the reads without the lock, and the return.                      *)
LEMMA UnlockedStepsIInv ==
  ASSUME IInv, NEW t \in Threads, ReadCount(t) \/ CheckIndex(t) \/ Return(t)
  PROVE  IInv'
<1> USE DEF ReadCount, CheckIndex, Return, Goto
<1>1. TypeOK'
  <2>1. <<count>> \in Seq(Nat)
    BY DEF IInv, TypeOK
  <2> QED
    BY <2>1 DEF IInv, TypeOK, Steps
<1>2. MutualExclusion'
  BY DEF IInv, TypeOK, MutualExclusion, Inside
<1>3. CountConsistent'
  <2>1. \A u \in Threads : pc'[u] = "store" <=> pc[u] = "store"
    BY DEF IInv, TypeOK
  <2> QED
    BY <2>1 DEF IInv, CountConsistent
<1>4. StepsOfOps'
  BY DEF IInv, TypeOK, StepsOfOps
<1>5. ForEachSnapshot'
  <2>1. /\ UNCHANGED <<table, call, pos>>
        /\ \A u \in Threads : pc'[u] \in Inside =>
             pc[u] \in Inside /\ (call[u].op = "for_each" => out'[u] = out[u])
    <3>1. CASE ReadCount(t)
      BY <3>1 DEF IInv, TypeOK, Inside
    <3>2. CASE CheckIndex(t)
      BY <3>2 DEF IInv, TypeOK, Inside
    <3>3. CASE Return(t)
      BY <3>3 DEF IInv, TypeOK, Inside
    <3> QED
      BY <3>1, <3>2, <3>3
  <2> QED
    BY <2>1 DEF IInv, ForEachSnapshot
<1> QED
  BY <1>1, <1>2, <1>3, <1>4, <1>5 DEF IInv

(* Entering and leaving a critical section.  A thread that enters the loop *)
(* of for_each_server has visited nothing yet.                             *)
LEMMA LockUnlockIInv ==
  ASSUME IInv, NEW t \in Threads, Lock(t) \/ Unlock(t)
  PROVE  IInv'
<1> USE DEF Lock, Unlock, Goto
<1>1. TypeOK'
  BY DEF IInv, TypeOK, Steps
<1>2. MutualExclusion'
  BY TableAssumption DEF IInv, TypeOK, MutualExclusion, Inside
<1>3. CountConsistent'
  <2>1. \A u \in Threads : pc'[u] = "store" <=> pc[u] = "store"
    BY DEF IInv, TypeOK
  <2> QED
    BY <2>1 DEF IInv, CountConsistent
<1>4. StepsOfOps'
  BY DEF IInv, TypeOK, StepsOfOps
<1>5. ForEachSnapshot'
  <2>1. SubSeq(table, 1, 0) = <<>>
    BY SubSeqEmpty DEF IInv, TypeOK
  <2> QED
    BY <2>1 DEF IInv, TypeOK, ForEachSnapshot, StepsOfOps, Inside
<1> QED
  BY <1>1, <1>2, <1>3, <1>4, <1>5 DEF IInv

(* The two steps of add_server.  Nobody else is inside, so no loop of      *)
(* for_each_server is under way and no other thread is storing.            *)
LEMMA AddIInv ==
  ASSUME IInv, NEW t \in Threads, AddGrow(t) \/ AddStore(t)
  PROVE  IInv'
<1> USE DEF AddGrow, AddStore, Body, Goto
<1>1. \A u \in Threads \ {t} : pc[u] \notin Inside /\ pc'[u] = pc[u]
  BY DEF IInv, TypeOK, MutualExclusion, Inside
<1>2. TypeOK'
  <2>1. CASE AddGrow(t)
    BY <2>1 DEF IInv, TypeOK, Steps
  <2>2. CASE AddStore(t)
    <3>1. call[t].arg \in Ids
      BY <2>2 DEF IInv, StepsOfOps
    <3> QED
      BY <2>2, <3>1 DEF IInv, TypeOK, Steps
  <2> QED
    BY <2>1, <2>2
<1>3. MutualExclusion'
  BY DEF IInv, TypeOK, MutualExclusion, Inside
<1>4. CountConsistent'
  <2>1. CASE AddGrow(t)
    BY <1>1, <2>1 DEF IInv, TypeOK, CountConsistent, Inside
  <2>2. CASE AddStore(t)
    BY <1>1, <2>2 DEF IInv, TypeOK, CountConsistent, Inside
  <2> QED
    BY <2>1, <2>2
<1>5. StepsOfOps'
  BY <1>1 DEF IInv, TypeOK, StepsOfOps, Inside
<1>6. ForEachSnapshot'
  BY <1>1 DEF IInv, TypeOK, StepsOfOps, ForEachSnapshot, Inside
<1> QED
  BY <1>2, <1>3, <1>4, <1>5, <1>6 DEF IInv

LEMMA RemoveIInv ==
  ASSUME IInv, NEW t \in Threads, Remove(t)
  PROVE  IInv'
<1> USE DEF Remove, Body, Goto
<1> DEFINE k == FirstSlot({call[t].arg})
<1>1. \A u \in Threads \ {t} : pc[u] \notin Inside /\ pc'[u] = pc[u]
  BY DEF IInv, TypeOK, MutualExclusion, Inside
<1>2. count = Len(table)
  BY <1>1 DEF IInv, CountConsistent, Inside
<1>3. k \in 0..Len(table)
  BY <1>2, FirstSlotIsFirst DEF IInv, TypeOK
<1>4. k > 0 => /\ ShiftDown(k) \in Seq(Ids)
               /\ Len(ShiftDown(k)) = Len(table) - 1
  BY <1>3, ShiftDownShorter DEF IInv, TypeOK
<1>5. table' \in Seq(Ids) /\ count' \in Nat /\ count' = Len(table')
  BY <1>2, <1>3, <1>4 DEF IInv, TypeOK
<1>6. /\ pc' = [pc EXCEPT ![t] = "unlock"]
      /\ pc[t] = "body"
      /\ call[t].op = "remove"
      /\ UNCHANGED <<mutex, call, pos, out>>
  OBVIOUS
<1> HIDE DEF Remove, k
<1>7. TypeOK'
  BY <1>5, <1>6 DEF IInv, TypeOK, Steps
<1>8. MutualExclusion'
  BY <1>6 DEF IInv, TypeOK, MutualExclusion, Inside
<1>9. CountConsistent'
  BY <1>1, <1>5, <1>6 DEF IInv, TypeOK, CountConsistent, Inside
<1>10. StepsOfOps'
  BY <1>1, <1>6 DEF IInv, TypeOK, StepsOfOps, Inside
<1>11. ForEachSnapshot'
  BY <1>1, <1>6 DEF IInv, TypeOK, ForEachSnapshot, Inside
<1> QED
  BY <1>7, <1>8, <1>9, <1>10, <1>11 DEF IInv

(* The loop of for_each_server: the next slot exists, and visiting it      *)
(* extends the prefix that was visited.                                    *)
LEMMA ForEachIInv ==
  ASSUME IInv, NEW t \in Threads,
         ForEachNext(t) \/ ApplyReturn(t) \/ CallbackRemoves(t)
  PROVE  IInv'
<1> USE DEF ForEachNext, ApplyReturn, CallbackRemoves, Body, Goto
<1>1. \A u \in Threads \ {t} : pc[u] \notin Inside /\ pc'[u] = pc[u]
  BY DEF IInv, TypeOK, MutualExclusion, Inside
<1>2. count = Len(table)
  BY <1>1 DEF IInv, CountConsistent, Inside
<1>3. call[t].op = "for_each" /\ pos[t] <= Len(table)
      /\ out[t] = SubSeq(table, 1, pos[t])
  BY DEF IInv, StepsOfOps, ForEachSnapshot, Inside
<1>4. TypeOK'
  <2>1. CASE ApplyReturn(t)
    <3>1. pos[t] \in Nat /\ pos[t] < Len(table)
      BY <2>1 DEF IInv, TypeOK, StepsOfOps
    <3>2. table[pos[t] + 1] \in Ids
      BY <3>1, ElementOfSeq DEF IInv, TypeOK
    <3>3. Append(out[t], table[pos[t] + 1]) \in Seq(Nat)
      BY <3>2, TableAssumption, AppendProperties DEF IInv, TypeOK
    <3> HIDE DEF ForEachNext, CallbackRemoves
    <3> QED
      BY <2>1, <3>1, <3>3 DEF IInv, TypeOK, Steps
  <2>2. CASE ForEachNext(t) \/ CallbackRemoves(t)
    BY <2>2 DEF IInv, TypeOK, Steps
  <2> QED
    BY <2>1, <2>2
<1>5. MutualExclusion'
  BY DEF IInv, TypeOK, MutualExclusion, Inside
<1>6. CountConsistent'
  <2>1. \A u \in Threads : pc'[u] # "store" /\ pc[u] # "store"
    BY <1>1 DEF IInv, TypeOK, Inside
  <2> QED
    BY <2>1 DEF IInv, CountConsistent
<1>7. StepsOfOps'
  BY SMTT(30), <1>1, <1>2, <1>3 DEF IInv, TypeOK, StepsOfOps, Inside
<1>8. ForEachSnapshot'
  <2>1. CASE ApplyReturn(t)
    <3>1. pos[t] \in Nat /\ pos[t] < Len(table)
      BY <2>1 DEF IInv, TypeOK, StepsOfOps
    <3>2. SubSeq(table, 1, pos[t] + 1)
            = Append(SubSeq(table, 1, pos[t]), table[pos[t] + 1])
      BY SMTT(30), <3>1, SubSeqRecursiveSecond DEF IInv, TypeOK
    <3>3. out'[t] = SubSeq(table', 1, pos'[t]) /\ pos'[t] <= Len(table')
      BY SMTT(30), <2>1, <1>3, <3>1, <3>2 DEF IInv, TypeOK
    <3> QED
      BY <2>1, <1>1, <3>3 DEF IInv, TypeOK, ForEachSnapshot
  <2>2. CASE ForEachNext(t) \/ CallbackRemoves(t)
    BY <2>2 DEF IInv, TypeOK, ForEachSnapshot, Inside
  <2> QED
    BY <2>1, <2>2
<1> QED
  BY <1>4, <1>5, <1>6, <1>7, <1>8 DEF IInv

(* The lookups change the locals of a thread that is not in a loop.        *)
LEMMA LookupIInv ==
  ASSUME IInv, NEW t \in Threads, Search(t) \/ TakeIndex(t)
  PROVE  IInv'
<1>1. PICK k \in Nat, o \in Seq(Nat) :
        /\ pos' = [pos EXCEPT ![t] = k]
        /\ out' = [out EXCEPT ![t] = o]
  <2>1. PICK k \in Nat : Take(t, k)
    <3>1. FirstSlot(Wanted(t)) \in Nat
      BY FirstSlotIsFirst DEF IInv, TypeOK
    <3>2. call[t].arg + 1 \in Nat
      BY DEF IInv, TypeOK
    <3> QED
      BY <3>1, <3>2 DEF Search, TakeIndex
  <2>2. count = Len(table)
    BY DEF Search, TakeIndex, Body, IInv, TypeOK, MutualExclusion,
           CountConsistent, Inside
  <2>3. k \in 1..count => table[k] \in Nat
    BY <2>2, ElementOfSeq, TableAssumption DEF IInv, TypeOK
  <2> DEFINE o == CASE k = 0 -> <<>>
                    [] k \in 1..count -> <<k, table[k]>>
                    [] OTHER -> <<k>>
  <2>4. o \in Seq(Nat)
    <3>1. CASE k = 0
      BY <3>1
    <3>2. CASE k \in 1..count
      BY <2>3, <3>2
    <3>3. CASE k # 0 /\ k \notin 1..count
      BY <3>3
    <3> QED
      BY <3>1, <3>2, <3>3
  <2>5. pos' = [pos EXCEPT ![t] = k] /\ out' = [out EXCEPT ![t] = o]
    BY <2>1 DEF Take
  <2> HIDE DEF o
  <2> QED
    BY <2>4, <2>5
<1>2. /\ pc' = [pc EXCEPT ![t] = "unlock"]
      /\ pc[t] = "body"
      /\ call[t].op \in {"getfs_id", "getfs_pred", "getfs_index"}
      /\ UNCHANGED <<mutex, table, count, call>>
  BY DEF Search, TakeIndex, Take, Body, Goto
<1>3. TypeOK'
  BY <1>1, <1>2 DEF IInv, TypeOK, Steps
<1>4. MutualExclusion'
  BY <1>2 DEF IInv, TypeOK, MutualExclusion, Inside
<1>5. CountConsistent'
  <2>1. \A u \in Threads : pc'[u] = "store" <=> pc[u] = "store"
    BY <1>2 DEF IInv, TypeOK
  <2> QED
    BY <1>2, <2>1 DEF IInv, CountConsistent
<1>6. StepsOfOps'
  BY <1>1, <1>2 DEF IInv, TypeOK, StepsOfOps
<1>7. ForEachSnapshot'
  BY <1>1, <1>2 DEF IInv, TypeOK, ForEachSnapshot, Inside
<1> QED
  BY <1>3, <1>4, <1>5, <1>6, <1>7 DEF IInv

(* A stuttering step.                                                      *)
LEMMA StutterIInv == IInv /\ UNCHANGED vars => IInv'
  BY DEF vars, IInv, TypeOK, MutualExclusion, CountConsistent, StepsOfOps,
     ForEachSnapshot

LEMMA NextIInv == IInv /\ [Next]_vars => IInv'
<1> SUFFICES ASSUME IInv, Next PROVE IInv'
  BY StutterIInv
<1>1. PICK t \in Threads : Calls(t) \/ Progress(t) \/ CallbackRemoves(t)
  BY DEF Next
<1> QED
  BY <1>1, CallsIInv, UnlockedStepsIInv, LockUnlockIInv, AddIInv, RemoveIInv,
     ForEachIInv, LookupIInv DEF Progress

-----------------------------------------------------------------------------
(* The theorems.                                                           *)

LEMMA Inductive == Spec => []IInv
  BY InitIInv, NextIInv, PTL DEF Spec

(* The state of server_table.c always has its type.                        *)
THEOREM TypeCorrect == Spec => []TypeOK
  BY Inductive, PTL DEF IInv

(* Whatever the threads call, the mutex is owned by the one thread that is *)
(* inside an operation, and every path out of one releases it.             *)
THEOREM Mutex == Spec => []MutualExclusion
  BY Inductive, PTL DEF IInv

(* server_count is the number of stored entries, or one more while         *)
(* add_server has counted the entry it is about to store.                  *)
THEOREM Count == Spec => []CountConsistent
  BY Inductive, PTL DEF IInv

(* for_each_server works on the table of one instant.                      *)
THEOREM Snapshot == Spec => []ForEachSnapshot
  BY Inductive, PTL DEF IInv

(* The callback of for_each_server is never given a slot behind the end of *)
(* the array.                                                              *)
THEOREM Callback == Spec => []CallbackInTable
<1>1. IInv => CallbackInTable
  BY DEF IInv, StepsOfOps, CallbackInTable
<1> QED
  BY <1>1, Inductive, PTL
=============================================================================
