------------------------ MODULE Linearizable_proofs ------------------------
(***************************************************************************)
(* ServerTable implements TableSpec, for any threads, ids and indexes:     *)
(* every step of server_table.c is a step of the abstract table or leaves  *)
(* it as it is.                                                            *)
(***************************************************************************)
EXTENDS ServerTable_proofs

(* An operation that has not found anything yet has nothing to return.     *)
NothingYet(t) ==
  \/ pc[t] = "check"
  \/ pc[t] \in {"lock", "body"} /\ call[t].op # "for_each"

RInv ==
  /\ IInv
  /\ \A t \in Threads :
       /\ pc[t] # "idle" => call[t].op # "none"
       /\ NothingYet(t) => out[t] = <<>>

LEMMA InitRInv == Init => RInv
BY InitIInv DEF Init, RInv, NothingYet

(* A step of thread t leaves the other threads where they are.             *)
Local(t) ==
  \A u \in Threads \ {t} : /\ pc'[u] = pc[u] /\ call'[u] = call[u]
                           /\ out'[u] = out[u]

LEMMA StepsAreLocal ==
  ASSUME TypeOK, NEW t \in Threads,
         Calls(t) \/ Progress(t) \/ CallbackRemoves(t)
  PROVE  Local(t)
<1>1. CASE Calls(t)
  BY <1>1 DEF Calls, CallAdd, CallRemove, CallForEach, CallGetId, CallGetPred,
              CallGetIndex, CallCount, Start, Goto, TypeOK, Local
<1>2. CASE \/ ReadCount(t) \/ CheckIndex(t) \/ Lock(t) \/ AddGrow(t)
           \/ AddStore(t) \/ Remove(t)
  BY <1>2 DEF ReadCount, CheckIndex, Lock, AddGrow, AddStore, Remove, Goto,
              TypeOK, Local
<1>3. CASE \/ ForEachNext(t) \/ ApplyReturn(t) \/ Search(t) \/ TakeIndex(t)
           \/ Unlock(t) \/ Return(t) \/ CallbackRemoves(t)
  BY <1>3 DEF ForEachNext, ApplyReturn, Search, TakeIndex, Take, Unlock,
              Return, CallbackRemoves, Goto, TypeOK, Local
<1> QED
  BY <1>1, <1>2, <1>3 DEF Progress

LEMMA NextRInv == RInv /\ [Next]_vars => RInv'
<1> SUFFICES ASSUME RInv, [Next]_vars
             PROVE  RInv'
  OBVIOUS
<1>1. IInv'
  BY NextIInv DEF RInv
<1>2. CASE UNCHANGED vars
  BY <1>1, <1>2 DEF RInv, NothingYet, vars
<1>3. CASE Next
  <2>1. PICK t \in Threads : Calls(t) \/ Progress(t) \/ CallbackRemoves(t)
    BY <1>3 DEF Next
  <2>2. Local(t)
    BY <2>1, StepsAreLocal DEF RInv, IInv
  <2>3. /\ pc'[t] # "idle" => call'[t].op # "none"
        /\ NothingYet(t)' => out'[t] = <<>>
    <3>1. CASE Calls(t)
      BY <3>1 DEF Calls, CallAdd, CallRemove, CallForEach, CallGetId,
                  CallGetPred, CallGetIndex, CallCount, Start, Goto, RInv,
                  IInv, TypeOK
    <3>2. CASE \/ ReadCount(t) \/ CheckIndex(t) \/ Lock(t) \/ AddGrow(t)
               \/ AddStore(t) \/ Remove(t)
      BY <3>2 DEF ReadCount, CheckIndex, Lock, AddGrow, AddStore, Remove, Body,
                  Goto, RInv, IInv, TypeOK, StepsOfOps, NothingYet
    <3>3. CASE \/ ForEachNext(t) \/ ApplyReturn(t) \/ Search(t) \/ TakeIndex(t)
               \/ Unlock(t) \/ Return(t) \/ CallbackRemoves(t)
      BY <3>3 DEF ForEachNext, ApplyReturn, Search, TakeIndex, Take, Unlock,
                  Return, CallbackRemoves, Body, Goto, RInv, IInv, TypeOK, StepsOfOps,
                  NothingYet
    <3> QED
      BY <2>1, <3>1, <3>2, <3>3 DEF Progress
  <2> QED
    BY <1>1, <2>2, <2>3 DEF RInv, Local, NothingYet
<1> QED
  BY <1>2, <1>3

-----------------------------------------------------------------------------
(* The abstract table.                                                     *)

(* At most the owner of the mutex is storing.                              *)
LEMMA StoringAlone ==
  ASSUME IInv, NEW t \in Threads, pc[t] \in Inside
  PROVE  Storing = IF pc[t] = "store" THEN {t} ELSE {}
BY DEF Storing, IInv, MutualExclusion, Inside

LEMMA ServersLength ==
  ASSUME IInv
  PROVE  Servers \in Seq(Ids) /\ Len(Servers) = count
<1>1. CASE Storing = {}
  BY <1>1 DEF Servers, Storing, IInv, CountConsistent, TypeOK
<1>2. CASE Storing # {}
  <2> DEFINE u == CHOOSE t \in Storing : TRUE
  <2>1. u \in Threads /\ pc[u] = "store"
    BY <1>2 DEF Storing
  <2>2. call[u].arg \in Ids /\ count = Len(table) + 1
    BY <2>1 DEF IInv, StepsOfOps, CountConsistent
  <2>3. Servers = Append(table, call[u].arg)
    BY <1>2 DEF Servers
  <2> HIDE DEF u
  <2> QED
    BY <2>2, <2>3, AppendProperties DEF IInv, TypeOK
<1> QED
  BY <1>1, <1>2

(* A step that neither changes the array nor begins or ends a store.       *)
LEMMA ServersSame ==
  ASSUME IInv, NEW t \in Threads, Local(t), UNCHANGED table,
         pc[t] # "store", pc'[t] # "store"
  PROVE  Servers' = Servers
<1>1. Storing' = Storing
  BY DEF Storing, Local
<1>2. \A u \in Storing : call'[u] = call[u]
  BY DEF Storing, Local
<1>3. CASE Storing = {}
  BY <1>1, <1>3 DEF Servers
<1>4. CASE Storing # {}
  <2>1. (CHOOSE u \in Storing : TRUE) \in Storing
    BY <1>4
  <2> QED
    BY <1>1, <1>2, <1>4, <2>1 DEF Servers
<1> QED
  BY <1>3, <1>4

LEMMA StatusOf ==
  ASSUME NEW t \in Threads
  PROVE  /\ pc[t] = "idle" => Status[t] = "idle"
         /\ pc[t] # "idle" /\ Done(t) => Status[t] = "done"
         /\ pc[t] # "idle" /\ Checked(t) => Status[t] = "checked"
         /\ pc[t] # "idle" /\ ~Done(t) /\ ~Checked(t) => Status[t] = "called"
         /\ Result[t] = IF Status[t] \in {"idle", "done"} THEN out[t] ELSE <<>>
BY DEF Status, Result, Done, Checked

LEMMA StatusLocal ==
  ASSUME NEW t \in Threads, Local(t)
  PROVE  /\ Status' = [Status EXCEPT ![t] = Status'[t]]
         /\ Result' = [Result EXCEPT ![t] = Result'[t]]
<1>1. \A u \in Threads \ {t} : (Done(u)' <=> Done(u)) /\ (Checked(u)' <=> Checked(u))
  BY DEF Local, Done, Checked
<1>2. \A u \in Threads \ {t} : Status'[u] = Status[u]
  BY <1>1 DEF Local, Status
<1>3. \A u \in Threads \ {t} : Result'[u] = Result[u]
  BY <1>2 DEF Local, Result
<1>4. /\ Status = [u \in Threads |-> Status[u]]
      /\ Status' = [u \in Threads |-> Status'[u]]
  BY DEF Status
<1>5. /\ Result = [u \in Threads |-> Result[u]]
      /\ Result' = [u \in Threads |-> Result'[u]]
  BY DEF Result
<1>6. Status' = [Status EXCEPT ![t] = Status'[t]]
  BY <1>2, <1>4
<1>7. Result' = [Result EXCEPT ![t] = Result'[t]]
  BY <1>3, <1>5
<1> QED
  BY <1>6, <1>7

-----------------------------------------------------------------------------
(* The steps, each with what it is for the abstract table.                 *)

LEMMA InitRefines == Init => Abstract!Init
<1> SUFFICES ASSUME Init
             PROVE  Abstract!Init
  OBVIOUS
<1>1. \A t \in Threads : Status[t] = "idle" /\ Result[t] = <<>>
  BY StatusOf DEF Init
<1>2. Servers = <<>>
  BY DEF Init, Servers, Storing
<1>3. Status = [t \in Threads |-> "idle"] /\ Result = [t \in Threads |-> <<>>]
  BY <1>1 DEF Status, Result
<1> QED
  BY <1>2, <1>3 DEF Init, Abstract!Init

LEMMA CallsRefine ==
  ASSUME RInv, NEW t \in Threads, Calls(t)
  PROVE  Abstract!Invoke(t)
<1> USE DEF RInv, IInv
<1>1. \E step \in {"lock", "check", "read"}, op \in Ops, arg \in Nat,
          pred \in SUBSET Ids :
        /\ Start(t, step, op, arg, pred)
        /\ op # "none"
        /\ step # "check" => op # "getfs_index"
  <2>1. CASE CallAdd(t) \/ CallRemove(t) \/ CallForEach(t)
    BY <2>1, TableAssumption DEF CallAdd, CallRemove, CallForEach, Ops
  <2>2. CASE CallGetId(t) \/ CallGetPred(t)
    BY <2>2, TableAssumption DEF CallGetId, CallGetPred, Ops
  <2>3. CASE CallGetIndex(t) \/ CallCount(t)
    BY <2>3, TableAssumption DEF CallGetIndex, CallCount, Ops
  <2> QED
    BY <2>1, <2>2, <2>3 DEF Calls
<1> PICK step \in {"lock", "check", "read"}, op \in Ops, arg \in Nat,
         pred \in SUBSET Ids :
       /\ Start(t, step, op, arg, pred)
       /\ op # "none"
       /\ step # "check" => op # "getfs_index"
  BY <1>1
<1>2. /\ pc[t] = "idle" /\ pc'[t] = step
      /\ call'[t] = [op |-> op, arg |-> arg, pred |-> pred]
      /\ call' = [call EXCEPT ![t] = call'[t]]
  BY DEF Start, Goto, TypeOK
<1>3. Local(t)
  BY StepsAreLocal
<1>4. Servers' = Servers
  BY <1>2, <1>3, ServersSame DEF Start
<1>5. Status[t] = "idle"
  BY <1>2, StatusOf
<1>6. Status'[t] = "called" /\ Result'[t] = <<>>
  <2>1. pc'[t] # "idle" /\ ~Done(t)' /\ ~Checked(t)'
    BY <1>2 DEF Done, Checked
  <2> QED
    BY <2>1 DEF Status, Result
<1>7. call'[t] \in [op : Abstract!Operations, arg : Nat, pred : SUBSET Ids]
  BY <1>2 DEF Abstract!Operations, Ops
<1> QED
  BY <1>2, <1>3, <1>4, <1>5, <1>6, <1>7, StatusLocal DEF Abstract!Invoke

(* An operation takes effect.                                              *)
LEMMA Performs ==
  ASSUME NEW t \in Threads, Local(t), UNCHANGED call,
         pc[t] # "idle", ~Done(t), pc'[t] # "idle", Done(t)',
         call[t].op = "getfs_index" <=> Checked(t),
         Servers' = Abstract!Effect(Servers, call[t]),
         out'[t] = Abstract!Answer(Servers, call[t])
  PROVE  Abstract!Perform(t)
<1>1. Status[t] = IF call[t].op = "getfs_index" THEN "checked" ELSE "called"
  BY StatusOf
<1>2. Status'[t] = "done"
  BY DEF Status, Done, Checked
<1>3. Result'[t] = out'[t]
  BY <1>2 DEF Result
<1> QED
  BY <1>1, <1>2, <1>3, StatusLocal DEF Abstract!Perform

LEMMA Stutters ==
  ASSUME NEW t \in Threads, Local(t), UNCHANGED <<call, Servers>>,
         pc[t] # "idle", pc'[t] # "idle", Done(t)' <=> Done(t),
         Checked(t)' <=> Checked(t),
         Done(t) => out'[t] = out[t]
  PROVE  UNCHANGED <<Servers, Status, call, Result>>
<1>1. Status'[t] = Status[t]
  BY DEF Status
<1>2. Result'[t] = Result[t]
  BY <1>1, StatusOf DEF Result
<1>3. Status' = [Status EXCEPT ![t] = Status[t]]
  BY <1>1, StatusLocal
<1>4. Result' = [Result EXCEPT ![t] = Result[t]]
  BY <1>2, StatusLocal
<1>5. Status' = Status
  BY <1>3 DEF Status
<1>6. Result' = Result
  BY <1>4 DEF Result
<1> QED
  BY <1>5, <1>6

(* The reads without the lock take effect at once.                         *)
LEMMA ReadCountRefines ==
  ASSUME RInv, NEW t \in Threads, ReadCount(t)
  PROVE  Abstract!Perform(t)
<1> USE DEF RInv, IInv
<1>1. Local(t) /\ UNCHANGED <<table, call>>
  BY StepsAreLocal DEF Progress, ReadCount
<1>2. pc[t] = "read" /\ call[t].op = "table_count" /\ pc'[t] = "return"
  BY DEF ReadCount, StepsOfOps, Goto, TypeOK
<1>3. Servers' = Servers
  BY <1>1, <1>2, ServersSame
<1>4. out'[t] = <<Len(Servers)>>
  BY ServersLength DEF ReadCount, TypeOK
<1>5. /\ Servers = Abstract!Effect(Servers, call[t])
      /\ <<Len(Servers)>> = Abstract!Answer(Servers, call[t])
  BY <1>2 DEF Abstract!Effect, Abstract!Answer
<1>6. ~Done(t) /\ Done(t)' /\ ~Checked(t)
  BY <1>2 DEF Done, Checked
<1> QED
  BY <1>1, <1>2, <1>3, <1>4, <1>5, <1>6, Performs

LEMMA CheckIndexRefines ==
  ASSUME RInv, NEW t \in Threads, CheckIndex(t)
  PROVE  Abstract!Check(t)
<1> USE DEF RInv, IInv
<1>1. Local(t) /\ UNCHANGED <<table, call, out>>
  BY StepsAreLocal DEF Progress, CheckIndex
<1>2. /\ pc[t] = "check" /\ call[t].op = "getfs_index" /\ out[t] = <<>>
      /\ pc'[t] \in {"return", "lock"}
  BY DEF CheckIndex, StepsOfOps, NothingYet, Goto, TypeOK
<1>3. Servers' = Servers
  BY <1>1, <1>2, ServersSame
<1>4. pc'[t] = IF call[t].arg < Len(Servers) THEN "lock" ELSE "return"
  BY ServersLength DEF CheckIndex, Goto, TypeOK
<1>5. Status[t] = "called" /\ Result[t] = <<>>
  BY <1>2, StatusOf DEF Done, Checked
<1>6. Status'[t] = IF call[t].arg < Len(Servers) THEN "checked" ELSE "done"
  BY <1>1, <1>2, <1>4 DEF Status, Done, Checked
<1>7. Result'[t] = <<>>
  BY <1>1, <1>2 DEF Result
<1>8. Result' = Result
  BY <1>1, <1>5, <1>7, StatusLocal DEF Result
<1> QED
  BY <1>1, <1>2, <1>3, <1>5, <1>6, <1>8, StatusLocal DEF Abstract!Check

(* add_server takes effect at ++server_count ...                           *)
LEMMA AddGrowRefines ==
  ASSUME RInv, NEW t \in Threads, AddGrow(t)
  PROVE  Abstract!Perform(t)
<1> USE DEF RInv, IInv
<1>1. Local(t) /\ UNCHANGED <<table, call, out>>
  BY StepsAreLocal DEF Progress, AddGrow
<1>2. /\ pc[t] = "body" /\ pc'[t] = "store" /\ call[t].op = "add"
      /\ out[t] = <<>>
  BY DEF AddGrow, Body, Goto, TypeOK, NothingYet
<1>3. Storing = {}
  BY <1>2, StoringAlone DEF Inside
<1>4. Storing' = {t}
  BY <1>1, <1>2, <1>3 DEF Storing, Local
<1>5. Servers = table
  BY <1>3 DEF Servers
<1>6. Servers' = Append(table, call[t].arg)
  BY <1>1, <1>4 DEF Servers
<1>7. /\ Append(table, call[t].arg) = Abstract!Effect(table, call[t])
      /\ <<>> = Abstract!Answer(table, call[t])
  BY <1>2 DEF Abstract!Effect, Abstract!Answer
<1>8. ~Done(t) /\ Done(t)' /\ ~Checked(t)
  BY <1>1, <1>2 DEF Done, Checked
<1> QED
  BY <1>1, <1>2, <1>5, <1>6, <1>7, <1>8, Performs

(* ... and the store of the entry shows nobody anything new.               *)
LEMMA AddStoreRefines ==
  ASSUME RInv, NEW t \in Threads, AddStore(t)
  PROVE  UNCHANGED <<Servers, Status, call, Result>>
<1> USE DEF RInv, IInv
<1>1. Local(t) /\ UNCHANGED <<call, out>>
  BY StepsAreLocal DEF Progress, AddStore
<1>2. /\ pc[t] = "store" /\ pc'[t] = "unlock"
      /\ table' = Append(table, call[t].arg)
  BY DEF AddStore, Goto, TypeOK
<1>3. Storing = {t}
  BY <1>2, StoringAlone DEF Inside
<1>4. Storing' = {}
  BY <1>1, <1>2, <1>3 DEF Storing, Local
<1>5. Servers' = Servers
  BY <1>1, <1>2, <1>3, <1>4 DEF Servers
<1>6. Done(t) /\ Done(t)' /\ ~Checked(t) /\ ~Checked(t)'
  BY <1>2 DEF Done, Checked
<1> QED
  BY <1>1, <1>2, <1>5, <1>6, Stutters

(* The search of the code finds a slot when the abstract table has one.    *)
LEMMA SlotsFound ==
  ASSUME IInv, Storing = {}, NEW S
  PROVE  /\ Servers = table /\ count = Len(table)
         /\ Abstract!Slots(table, S) = {k \in 1..count : table[k] \in S}
         /\ FirstSlot(S) > 0 <=> Abstract!Slots(table, S) # {}
<1>1. Servers = table /\ count = Len(table) /\ count \in Nat
  BY DEF Servers, Storing, IInv, CountConsistent, TypeOK
<1>2. Abstract!Slots(table, S) = {k \in 1..count : table[k] \in S}
  BY <1>1 DEF Abstract!Slots
<1>3. FirstSlot(S) > 0 <=> Abstract!Slots(table, S) # {}
  BY <1>1, <1>2, FirstSlotIsFirst
<1> QED
  BY <1>1, <1>2, <1>3

(* remove_server removes the entry that the abstract table loses.          *)
LEMMA RemoveRefines ==
  ASSUME RInv, NEW t \in Threads, Remove(t)
  PROVE  Abstract!Perform(t)
<1> USE DEF RInv, IInv
<1> DEFINE S == {call[t].arg}
           k == FirstSlot(S)
<1>1. Local(t) /\ UNCHANGED <<call, out>>
  BY StepsAreLocal DEF Progress, Remove
<1>2. /\ pc[t] = "body" /\ pc'[t] = "unlock" /\ call[t].op = "remove"
      /\ out[t] = <<>>
  BY DEF Remove, Body, Goto, TypeOK, NothingYet
<1>2a. \/ k = 0 /\ table' = table
       \/ k > 0 /\ table' = ShiftDown(k)
  BY DEF Remove
<1>3. Storing = {}
  BY <1>2, StoringAlone DEF Inside
<1>4. Storing' = {}
  BY <1>1, <1>2, <1>3 DEF Storing, Local
<1>5. Servers = table /\ Servers' = table'
  BY <1>3, <1>4 DEF Servers
<1>6. table' = Abstract!Without(table, call[t].arg)
  <2>1. /\ Abstract!Slots(table, S) = {j \in 1..count : table[j] \in S}
        /\ k > 0 <=> Abstract!Slots(table, S) # {}
    BY <1>3, SlotsFound
  <2>2. CASE k = 0
    <3>1. ~(k > 0)
      BY <2>2
    <3>2. table' = table
      BY <1>2a, <3>1
    <3>3. Abstract!Slots(table, {call[t].arg}) = {}
      BY <2>1, <3>1
    <3> QED
      BY <3>2, <3>3 DEF Abstract!Without
  <2>3. CASE k > 0
    <3>1. k = CHOOSE h \in Abstract!Slots(table, S) :
                \A j \in Abstract!Slots(table, S) : h <= j
      BY <2>1, <2>3 DEF FirstSlot
    <3> HIDE DEF k
    <3>2. table' = ShiftDown(k)
      BY <1>2a, <2>3
    <3> QED
      BY <2>1, <2>3, <3>1, <3>2 DEF Abstract!Without, ShiftDown
  <2> QED
    BY <1>2a, <2>2, <2>3
<1>7. /\ Abstract!Without(table, call[t].arg) = Abstract!Effect(table, call[t])
      /\ <<>> = Abstract!Answer(table, call[t])
  BY <1>2 DEF Abstract!Effect, Abstract!Answer
<1>8. ~Done(t) /\ Done(t)' /\ ~Checked(t)
  BY <1>1, <1>2 DEF Done, Checked
<1> QED
  BY <1>1, <1>2, <1>5, <1>6, <1>7, <1>8, Performs

(* The lookups answer the slot that the abstract table answers.            *)
LEMMA SearchRefines ==
  ASSUME RInv, NEW t \in Threads, Search(t)
  PROVE  Abstract!Perform(t)
<1> USE DEF RInv, IInv
<1> DEFINE S == Wanted(t)
           k == FirstSlot(S)
<1>1. Local(t) /\ UNCHANGED <<call, table>>
  BY StepsAreLocal DEF Progress, Search, Take
<1>2. /\ pc[t] = "body" /\ pc'[t] = "unlock"
      /\ call[t].op \in {"getfs_id", "getfs_pred"}
  BY DEF Search, Take, Body, Goto, TypeOK
<1>3. Storing = {}
  BY <1>2, StoringAlone DEF Inside
<1>4. /\ Servers = table /\ count = Len(table)
      /\ Abstract!Slots(table, S) = {j \in 1..count : table[j] \in S}
      /\ k > 0 <=> Abstract!Slots(table, S) # {}
  BY <1>3, SlotsFound
<1>5. Servers' = Servers
  BY <1>1, <1>2, ServersSame
<1>6. k \in 0..count
  BY FirstSlotIsFirst DEF TypeOK
<1>7. out'[t] = Abstract!FirstOf(table, S)
  <2>1. CASE k = 0
    <3>1. out'[t] = <<>>
      BY <2>1 DEF Search, Take, TypeOK
    <3>2. Abstract!Slots(table, S) = {}
      BY <1>4, <2>1
    <3> QED
      BY <3>1, <3>2 DEF Abstract!FirstOf
  <2>2. CASE k # 0
    <3>1. Abstract!Slots(table, S) # {}
      BY <1>4, <1>6, <2>2
    <3>2. k = CHOOSE h \in Abstract!Slots(table, S) :
                \A j \in Abstract!Slots(table, S) : h <= j
      BY <1>4, <3>1 DEF FirstSlot
    <3>3. k \in 1..count
      BY <1>6, <2>2 DEF TypeOK
    <3>4. out'[t] = <<k, table[k]>>
      BY <2>2, <3>3 DEF Search, Take, TypeOK
    <3> HIDE DEF k, S
    <3> QED
      BY <3>1, <3>2, <3>4 DEF Abstract!FirstOf
  <2> QED
    BY <2>1, <2>2
<1>8. /\ table = Abstract!Effect(table, call[t])
      /\ Abstract!FirstOf(table, S) = Abstract!Answer(table, call[t])
  <2>1. CASE call[t].op = "getfs_id"
    BY <2>1 DEF Abstract!Effect, Abstract!Answer, Wanted
  <2>2. CASE call[t].op = "getfs_pred"
    BY <2>2 DEF Abstract!Effect, Abstract!Answer, Wanted
  <2> QED
    BY <1>2, <2>1, <2>2
<1>9. ~Done(t) /\ Done(t)' /\ ~Checked(t)
  BY <1>1, <1>2 DEF Done, Checked
<1> QED
  BY <1>1, <1>2, <1>4, <1>5, <1>7, <1>8, <1>9, Performs

(* getfs_index answers the slot as it is when the address is taken.        *)
LEMMA TakeIndexRefines ==
  ASSUME RInv, NEW t \in Threads, TakeIndex(t)
  PROVE  Abstract!Perform(t)
<1> USE DEF RInv, IInv
<1>1. Local(t) /\ UNCHANGED <<call, table>>
  BY StepsAreLocal DEF Progress, TakeIndex, Take
<1>2. pc[t] = "body" /\ pc'[t] = "unlock" /\ call[t].op = "getfs_index"
  BY DEF TakeIndex, Take, Body, Goto, TypeOK
<1>3. Storing = {}
  BY <1>2, StoringAlone DEF Inside
<1>4. Servers = table /\ count = Len(table)
  BY <1>3, SlotsFound
<1>5. Servers' = Servers
  BY <1>1, <1>2, ServersSame
<1>6. out'[t] = Abstract!SlotAt(table, call[t].arg + 1)
  BY <1>4 DEF TakeIndex, Take, TypeOK, Abstract!SlotAt
<1>7. /\ table = Abstract!Effect(table, call[t])
      /\ Abstract!SlotAt(table, call[t].arg + 1)
           = Abstract!Answer(table, call[t])
  BY <1>2 DEF Abstract!Effect, Abstract!Answer
<1>8. ~Done(t) /\ Done(t)' /\ Checked(t)
  BY <1>1, <1>2 DEF Done, Checked
<1> QED
  BY <1>1, <1>2, <1>4, <1>5, <1>6, <1>7, <1>8, Performs

(* for_each_server has visited the whole table when its loop ends.         *)
LEMMA ForEachRefines ==
  ASSUME RInv, NEW t \in Threads,
         ForEachNext(t) \/ ApplyReturn(t) \/ CallbackRemoves(t)
  PROVE  Abstract!Perform(t) \/ UNCHANGED <<Servers, Status, call, Result>>
<1> USE DEF RInv, IInv
<1>1. Local(t) /\ UNCHANGED <<call, table>>
  BY StepsAreLocal
  DEF Progress, ForEachNext, ApplyReturn, CallbackRemoves
<1>2. /\ pc[t] \in {"body", "apply"} /\ call[t].op = "for_each"
      /\ pc'[t] \in {"apply", "body", "relock", "unlock"}
  BY DEF ForEachNext, ApplyReturn, CallbackRemoves, Body, Goto, TypeOK,
         StepsOfOps
<1>3. Servers' = Servers
  BY <1>1, <1>2, ServersSame
<1>4. CASE pc'[t] # "unlock"
  <2>1. ~Done(t) /\ ~Done(t)' /\ ~Checked(t) /\ ~Checked(t)'
    BY <1>1, <1>2, <1>4 DEF Done, Checked
  <2> QED
    BY <1>1, <1>2, <1>3, <2>1, Stutters
<1>5. CASE pc'[t] = "unlock"
  <2>1. pc[t] = "body" /\ pos[t] >= count /\ out'[t] = out[t]
    BY <1>5 DEF ForEachNext, ApplyReturn, CallbackRemoves, Body, Goto, TypeOK
  <2>2. Storing = {}
    BY <2>1, StoringAlone DEF Inside
  <2>3. Servers = table /\ count = Len(table)
    BY <2>2, SlotsFound
  <2>4. out[t] = table
    <3>1. out[t] = SubSeq(table, 1, pos[t]) /\ pos[t] = Len(table)
      BY <1>2, <2>1, <2>3 DEF ForEachSnapshot, Inside, TypeOK
    <3>2. SubSeq(table, 1, Len(table)) = table
      BY SubSeqFull DEF TypeOK
    <3> QED
      BY <3>1, <3>2
  <2>5. /\ table = Abstract!Effect(table, call[t])
        /\ table = Abstract!Answer(table, call[t])
    BY <1>2 DEF Abstract!Effect, Abstract!Answer
  <2>6. ~Done(t) /\ Done(t)' /\ ~Checked(t)
    BY <1>1, <1>2, <1>5, <2>1 DEF Done, Checked
  <2> QED
    BY <1>1, <1>2, <1>3, <2>1, <2>3, <2>4, <2>5, <2>6, Performs
<1> QED
  BY <1>4, <1>5

LEMMA OthersRefine ==
  ASSUME RInv, NEW t \in Threads, Lock(t) \/ Unlock(t)
  PROVE  UNCHANGED <<Servers, Status, call, Result>>
<1> USE DEF RInv, IInv
<1>1. Local(t) /\ UNCHANGED <<call, table, out>>
  BY StepsAreLocal DEF Progress, Lock, Unlock
<1>2. \/ pc[t] = "lock" /\ pc'[t] = "body"
      \/ pc[t] = "unlock" /\ pc'[t] = "return"
  BY DEF Lock, Unlock, Goto, TypeOK
<1>3. Servers' = Servers
  BY <1>1, <1>2, ServersSame
<1>4. (Done(t)' <=> Done(t)) /\ (Checked(t)' <=> Checked(t))
  BY <1>1, <1>2 DEF Done, Checked
<1> QED
  BY <1>1, <1>2, <1>3, <1>4, Stutters

LEMMA ReturnRefines ==
  ASSUME RInv, NEW t \in Threads, Return(t)
  PROVE  Abstract!Finish(t)
<1> USE DEF RInv, IInv
<1>1. Local(t) /\ UNCHANGED <<call, table, out>>
  BY StepsAreLocal DEF Progress, Return
<1>2. pc[t] = "return" /\ pc'[t] = "idle"
  BY DEF Return, Goto, TypeOK
<1>3. Servers' = Servers
  BY <1>1, <1>2, ServersSame
<1>4. Status[t] = "done" /\ Result[t] = out[t]
  BY <1>2, StatusOf DEF Done
<1>5. Status'[t] = "idle"
  BY <1>2 DEF Status
<1>6. Result'[t] = out[t]
  BY <1>1, <1>5 DEF Result
<1>7. Result' = Result
  BY <1>1, <1>4, <1>6, StatusLocal DEF Result
<1> QED
  BY <1>1, <1>3, <1>4, <1>5, <1>7, StatusLocal DEF Abstract!Finish

LEMMA NextRefines ==
  RInv /\ [Next]_vars => [Abstract!Next]_Abstract!absVars
<1> SUFFICES ASSUME RInv, [Next]_vars
             PROVE  [Abstract!Next]_Abstract!absVars
  OBVIOUS
<1>1. CASE UNCHANGED vars
  <2>1. UNCHANGED <<Servers, Status, call, Result>>
    BY <1>1 DEF vars, Servers, Storing, Status, Result, Done, Checked
  <2> QED
    BY <2>1 DEF Abstract!absVars
<1>2. CASE Next
  <2>1. PICK t \in Threads : Calls(t) \/ Progress(t) \/ CallbackRemoves(t)
    BY <1>2 DEF Next
  <2>2. \/ Abstract!Invoke(t) \/ Abstract!Check(t) \/ Abstract!Perform(t)
        \/ Abstract!Finish(t)
        \/ UNCHANGED <<Servers, Status, call, Result>>
    BY <2>1, CallsRefine, ReadCountRefines, CheckIndexRefines, AddGrowRefines,
       AddStoreRefines, RemoveRefines, SearchRefines, TakeIndexRefines,
       ForEachRefines, OthersRefine, ReturnRefines
    DEF Progress
  <2> QED
    BY <2>2 DEF Abstract!Next, Abstract!absVars
<1> QED
  BY <1>1, <1>2

(* For any number of threads the operations of server_table.c answer what  *)
(* TableSpec answers: add_server, remove_server, for_each_server,          *)
(* table_count, getfs_id and getfs_pred behave as if they happened at one  *)
(* instant, and the slot a lookup answers is the first that held a         *)
(* requested server at that instant.  getfs_index is two instants, as the  *)
(* slot it has found to exist may be past the end when it is taken.        *)
THEOREM Implements == Spec => Linearizable
<1>1. Spec => []RInv
  BY InitRInv, NextRInv, PTL DEF Spec
<1>2. Spec => Abstract!Spec
  BY <1>1, InitRefines, NextRefines, PTL DEF Spec, Abstract!Spec
<1> QED
  BY <1>2 DEF Linearizable
=============================================================================
