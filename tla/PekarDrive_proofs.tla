------------------------- MODULE PekarDrive_proofs -------------------------
(***************************************************************************)
(* The safety properties of the whole system, for every set of workers and *)
(* clients, every backlog, and every number of boots and crashes.          *)
(***************************************************************************)
EXTENDS PekarDrive, Wire_proofs

(* The messages that can be on their way to host h, or be handled by it.   *)
Allowed ==
  [h \in Hosts |->
     {m \in Conn : /\ m.op = "REGISTER" => m.arg \in Workers
                   /\ m.token = "worker" => m.arg \in Trusted
                   /\ h \in Workers \ Trusted => m.token # "master"}]

(* Who is not waiting, and who is not handling a connection.               *)
WorkersIdle ==
  \A w \in Workers :
    wpc[w] \notin {"handle", "reply"} => active[w].from = Nobody

MainIdle ==
  /\ Open(Main) => mpc \in {"listing", "writing"}
  /\ mpc \in {"off", "closed", "accept", "restart"} =>
       active[Master].from = Nobody

AdminIdle == Open(Admin) => apc = "pong"

ClientsIdle == \A c \in Clients : Open(c) => cpc[c] = "wait"

TableOK ==
  /\ \A k \in 1..Len(table) : table[k].host \in Trusted
  /\ IdsInOrder
  /\ LoopInTable

(* The inductive invariant.                                                *)
IInv ==
  /\ Sound(Allowed)
  /\ WorkerTypeOK
  /\ MasterTypeOK
  /\ TableOK
  /\ ClientTypeOK
  /\ crashes \in 0..MaxCrashes
  /\ WorkersIdle
  /\ MainIdle
  /\ AdminIdle
  /\ ClientsIdle

-----------------------------------------------------------------------------

LEMMA AllowedClosed == Closed(Allowed)
<1>1. Allowed \in [Hosts -> SUBSET Conn]
  BY DEF Allowed
<1>2. ASSUME NEW h \in Hosts
      PROVE  NoConn \in Allowed[h]
  BY <1>2, WireAssumption DEF Allowed, NoConn, Conn, Callers, MsgTypes
<1>3. ASSUME NEW h \in Hosts, NEW m \in Allowed[h]
      PROVE  [m EXCEPT !.from = Nobody] \in Allowed[h]
  BY <1>3 DEF Allowed, Conn
<1>4. ASSUME NEW h \in Hosts, NEW m \in Allowed[h], m.arg \in Names,
             NEW n \in Names
      PROVE  [m EXCEPT !.arg = n] \in Allowed[h]
  <2>1. m \in Conn /\ m.arg \notin Workers
    BY <1>4, WireAssumption DEF Allowed
  <2>2. m.op # "REGISTER" /\ m.token # "worker"
    BY <1>4, <2>1, WorkerAssumption DEF Allowed
  <2> QED
    BY <1>4, <2>1, <2>2 DEF Allowed, Conn
<1> QED
  BY <1>1, <1>2, <1>3, <1>4 DEF Closed

LEMMA InitIInv ==
  ASSUME Init
  PROVE  IInv
<1>1. WireInv(Allowed)
  <2>1. \A h \in Hosts : NoConn \in Allowed[h] /\ NoConn \in Conn
    BY AllowedClosed DEF Closed
  <2>2. \A T : <<>> \in Seq(T)
    OBVIOUS
  <2>3. link \in [Callers -> Link]
    BY EndedType DEF Init, WireInit, States
  <2> QED
    BY <2>1, <2>2, <2>3 DEF Init, WireInit, WireInv, Carries
<1>2. \A c \in Callers : ~Open(c)
  BY DEF Init, WireInit, Open, Ended
<1>3. \A h \in Hosts : active[h].from = Nobody /\ queue[h] = <<>>
  BY DEF Init, WireInit, NoConn
<1>4. Accounted
  <2>1. ASSUME NEW c \in Callers
        PROVE  Places(c) = {}
    <3>1. ASSUME NEW p \in Hosts \X (0..Backlog)
          PROVE  ~At(c, p[1], p[2])
      BY <1>3, NobodyCalls DEF At
    <3> QED
      BY <3>1 DEF Places
  <2> QED
    BY <1>2, <2>1 DEF Accounted
<1>5. Bounded
  BY <1>3, WireAssumption DEF Bounded
<1>6. WorkerTypeOK
  <2>1. WorkerInit /\ 0 \in 0..MaxBoots
    BY WorkerAssumption DEF Init
  <2> QED
    BY <2>1 DEF WorkerInit, WorkerTypeOK, WorkerSteps, Texts
<1>7. MasterTypeOK
  BY DEF Init, MasterInit, MasterTypeOK, MainSteps, AdminSteps, Faults
<1>8. TableOK
  BY DEF Init, MasterInit, TableOK, IdsInOrder, LoopInTable
<1>9. ClientTypeOK
  BY DEF Init, ClientInit, ClientTypeOK, NoRequest, Texts
<1>10. crashes \in 0..MaxCrashes
  BY CrashAssumption DEF Init
<1>11. WorkersIdle /\ MainIdle /\ AdminIdle /\ ClientsIdle
  BY <1>2, <1>3 DEF WorkersIdle, MainIdle, AdminIdle, ClientsIdle, Hosts, Callers
<1> QED
  BY <1>1, <1>4, <1>5, <1>6, <1>7, <1>8, <1>9, <1>10, <1>11 DEF IInv, Sound

-----------------------------------------------------------------------------
(* A step of one process leaves alone what belongs to the others.          *)

LEMMA KeepWorkers ==
  ASSUME WorkerTypeOK, WorkersIdle, UNCHANGED workerVars,
         AcceptsOnly({Master})
  PROVE  WorkerTypeOK' /\ WorkersIdle'
<1>1. \A w \in Workers : w \in Hosts \ {Master}
  BY WireAssumption DEF Hosts
<1> QED
  BY <1>1 DEF workerVars, WorkerTypeOK, WorkersIdle, AcceptsOnly

LEMMA KeepMaster ==
  ASSUME MasterTypeOK, TableOK, MainIdle, AdminIdle, UNCHANGED masterVars,
         NEW H, AcceptsOnly(H), Master \notin H, NEW C, OpensOnly(C),
         Main \notin C, Admin \notin C
  PROVE  MasterTypeOK' /\ TableOK' /\ MainIdle' /\ AdminIdle'
<1>1. UNCHANGED <<mpc, apc, mutex, table, workerId, slot, total, listing,
                  aslot, zero, fault>>
  BY DEF masterVars
<1>2. MasterTypeOK' /\ TableOK'
  BY <1>1 DEF MasterTypeOK, TableOK, IdsInOrder, LoopInTable
<1>3. Master \in Hosts /\ Main \in Callers /\ Admin \in Callers
  BY DEF Hosts, Callers
<1> QED
  BY <1>1, <1>2, <1>3 DEF MainIdle, AdminIdle, AcceptsOnly, OpensOnly

LEMMA KeepClients ==
  ASSUME ClientTypeOK, ClientsIdle, UNCHANGED clientVars,
         OpensOnly({Main, Admin})
  PROVE  ClientTypeOK' /\ ClientsIdle'
<1>1. \A c \in Clients : c \in Callers \ {Main, Admin}
  BY WireAssumption DEF Callers
<1> QED
  BY <1>1 DEF clientVars, ClientTypeOK, ClientsIdle, OpensOnly

LEMMA Weaken ==
  ASSUME NEW C, NEW H, OpensOnly({}), AcceptsOnly({})
  PROVE  OpensOnly(C) /\ AcceptsOnly(H)
BY DEF OpensOnly, AcceptsOnly

-----------------------------------------------------------------------------
(* Workers.                                                                *)

(* What the step of worker w keeps.                                        *)
WorkerKeeps(w) ==
  /\ Sound(Allowed)'
  /\ OpensOnly({})
  /\ AcceptsOnly({w})
  /\ WorkerTypeOK'
  /\ \A v \in Workers \ {w} : wpc'[v] = wpc[v]
  /\ wpc'[w] \notin {"handle", "reply"} => active'[w].from = Nobody

LEMMA WorkerProgressKeeps ==
  ASSUME IInv, NEW w \in Workers, WorkerProgress(w)
  PROVE  WorkerKeeps(w)
<1> USE AllowedClosed
<1>1. /\ w \in Hosts /\ Master \in Hosts /\ Sound(Allowed) /\ WorkerTypeOK
      /\ wpc[w] \notin {"handle", "reply"} => active[w].from = Nobody
  BY DEF Hosts, IInv, WorkersIdle
<1>2. CASE RegisterWorker(w)
  <2> DEFINE token == IF w \in Trusted THEN "worker" ELSE "other"
  <2>1. [from |-> Nobody, op |-> "REGISTER", arg |-> w, token |-> token]
          \in Allowed[Master]
    BY <1>1, WireAssumption DEF Allowed, Conn, MsgTypes
  <2>2. Sound(Allowed)' /\ OpensOnly({}) /\ AcceptsOnly({})
    BY <1>1, <1>2, <2>1, PostSound DEF RegisterWorker
  <2>3. active'[w].from = Nobody
    BY <1>1, <1>2 DEF RegisterWorker
  <2>4. WorkerTypeOK' /\ \A v \in Workers \ {w} : wpc'[v] = wpc[v]
    BY <1>1, <1>2 DEF RegisterWorker, WorkerGoto, WorkerTypeOK, WorkerSteps
  <2> QED
    BY <2>2, <2>3, <2>4, Weaken DEF WorkerKeeps
<1>3. CASE WorkerListens(w)
  <2>1. Sound(Allowed)' /\ OpensOnly({}) /\ AcceptsOnly({})
    BY <1>1, <1>3, ListenSound DEF WorkerListens
  <2>2. active'[w].from = Nobody
    BY <1>1, <1>3 DEF WorkerListens
  <2>3. WorkerTypeOK' /\ \A v \in Workers \ {w} : wpc'[v] = wpc[v]
    BY <1>1, <1>3 DEF WorkerListens, WorkerGoto, WorkerTypeOK, WorkerSteps
  <2> QED
    BY <2>1, <2>2, <2>3, Weaken DEF WorkerKeeps
<1>4. CASE WorkerAccepts(w)
  <2>1. Sound(Allowed)' /\ OpensOnly({}) /\ AcceptsOnly({w})
    BY <1>1, <1>4, TakeSound DEF WorkerAccepts
  <2>2. WorkerTypeOK' /\ wpc' = [wpc EXCEPT ![w] = "handle"]
    BY <1>1, <1>4 DEF WorkerAccepts, WorkerGoto, WorkerTypeOK, WorkerSteps
  <2> QED
    BY <1>1, <2>1, <2>2 DEF WorkerKeeps, WorkerTypeOK
<1>5. CASE WorkerRebinds(w)
  <2>1. /\ Sound(Allowed)' /\ OpensOnly({}) /\ AcceptsOnly({})
        /\ active'[w].from = Nobody
    BY <1>1, <1>5, CloseListenerSound DEF WorkerRebinds
  <2>2. WorkerTypeOK' /\ \A v \in Workers \ {w} : wpc'[v] = wpc[v]
    BY <1>1, <1>5 DEF WorkerRebinds, WorkerGoto, WorkerTypeOK, WorkerSteps
  <2> QED
    BY <2>1, <2>2, Weaken DEF WorkerKeeps
<1>6. CASE WorkerHangsUp(w)
  <2>1. /\ Sound(Allowed)' /\ OpensOnly({}) /\ AcceptsOnly({})
        /\ active'[w].from = Nobody
    BY <1>1, <1>6, HangUpSound DEF WorkerHangsUp
  <2>2. WorkerTypeOK' /\ \A v \in Workers \ {w} : wpc'[v] = wpc[v]
    BY <1>1, <1>6 DEF WorkerHangsUp, WorkerGoto, WorkerTypeOK, WorkerSteps
  <2> QED
    BY <2>1, <2>2, Weaken DEF WorkerKeeps
<1>7. CASE WorkerPing(w) \/ WorkerLs(w) \/ WorkerReplies(w)
  <2>1. PICK text \in Texts, names \in SUBSET Names :
          AnswerAndClose(w, text, names)
    BY <1>1, <1>7 DEF WorkerPing, WorkerLs, WorkerReplies, WorkerTypeOK, Texts
  <2>2. /\ Sound(Allowed)' /\ OpensOnly({}) /\ AcceptsOnly({})
        /\ active'[w].from = Nobody
    BY <1>1, <2>1, AnswerSound
  <2>3. WorkerTypeOK' /\ \A v \in Workers \ {w} : wpc'[v] = wpc[v]
    BY <1>1, <1>7 DEF WorkerPing, WorkerLs, WorkerReplies, WorkerGoto,
                      WorkerTypeOK, WorkerSteps, Texts
  <2> QED
    BY <2>2, <2>3, Weaken DEF WorkerKeeps
<1>8. CASE WorkerWrite(w) \/ WorkerDelete(w)
  <2>1. Sound(Allowed)' /\ OpensOnly({}) /\ AcceptsOnly({})
    BY <1>1, <1>8, SameSound DEF WorkerWrite, WorkerDelete
  <2>2. wpc' = [wpc EXCEPT ![w] = "reply"]
    BY <1>8 DEF WorkerWrite, WorkerDelete, WorkerGoto
  <2>3. \A m : Decoded(m) \subseteq Names
    BY DEF Decoded
  <2>4. WorkerTypeOK'
    <3>1. wpc' \in [Workers -> WorkerSteps] /\ boots' \in 0..MaxBoots
      BY <1>1, <1>8, <2>2 DEF WorkerWrite, WorkerDelete, WorkerTypeOK, WorkerSteps
    <3>2. CASE WorkerDelete(w)
      BY <1>1, <3>1, <3>2 DEF WorkerDelete, WorkerTypeOK, Texts
    <3>3. CASE WorkerWrite(w)
      <4>1. written' \in [Workers -> Texts]
        BY <1>1, <3>3 DEF WorkerWrite, WorkerTypeOK, Texts
      <4>2. disk' \in [Workers -> SUBSET Names]
        BY <1>1, <2>3, <3>3 DEF WorkerWrite, WorkerTypeOK
      <4> QED
        BY <3>1, <4>1, <4>2 DEF WorkerTypeOK
    <3> QED
      BY <1>8, <3>2, <3>3
  <2> QED
    BY <1>1, <2>1, <2>2, <2>4, Weaken DEF WorkerKeeps, WorkerTypeOK
<1> QED
  BY <1>2, <1>3, <1>4, <1>5, <1>6, <1>7, <1>8 DEF WorkerProgress

LEMMA WorkerDiesKeeps ==
  ASSUME IInv, NEW w \in Workers, WorkerDies(w)
  PROVE  WorkerKeeps(w)
<1>1. w \in Hosts /\ Sound(Allowed) /\ WorkerTypeOK
  BY DEF Hosts, IInv
<1>2. /\ Sound(Allowed)' /\ OpensOnly({}) /\ AcceptsOnly({})
      /\ active'[w].from = Nobody
  BY <1>1, AllowedClosed, DiesSound DEF WorkerDies
<1>3. WorkerTypeOK' /\ \A v \in Workers \ {w} : wpc'[v] = wpc[v]
  BY <1>1 DEF WorkerDies, WorkerGoto, WorkerTypeOK, WorkerSteps, Texts
<1> QED
  BY <1>2, <1>3, Weaken DEF WorkerKeeps

LEMMA StartWorkerKeeps ==
  ASSUME IInv, NEW w \in Workers, StartWorker(w)
  PROVE  WorkerKeeps(w)
<1>1. /\ Sound(Allowed) /\ WorkerTypeOK
      /\ wpc[w] \notin {"handle", "reply"} => active[w].from = Nobody
  BY DEF IInv, WorkersIdle
<1>2. Sound(Allowed)' /\ OpensOnly({}) /\ AcceptsOnly({})
  BY <1>1, SameSound DEF StartWorker
<1>3. active'[w].from = Nobody
  BY <1>1 DEF StartWorker, wire
<1>4. WorkerTypeOK' /\ \A v \in Workers \ {w} : wpc'[v] = wpc[v]
  BY <1>1, WorkerAssumption
  DEF StartWorker, WorkerGoto, WorkerTypeOK, WorkerSteps
<1> QED
  BY <1>2, <1>3, <1>4, Weaken DEF WorkerKeeps

(* A step of a worker disturbs nobody else.                                *)
LEMMA WorkerIInv ==
  ASSUME IInv, NEW w \in Workers, WorkerKeeps(w),
         UNCHANGED <<masterVars, clientVars>>, crashes' \in 0..MaxCrashes
  PROVE  IInv'
<1>1. OpensOnly({}) /\ AcceptsOnly({w}) /\ Master # w
  BY WireAssumption DEF WorkerKeeps
<1>2. MasterTypeOK' /\ TableOK' /\ MainIdle' /\ AdminIdle'
  BY <1>1, KeepMaster DEF IInv
<1>3. OpensOnly({Main, Admin})
  BY <1>1 DEF OpensOnly
<1>4. ClientTypeOK' /\ ClientsIdle'
  BY <1>3, KeepClients DEF IInv
<1>5. WorkersIdle'
  BY <1>1 DEF WorkerKeeps, AcceptsOnly, IInv, WorkersIdle, Hosts
<1> QED
  BY <1>2, <1>4, <1>5 DEF IInv, WorkerKeeps

-----------------------------------------------------------------------------
(* The master's main thread.                                               *)

MasterKeeps ==
  /\ Sound(Allowed)'
  /\ OpensOnly({Main, Admin})
  /\ AcceptsOnly({Master})
  /\ MasterTypeOK'
  /\ TableOK'
  /\ MainIdle'
  /\ AdminIdle'

LEMMA MasterFacts ==
  ASSUME IInv
  PROVE  /\ Closed(Allowed) /\ Sound(Allowed)
         /\ Master \in Hosts /\ Main \in Callers /\ Admin \in Callers
         /\ Main # Admin
         /\ MasterTypeOK /\ TableOK /\ MainIdle /\ AdminIdle
BY AllowedClosed, WireAssumption DEF IInv, Hosts, Callers

(* A step of the main thread that registers nobody and, if its own         *)
(* connection is open afterwards, waits for the answer.                    *)
LEMMA MainQuiet ==
  ASSUME IInv, Sound(Allowed)', OpensOnly({Main}), AcceptsOnly({Master}),
         Open(Main)' => mpc' \in {"listing", "writing"},
         mpc' \in {"off", "closed", "accept", "restart"} =>
           active'[Master].from = Nobody,
         UNCHANGED <<adminVars, tableVars>>,
         mpc' \in MainSteps, slot' \in Nat, total' \in Nat,
         listing' \subseteq Names,
         zero' \in {"stdin", "free", "listener", "stray"}, fault' \in Faults,
         LoopInTable'
  PROVE  MasterKeeps
<1>1. UNCHANGED <<apc, mutex, aslot, table, workerId>>
  BY DEF adminVars, tableVars
<1>2. MasterTypeOK'
  BY <1>1, MasterFacts DEF MasterTypeOK
<1>3. TableOK'
  BY <1>1, MasterFacts DEF TableOK, IdsInOrder
<1>4. MainIdle'
  BY DEF MainIdle
<1>5. AdminIdle'
  BY <1>1, MasterFacts DEF AdminIdle, OpensOnly
<1>6. OpensOnly({Main, Admin})
  BY DEF OpensOnly
<1> QED
  BY <1>2, <1>3, <1>4, <1>5, <1>6 DEF MasterKeeps

LEMMA MainStaysShut ==
  ASSUME IInv, OpensOnly({}), mpc \notin {"listing", "writing"}
  PROVE  ~Open(Main)'
BY MasterFacts DEF MainIdle, OpensOnly

LEMMA MasterDiesKeeps ==
  ASSUME IInv, NEW cause \in Faults, MasterDies(cause)
  PROVE  MasterKeeps
<1>1. {Main, Admin} \in SUBSET Callers
  BY DEF Callers
<1>2. /\ Sound(Allowed)' /\ OpensOnly({}) /\ AcceptsOnly({})
      /\ active'[Master].from = Nobody /\ ~Open(Main)' /\ ~Open(Admin)'
  BY <1>1, MasterFacts, DiesSound DEF MasterDies
<1>3. MasterTypeOK'
  BY DEF MasterDies, MasterTypeOK, MainSteps, AdminSteps
<1>4. TableOK'
  BY DEF MasterDies, TableOK, IdsInOrder, LoopInTable
<1>5. MainIdle' /\ AdminIdle'
  BY <1>2 DEF MainIdle, AdminIdle
<1> QED
  BY <1>2, <1>3, <1>4, <1>5, Weaken DEF MasterKeeps

(* main: the listener and the queue.                                       *)
LEMMA ListenerKeeps ==
  ASSUME IInv, \/ StartMaster \/ MasterListens \/ MasterAccepts
               \/ ServerRestart
  PROVE  MasterKeeps
<1> USE MasterFacts DEF MasterTypeOK
<1>1. CASE StartMaster
  <2>1. Sound(Allowed)' /\ OpensOnly({}) /\ AcceptsOnly({})
    BY <1>1, SameSound DEF StartMaster
  <2>2. active'[Master].from = Nobody
    BY <1>1 DEF StartMaster, wire, MainIdle
  <2>3. ~Open(Main)'
    BY <1>1, <2>1, MainStaysShut DEF StartMaster
  <2> QED
    BY <1>1, <2>1, <2>2, <2>3, MainQuiet, Weaken
    DEF StartMaster, MainGoto, loopVars, LoopInTable, MainSteps, Faults
<1>2. CASE MasterListens
  <2>1. Sound(Allowed)' /\ OpensOnly({}) /\ AcceptsOnly({})
    BY <1>2, ListenSound DEF MasterListens
  <2>2. active'[Master].from = Nobody
    BY <1>2 DEF MasterListens, MainIdle
  <2>3. ~Open(Main)'
    BY <1>2, <2>1, MainStaysShut DEF MasterListens
  <2> QED
    BY <1>2, <2>1, <2>2, <2>3, MainQuiet, Weaken
    DEF MasterListens, MainGoto, loopVars, LoopInTable, MainSteps
<1>3. CASE MasterAccepts
  <2>1. active[Master].from = Nobody
    BY <1>3 DEF MasterAccepts, MainIdle
  <2>2. Sound(Allowed)' /\ OpensOnly({}) /\ AcceptsOnly({Master})
    BY <1>3, <2>1, TakeSound DEF MasterAccepts
  <2>3. ~Open(Main)'
    BY <1>3, <2>2, MainStaysShut DEF MasterAccepts
  <2>4. OpensOnly({Main})
    BY <2>2 DEF OpensOnly
  <2> QED
    BY <1>3, <2>2, <2>3, <2>4, MainQuiet
    DEF MasterAccepts, MainGoto, loopVars, LoopInTable, MainSteps
<1>4. CASE ServerRestart
  <2>1. /\ Sound(Allowed)' /\ OpensOnly({}) /\ AcceptsOnly({})
        /\ active'[Master].from = Nobody
    BY <1>4, CloseListenerSound DEF ServerRestart
  <2>2. ~Open(Main)'
    BY <1>4, <2>1, MainStaysShut DEF ServerRestart
  <2> QED
    BY <1>4, <2>1, <2>2, MainQuiet, Weaken
    DEF ServerRestart, MainGoto, loopVars, LoopInTable, MainSteps
<1> QED
  BY <1>1, <1>2, <1>3, <1>4

(* handle_client, but for REGISTER: an answer or none, and the restart.    *)
LEMMA ReplyKeeps ==
  ASSUME IInv, mpc \notin {"listing", "writing"},
         \/ HangUp(Master)
         \/ \E text \in Texts, names \in SUBSET Names :
              AnswerAndClose(Master, text, names),
         MainGoto("restart"),
         slot' \in Nat, total' \in Nat, listing' \subseteq Names,
         UNCHANGED <<adminVars, tableVars, zero, fault>>
  PROVE  MasterKeeps
<1>1. /\ Sound(Allowed)' /\ OpensOnly({}) /\ AcceptsOnly({})
      /\ active'[Master].from = Nobody
  BY MasterFacts, HangUpSound, AnswerSound
<1>2. ~Open(Main)'
  BY <1>1, MainStaysShut
<1>3. mpc' = "restart" /\ zero' = zero /\ fault' = fault
  BY DEF MainGoto
<1> QED
  BY <1>1, <1>2, <1>3, MainQuiet, Weaken, MasterFacts
  DEF LoopInTable, MainSteps, MasterTypeOK

LEMMA HandlerKeeps ==
  ASSUME IInv, \/ NothingRead \/ Unavailable \/ RejectRegister \/ ReadFile
               \/ AppendFile \/ EndLoop
  PROVE  MasterKeeps
<1> USE MasterFacts DEF MasterTypeOK
<1>1. CASE NothingRead \/ RejectRegister
  <2>1. HangUp(Master) /\ mpc = "handle" /\ MainGoto("restart")
    BY <1>1 DEF NothingRead, RejectRegister, Request
  <2> QED
    BY <1>1, <2>1, ReplyKeeps DEF NothingRead, RejectRegister, loopVars
<1>2. CASE Unavailable \/ AppendFile
  <2>1. /\ mpc = "handle" /\ MainGoto("restart")
        /\ \E text \in Texts, names \in SUBSET Names :
             AnswerAndClose(Master, text, names)
    BY <1>2 DEF Unavailable, AppendFile, Request, Reply, Texts
  <2> QED
    BY <1>2, <2>1, ReplyKeeps DEF Unavailable, AppendFile, loopVars
<1>3. CASE ReadFile
  BY <1>3, MasterDiesKeeps DEF ReadFile, Faults
<1>4. CASE EndLoop
  <2>1. /\ mpc = "loop" /\ MainGoto("restart")
        /\ \E text \in Texts, names \in SUBSET Names :
             AnswerAndClose(Master, text, names)
    BY <1>4 DEF EndLoop, Reply, Texts
  <2> QED
    BY <1>4, <2>1, ReplyKeeps DEF EndLoop
<1> QED
  BY <1>1, <1>2, <1>3, <1>4

(* add_worker: what is registered is a worker with the right token.        *)
LEMMA RegisterKeeps ==
  ASSUME IInv, Register
  PROVE  MasterKeeps
<1> USE MasterFacts DEF MasterTypeOK
<1> DEFINE e == [id |-> workerId, host |-> active[Master].arg]
<1>1. /\ Sound(Allowed)' /\ OpensOnly({}) /\ AcceptsOnly({})
      /\ active'[Master].from = Nobody
  BY HangUpSound DEF Register
<1>2. active[Master].arg \in Trusted
  <2>1. active[Master] \in Allowed[Master]
    BY DEF Sound, WireInv, Carries
  <2> QED
    BY <2>1 DEF Register, Allowed
<1>3. e \in [id : Nat, host : Workers]
  BY <1>2, WorkerAssumption
<1>4. /\ table' = Append(table, e) /\ workerId' = workerId + 1
      /\ mpc' = "restart"
      /\ UNCHANGED <<apc, mutex, aslot, slot, total, listing, zero, fault>>
  BY DEF Register, MainGoto, adminVars, loopVars
<1>5. MasterTypeOK'
  BY <1>3, <1>4 DEF MainSteps
<1>6. TableOK'
  <2>1. /\ Len(table') = Len(table) + 1 /\ Len(table) \in Nat
        /\ \A k \in 1..Len(table) : table'[k] = table[k]
        /\ table'[Len(table) + 1] = e
    BY <1>3, <1>4, AppendProperties
  <2>2. ASSUME NEW k \in 1..Len(table')
        PROVE  table'[k].host \in Trusted
    <3>1. k \in 1..Len(table) \/ k = Len(table) + 1
      BY <2>1
    <3> QED
      BY <1>2, <2>1, <3>1 DEF TableOK
  <2>3. ASSUME NEW k \in 1..Len(table')
        PROVE  /\ table'[k].id < workerId'
               /\ \A j \in 1..(k - 1) : table'[j].id < table'[k].id
    <3>1. CASE k \in 1..Len(table)
      <4>0. table[k].id \in Nat
        <5>1. table[k] \in [id : Nat, host : Workers]
          BY <3>1, ElementOfSeq
        <5> QED
          BY <5>1
      <4>1. table[k].id < workerId
        BY <3>1 DEF TableOK, IdsInOrder
      <4>2. \A j \in 1..(k - 1) : j \in 1..Len(table)
        BY <2>1, <3>1
      <4> QED
        BY <1>4, <2>1, <3>1, <4>0, <4>1, <4>2 DEF TableOK, IdsInOrder
    <3>2. CASE k = Len(table) + 1
      <4>1. \A j \in 1..(k - 1) : j \in 1..Len(table)
        BY <2>1, <3>2
      <4> QED
        BY <1>4, <2>1, <3>2, <4>1 DEF TableOK, IdsInOrder
    <3> QED
      BY <2>1, <3>1, <3>2
  <2> QED
    BY <1>4, <2>2, <2>3 DEF TableOK, IdsInOrder, LoopInTable
<1>7. MainIdle' /\ AdminIdle'
  <2>1. ~Open(Main)'
    BY <1>1, MainStaysShut DEF Register, Request
  <2> QED
    BY <1>1, <1>4, <2>1 DEF MainIdle, AdminIdle, OpensOnly
<1> QED
  BY <1>1, <1>5, <1>6, <1>7, Weaken DEF MasterKeeps

(* worker_ls and find_by_file.                                             *)
LEMMA LoopKeeps ==
  ASSUME IInv, \/ StartLoop \/ AskWorker \/ WorkerListed \/ SkipWorker
  PROVE  MasterKeeps
<1> USE MasterFacts DEF MasterTypeOK
<1>1. CASE StartLoop
  <2>1. Sound(Allowed)' /\ OpensOnly({}) /\ AcceptsOnly({})
    BY <1>1, SameSound DEF StartLoop
  <2>2. ~Open(Main)'
    BY <1>1, <2>1, MainStaysShut DEF StartLoop, Request
  <2>3. mpc' = "loop" /\ total' = Len(table) /\ table' = table
    BY <1>1 DEF StartLoop, MainGoto, tableVars
  <2>4. LoopInTable'
    BY <2>3 DEF LoopInTable
  <2> QED
    BY <1>1, <2>1, <2>2, <2>3, <2>4, MainQuiet, Weaken
    DEF StartLoop, MainSteps
<1>2. CASE AskWorker
  <2>1. slot + 1 \in 1..Len(table)
    BY <1>2 DEF AskWorker, TableOK, LoopInTable
  <2> DEFINE h == table[slot + 1].host
  <2>2. h \in Trusted /\ h \in Hosts
    BY <2>1, WorkerAssumption DEF TableOK, Hosts
  <2>3. [from |-> Main, op |-> "LS", arg |-> NoName, token |-> "master"]
          \in Allowed[h]
    BY <2>2 DEF Allowed, Conn, MsgTypes
  <2>4. ~Open(Main)
    BY <1>2 DEF AskWorker, MainIdle
  <2>5. Sound(Allowed)' /\ OpensOnly({Main}) /\ AcceptsOnly({})
    BY <1>2, <2>2, <2>3, <2>4, DialSound DEF AskWorker
  <2>6. LoopInTable'
    BY <1>2 DEF AskWorker, MainGoto, tableVars, loopVars, TableOK, LoopInTable
  <2>7. AcceptsOnly({Master})
    BY <2>5 DEF AcceptsOnly
  <2> QED
    BY <1>2, <2>5, <2>6, <2>7, MainQuiet
    DEF AskWorker, MainGoto, loopVars, MainSteps
<1>3. CASE WorkerListed
  <2>1. ~Open(Main) /\ link[Main].names \subseteq Names
    BY <1>3 DEF WorkerListed, HasAnswer, Open, Sound, WireInv, Link
  <2>2. /\ Sound(Allowed)' /\ OpensOnly({}) /\ AcceptsOnly({})
        /\ ~Open(Main)'
    BY <1>3, <2>1, ResetSound DEF WorkerListed
  <2>3. /\ mpc' \in {"found", "loop"} /\ total' = total /\ table' = table
        /\ mpc' = "found" => slot' = slot
        /\ slot' \in Nat /\ listing' \subseteq Names
    BY <1>3, <2>1 DEF WorkerListed, MainGoto, loopVars, tableVars
  <2>4. LoopInTable'
    BY <1>3, <2>3 DEF WorkerListed, TableOK, LoopInTable
  <2> QED
    BY <1>3, <2>2, <2>3, <2>4, MainQuiet, Weaken DEF WorkerListed, MainSteps
<1>4. CASE SkipWorker
  <2>1. ~Open(Main)
    BY <1>4 DEF SkipWorker, HasFailed, Refused, Open
  <2>2. /\ Sound(Allowed)' /\ OpensOnly({}) /\ AcceptsOnly({})
        /\ ~Open(Main)'
    BY <1>4, <2>1, ResetSound DEF SkipWorker
  <2>3. LoopInTable'
    BY <1>4 DEF SkipWorker, MainGoto, tableVars, TableOK, LoopInTable
  <2> QED
    BY <1>4, <2>2, <2>3, MainQuiet, Weaken DEF SkipWorker, MainGoto, MainSteps
<1> QED
  BY <1>1, <1>2, <1>3, <1>4

(* The ways the master ends.                                               *)
LEMMA FaultKeeps ==
  ASSUME IInv, \/ SearchNull \/ MainSigpipe \/ DeleteSigpipe \/ WriteCrashes
               \/ AdminSigpipe
  PROVE  MasterKeeps
<1>1. PICK cause \in Faults : MasterDies(cause)
  BY DEF SearchNull, MainSigpipe, DeleteSigpipe, WriteCrashes, AdminSigpipe,
         Faults
<1> QED
  BY <1>1, MasterDiesKeeps

(* worker_delete.                                                          *)
LEMMA DeleteKeeps ==
  ASSUME IInv, SendDelete
  PROVE  MasterKeeps
<1> USE MasterFacts DEF MasterTypeOK
<1>1. slot + 1 \in 1..Len(table)
  BY DEF SendDelete, TableOK, LoopInTable
<1> DEFINE h == table[slot + 1].host
           arg == active[Master].arg
<1>2. h \in Trusted /\ h \in Hosts
  BY <1>1, WorkerAssumption DEF TableOK, Hosts
<1>3. [from |-> Nobody, op |-> "DELETE", arg |-> arg, token |-> "master"]
        \in Allowed[h]
  BY <1>2 DEF Allowed, Conn, MsgTypes, Sound, WireInv, Carries
<1>4. \A c \in Callers : Open(c)' <=> Open(c) /\ active[Master].from # c
  BY DEF SendDelete, AnsweredLinks, Open
<1>5. link' \in [Callers -> Link]
  BY AnsweredType DEF SendDelete, Sound, Texts
<1>6. active' = [active EXCEPT ![Master] = NoConn] /\ listening' = listening
  BY DEF SendDelete
<1>7. /\ Sound(Allowed)' /\ OpensOnly({}) /\ AcceptsOnly({})
      /\ active'[Master].from = Nobody
  <2>1. CASE Post(h, "DELETE", arg, "master")
    BY <2>1, <1>2, <1>3, <1>4, <1>5, <1>6, PostCloseSound
  <2>2. CASE UNCHANGED queue
    BY <2>2, <1>4, <1>5, <1>6, CloseSound
  <2> QED
    BY <2>1, <2>2 DEF SendDelete
<1>8. ~Open(Main)'
  BY <1>7, MainStaysShut DEF SendDelete
<1>9. LoopInTable'
  BY DEF SendDelete, MainGoto, LoopInTable
<1> QED
  BY <1>7, <1>8, <1>9, MainQuiet, Weaken DEF SendDelete, MainGoto, MainSteps

(* worker_write.                                                           *)
LEMMA StartWriteKeeps ==
  ASSUME IInv, StartWrite
  PROVE  MasterKeeps
<1> USE MasterFacts DEF MasterTypeOK
<1> DEFINE h == table[1].host
<1>1. h \in Trusted /\ h \in Hosts
  <2>1. Len(table) \in Nat \ {0}
    BY EmptySeq DEF StartWrite
  <2> QED
    BY <2>1, WorkerAssumption DEF TableOK, Hosts
<1>2. PICK n \in Decoded(active[Master].arg) :
        Dial(Main, h, "WRITE", n, "master")
  BY DEF StartWrite
<1>3. [from |-> Main, op |-> "WRITE", arg |-> n, token |-> "master"]
        \in Allowed[h]
  BY <1>1 DEF Allowed, Conn, MsgTypes, Decoded
<1>4. ~Open(Main)
  BY DEF StartWrite, Request, MainIdle
<1>5. Sound(Allowed)' /\ OpensOnly({Main}) /\ AcceptsOnly({})
  BY <1>1, <1>2, <1>3, <1>4, DialSound
<1>6. AcceptsOnly({Master})
  BY <1>5 DEF AcceptsOnly
<1> QED
  BY <1>5, <1>6, MainQuiet
  DEF StartWrite, MainGoto, loopVars, LoopInTable, MainSteps

LEMMA EndWriteKeeps ==
  ASSUME IInv, NEW text \in Texts, EndWrite(text), ~Open(Main),
         zero' \in {"stdin", "free", "listener", "stray"}
  PROVE  MasterKeeps
<1> USE MasterFacts
<1>1. AnsweredLinks(Master, text, {}) \in [Callers -> Link]
  BY AnsweredType DEF Sound
<1>2. link' \in [Callers -> Link]
  BY <1>1, EndedType DEF EndWrite, States
<1>3. \A c \in Callers : Open(c)' <=> Open(c) /\ active[Master].from # c
  BY DEF EndWrite, AnsweredLinks, Open, Ended
<1>4. /\ Sound(Allowed)' /\ OpensOnly({}) /\ AcceptsOnly({})
      /\ active'[Master].from = Nobody
  BY <1>2, <1>3, CloseSound DEF EndWrite
<1>5. ~Open(Main)'
  BY <1>3
<1> QED
  BY <1>4, <1>5, MainQuiet, Weaken
  DEF EndWrite, MainGoto, loopVars, LoopInTable, MainSteps, MasterTypeOK

LEMMA WriteKeeps ==
  ASSUME IInv, Written \/ WriteFails \/ WriteDecodesNothing \/ WriteReadsZero
  PROVE  MasterKeeps
<1> USE MasterFacts
<1>1. ~Open(Main)
  BY DEF Written, WriteFails, WriteDecodesNothing, WriteReadsZero, HasAnswer,
         Refused, Open
<1>2. PICK text \in Texts : EndWrite(text)
  BY DEF Written, WriteFails, WriteDecodesNothing, WriteReadsZero, Texts,
         Sound, WireInv, Link
<1>3. zero' \in {"stdin", "free", "listener", "stray"}
  BY DEF Written, WriteFails, WriteDecodesNothing, WriteReadsZero, MasterTypeOK
<1> QED
  BY <1>1, <1>2, <1>3, EndWriteKeeps

-----------------------------------------------------------------------------
(* The master's ping thread.                                               *)

LEMMA AdminKeeps ==
  ASSUME IInv, \/ StartRound \/ EndRound \/ Ping \/ Pong \/ PongFails
               \/ PongReadsZero
  PROVE  MasterKeeps
<1> USE MasterFacts
<1>1. UNCHANGED <<mpc, slot, total, listing, table, workerId, fault>>
  BY DEF StartRound, EndRound, Ping, Pong, PongFails, PongReadsZero, mainVars,
         tableVars
<1>2. TableOK'
  BY <1>1 DEF TableOK, IdsInOrder, LoopInTable
<1>3. MasterTypeOK'
  <2>1. /\ apc' \in AdminSteps /\ mutex' \in {Admin, Nobody} /\ aslot' \in Nat
        /\ zero' \in {"stdin", "free", "listener", "stray"}
    BY DEF StartRound, EndRound, Ping, Pong, PongFails, PongReadsZero,
           MasterTypeOK, AdminSteps
  <2> QED
    BY <1>1, <2>1 DEF MasterTypeOK
<1>4. /\ Sound(Allowed)' /\ OpensOnly({Admin}) /\ AcceptsOnly({})
      /\ AdminIdle'
  <2>1. CASE StartRound \/ EndRound
    <3>1. Sound(Allowed)' /\ OpensOnly({}) /\ AcceptsOnly({})
      BY <2>1, SameSound DEF StartRound, EndRound
    <3>2. ~Open(Admin)'
      BY <2>1, <3>1 DEF StartRound, EndRound, AdminIdle, OpensOnly
    <3> QED
      BY <3>1, <3>2, Weaken DEF AdminIdle
  <2>2. CASE Ping
    <3>1. aslot + 1 \in 1..Len(table)
      BY <2>2 DEF Ping, MasterTypeOK
    <3> DEFINE h == table[aslot + 1].host
    <3>2. h \in Trusted /\ h \in Hosts
      BY <3>1, WorkerAssumption DEF TableOK, Hosts
    <3>3. [from |-> Admin, op |-> "PING", arg |-> NoName, token |-> "master"]
            \in Allowed[h]
      BY <3>2 DEF Allowed, Conn, MsgTypes
    <3>4. ~Open(Admin)
      BY <2>2 DEF Ping, AdminIdle
    <3>5. Sound(Allowed)' /\ OpensOnly({Admin}) /\ AcceptsOnly({})
      BY <2>2, <3>2, <3>3, <3>4, DialSound DEF Ping
    <3> QED
      BY <2>2, <3>5 DEF Ping, AdminIdle
  <2>3. CASE Pong \/ PongFails \/ PongReadsZero
    <3>1. ~Open(Admin)
      BY <2>3 DEF Pong, PongFails, PongReadsZero, HasAnswer, HasFailed,
                  Refused, Open
    <3>2. /\ Sound(Allowed)' /\ OpensOnly({}) /\ AcceptsOnly({})
          /\ ~Open(Admin)'
      BY <2>3, <3>1, ResetSound DEF Pong, PongFails, PongReadsZero
    <3> QED
      BY <3>2, Weaken DEF AdminIdle
  <2> QED
    BY <2>1, <2>2, <2>3
<1>5. MainIdle'
  BY <1>1, <1>4 DEF MainIdle, OpensOnly, AcceptsOnly
<1>6. OpensOnly({Main, Admin}) /\ AcceptsOnly({Master})
  BY <1>4 DEF OpensOnly, AcceptsOnly
<1> QED
  BY <1>2, <1>3, <1>4, <1>5, <1>6 DEF MasterKeeps

(* A step of the master disturbs nobody else.                              *)
LEMMA MasterIInv ==
  ASSUME IInv, MasterKeeps, UNCHANGED <<workerVars, clientVars>>,
         crashes' \in 0..MaxCrashes
  PROVE  IInv'
<1>1. WorkerTypeOK' /\ WorkersIdle'
  BY KeepWorkers DEF IInv, MasterKeeps
<1>2. ClientTypeOK' /\ ClientsIdle'
  BY KeepClients DEF IInv, MasterKeeps
<1> QED
  BY <1>1, <1>2 DEF IInv, MasterKeeps

-----------------------------------------------------------------------------
(* Clients, and the timeouts of everybody.                                 *)

(* What the step of client c keeps.                                        *)
ClientKeeps(c) ==
  /\ Sound(Allowed)'
  /\ OpensOnly({c})
  /\ AcceptsOnly({})
  /\ ClientTypeOK'
  /\ \A d \in Clients \ {c} : cpc'[d] = cpc[d]
  /\ Open(c)' => cpc'[c] = "wait"

LEMMA CallKeeps ==
  ASSUME IInv, NEW c \in Clients, CallMaster(c)
  PROVE  ClientKeeps(c)
<1>1. /\ c \in Callers /\ Sound(Allowed) /\ ClientTypeOK /\ ~Open(c)
  BY DEF Callers, IInv, ClientsIdle, CallMaster
<1>2. PICK op \in ClientOps, h \in Targets, n \in CallNames \cup {NoName} :
        /\ request' = [request EXCEPT ![c] = [op |-> op, file |-> n]]
        /\ Dial(c, h, op, n, "other")
  BY DEF CallMaster
<1>3. /\ op \in {"LS", "WRITE", "READ", "APPEND", "DELETE"}
      /\ n \in Names \cup {NoName} /\ h \in Hosts
  BY ClientAssumption
<1>4. [from |-> c, op |-> op, arg |-> n, token |-> "other"] \in Allowed[h]
  BY <1>1, <1>3 DEF Allowed, Conn, MsgTypes
<1>5. Sound(Allowed)' /\ OpensOnly({c}) /\ AcceptsOnly({})
  BY <1>1, <1>2, <1>3, <1>4, AllowedClosed, DialSound
<1>6. ClientTypeOK'
  BY <1>1, <1>2, <1>3 DEF CallMaster, ClientTypeOK, MsgTypes
<1>7. (\A d \in Clients \ {c} : cpc'[d] = cpc[d]) /\ cpc'[c] = "wait"
  BY <1>1 DEF CallMaster, ClientTypeOK
<1> QED
  BY <1>5, <1>6, <1>7 DEF ClientKeeps

LEMMA FinishKeeps ==
  ASSUME IInv, NEW c \in Clients, ClientProgress(c)
  PROVE  ClientKeeps(c)
<1>1. c \in Callers /\ Sound(Allowed) /\ ClientTypeOK
  BY DEF Callers, IInv
<1>2. CASE ClientReturns(c)
  <2>1. Sound(Allowed)' /\ OpensOnly({}) /\ AcceptsOnly({})
    BY <1>1, <1>2, SameSound DEF ClientReturns
  <2>2. ~Open(c)'
    BY <1>1, <1>2, <2>1 DEF ClientReturns, IInv, ClientsIdle, OpensOnly
  <2>3. ClientTypeOK' /\ \A d \in Clients \ {c} : cpc'[d] = cpc[d]
    BY <1>1, <1>2 DEF ClientReturns, ClientTypeOK, NoRequest, Texts
  <2> QED
    BY <2>1, <2>2, <2>3, Weaken DEF ClientKeeps
<1>3. CASE CallRefused(c) \/ Receive(c) \/ ReceiveNothing(c)
  <2>1. PICK text \in Texts : Finish(c, text)
    BY <1>1, <1>3 DEF CallRefused, Receive, ReceiveNothing, Texts, Sound,
                      WireInv, Link
  <2>2. ~Open(c)
    BY <1>3 DEF CallRefused, Receive, ReceiveNothing, HasAnswer, HasFailed, Open
  <2>3. /\ Sound(Allowed)' /\ OpensOnly({}) /\ AcceptsOnly({})
        /\ ~Open(c)'
    BY <1>1, <2>1, <2>2, ResetSound DEF Finish
  <2>4. ClientTypeOK' /\ \A d \in Clients \ {c} : cpc'[d] = cpc[d]
    BY <1>1, <2>1 DEF Finish, ClientTypeOK
  <2> QED
    BY <2>3, <2>4, Weaken DEF ClientKeeps
<1> QED
  BY <1>2, <1>3 DEF ClientProgress

LEMMA ClientDiesKeeps ==
  ASSUME IInv, NEW c \in Clients, ClientDies(c)
  PROVE  ClientKeeps(c)
<1>1. c \in Callers /\ Sound(Allowed) /\ ClientTypeOK
  BY DEF Callers, IInv
<1>2. Sound(Allowed)' /\ OpensOnly({}) /\ AcceptsOnly({})
  BY <1>1, AllowedClosed, GoneSound DEF ClientDies
<1>3. ~Open(c)'
  BY <1>1 DEF ClientDies, Open, Ended, Sound, WireInv
<1>4. ClientTypeOK' /\ \A d \in Clients \ {c} : cpc'[d] = cpc[d]
  BY <1>1 DEF ClientDies, ClientTypeOK, NoRequest
<1> QED
  BY <1>2, <1>3, <1>4, Weaken DEF ClientKeeps

LEMMA ClientIInv ==
  ASSUME IInv, NEW c \in Clients, ClientKeeps(c),
         UNCHANGED <<workerVars, masterVars>>, crashes' \in 0..MaxCrashes
  PROVE  IInv'
<1>1. /\ OpensOnly({c}) /\ AcceptsOnly({}) /\ AcceptsOnly({Master})
      /\ Main # c /\ Admin # c
  BY WireAssumption DEF ClientKeeps, AcceptsOnly
<1>2. MasterTypeOK' /\ TableOK' /\ MainIdle' /\ AdminIdle'
  BY <1>1, KeepMaster DEF IInv
<1>3. WorkerTypeOK' /\ WorkersIdle'
  BY <1>1, KeepWorkers DEF IInv
<1>4. ClientsIdle'
  BY <1>1 DEF ClientKeeps, OpensOnly, IInv, ClientsIdle, Callers
<1> QED
  BY <1>2, <1>3, <1>4 DEF IInv, ClientKeeps

LEMMA TimeoutIInv ==
  ASSUME IInv, NEW c \in Callers, Timeout(c),
         UNCHANGED <<workerVars, masterVars, clientVars, crashes>>
  PROVE  IInv'
<1>1. Sound(Allowed)' /\ OpensOnly({}) /\ AcceptsOnly({})
  BY AllowedClosed, TimeoutSound DEF IInv
<1>2. OpensOnly({Main, Admin}) /\ AcceptsOnly({Master})
  BY <1>1, Weaken
<1>3. MasterTypeOK' /\ TableOK' /\ MainIdle' /\ AdminIdle'
  BY <1>1, KeepMaster DEF IInv
<1>4. WorkerTypeOK' /\ WorkersIdle' /\ ClientTypeOK' /\ ClientsIdle'
  BY <1>2, KeepWorkers, KeepClients DEF IInv
<1> QED
  BY <1>1, <1>3, <1>4 DEF IInv

-----------------------------------------------------------------------------
(* Every step of the system.                                               *)

LEMMA MainKeeps ==
  ASSUME IInv, MainProgress \/ AdminProgress \/ ReadsOfZero \/ StartMaster
  PROVE  MasterKeeps
<1>1. CASE MainProgress
  BY <1>1, ListenerKeeps, HandlerKeeps, RegisterKeeps, LoopKeeps, FaultKeeps,
     DeleteKeeps, StartWriteKeeps, WriteKeeps
  DEF MainProgress, MainLocks
<1>2. CASE AdminProgress
  BY <1>2, AdminKeeps, FaultKeeps DEF AdminProgress
<1>3. CASE ReadsOfZero
  BY <1>3, AdminKeeps, WriteKeeps DEF ReadsOfZero
<1>4. CASE StartMaster
  BY <1>4, ListenerKeeps
<1> QED
  BY <1>1, <1>2, <1>3, <1>4

LEMMA StutterIInv ==
  ASSUME IInv, UNCHANGED vars
  PROVE  IInv'
<1>1. UNCHANGED <<wire, workerVars, masterVars, clientVars, crashes>>
  BY DEF vars
<1>2. Sound(Allowed)' /\ OpensOnly({}) /\ AcceptsOnly({})
  BY <1>1, SameSound DEF IInv
<1>3. OpensOnly({Main, Admin}) /\ AcceptsOnly({Master})
  BY <1>2, Weaken
<1>4. MasterTypeOK' /\ TableOK' /\ MainIdle' /\ AdminIdle'
  BY <1>1, <1>2, KeepMaster DEF IInv
<1>5. WorkerTypeOK' /\ WorkersIdle' /\ ClientTypeOK' /\ ClientsIdle'
  BY <1>1, <1>3, KeepWorkers, KeepClients DEF IInv
<1> QED
  BY <1>1, <1>2, <1>4, <1>5 DEF IInv

LEMMA NextIInv ==
  ASSUME IInv, Next
  PROVE  IInv'
<1>0. crashes \in 0..MaxCrashes
  BY DEF IInv
<1>1. ASSUME NEW w \in Workers, WorkerStep(w)
      PROVE  IInv'
  BY <1>0, <1>1, WorkerProgressKeeps, WorkerIInv DEF WorkerStep
<1>2. CASE MainStep \/ AdminStep \/ ZeroStep
  BY <1>0, <1>2, MainKeeps, MasterIInv DEF MainStep, AdminStep, ZeroStep
<1>3. ASSUME NEW c \in Clients, ClientStep(c)
      PROVE  IInv'
  BY <1>0, <1>3, FinishKeeps, ClientIInv DEF ClientStep
<1>4. ASSUME NEW c \in Callers, TimeoutStep(c)
      PROVE  IInv'
  BY <1>4, TimeoutIInv DEF TimeoutStep
<1>5. CASE StartStep
  <2>1. ASSUME NEW w \in Workers, StartWorker(w),
               UNCHANGED <<masterVars, clientVars, crashes>>
        PROVE  IInv'
    BY <1>0, <2>1, StartWorkerKeeps, WorkerIInv
  <2>2. CASE StartMaster /\ UNCHANGED <<workerVars, clientVars, crashes>>
    BY <1>0, <2>2, MainKeeps, MasterIInv
  <2>3. ASSUME NEW c \in Clients, CallMaster(c),
               UNCHANGED <<workerVars, masterVars, crashes>>
        PROVE  IInv'
    BY <1>0, <2>3, CallKeeps, ClientIInv
  <2> QED
    BY <1>5, <2>1, <2>2, <2>3 DEF StartStep
<1>6. CASE Crash
  <2>1. crashes' \in 0..MaxCrashes
    BY <1>0, <1>6, CrashAssumption DEF Crash
  <2>2. ASSUME NEW w \in Workers, WorkerDies(w),
               UNCHANGED <<masterVars, clientVars>>
        PROVE  IInv'
    BY <2>1, <2>2, WorkerDiesKeeps, WorkerIInv
  <2>3. CASE MasterDies("killed") /\ UNCHANGED <<workerVars, clientVars>>
    BY <2>1, <2>3, MasterDiesKeeps, MasterIInv DEF Faults
  <2>4. ASSUME NEW c \in Clients, ClientDies(c),
               UNCHANGED <<workerVars, masterVars>>
        PROVE  IInv'
    BY <2>1, <2>4, ClientDiesKeeps, ClientIInv
  <2> QED
    BY <1>6, <2>2, <2>3, <2>4 DEF Crash
<1> QED
  BY <1>1, <1>2, <1>3, <1>4, <1>5, <1>6 DEF Next

(* IInv holds in every reachable state.                                    *)
LEMMA Inductive == Spec => []IInv
<1>1. Init => IInv
  BY InitIInv
<1>2. IInv /\ [Next]_vars => IInv'
  BY NextIInv, StutterIInv
<1> QED
  BY <1>1, <1>2, PTL DEF Spec

-----------------------------------------------------------------------------

(* Every variable has its type: no message that is not in the protocol is  *)
(* on its way, and the bounds of the model are kept.                       *)
THEOREM TypeCorrect == Spec => []TypeOK
<1>1. IInv => TypeOK
  BY DEF IInv, TypeOK, Sound, WireInv, Carries, WireTypeOK
<1> QED
  BY <1>1, Inductive, PTL

(* Whatever is closed, reset, timed out or killed, and in which order,     *)
(* a caller that waits has its connection in one place, the queue of one   *)
(* listener or the hands of one host, and a caller that does not wait has  *)
(* none anywhere; only a listener has a queue.                             *)
THEOREM Connections == Spec => []ConnectionsAccounted
<1>1. IInv => ConnectionsAccounted
  BY AccountedCounts DEF IInv, Sound
<1> QED
  BY <1>1, Inductive, PTL

(* worker_ls and find_by_file never index a slot that is not in the table, *)
(* with the registrations of any number of workers between two of their    *)
(* steps.                                                                  *)
THEOREM LoopsStayInTable == Spec => []LoopInTable
<1>1. IInv => LoopInTable
  BY DEF IInv, TableOK
<1> QED
  BY <1>1, Inductive, PTL

(* No two entries of the table have one id, and the counter is ahead of    *)
(* them all, also after the master has been restarted.                     *)
THEOREM Ids == Spec => []IdsInOrder
<1>1. IInv => IdsInOrder
  BY DEF IInv, TableOK
<1> QED
  BY <1>1, Inductive, PTL

(* A worker without the right token is never registered, and no message    *)
(* with the master's token, which is what it takes to store a file, is     *)
(* ever in its queue.                                                      *)
THEOREM Trust == Spec => []OnlyTrustedWorkers
<1>1. ASSUME IInv, NEW w \in Workers \ Trusted
      PROVE  /\ ~InTable(w)
             /\ \A k \in 1..Len(queue[w]) : queue[w][k].token # "master"
  <2>1. ~InTable(w)
    BY <1>1 DEF IInv, TableOK, InTable
  <2>2. w \in Hosts /\ queue[w] \in Seq(Allowed[w])
    BY <1>1 DEF IInv, Sound, WireInv, Carries, Hosts
  <2>3. \A k \in 1..Len(queue[w]) : queue[w][k] \in Allowed[w]
    BY <2>2, ElementOfSeq
  <2> QED
    BY <1>1, <2>1, <2>2, <2>3 DEF Allowed
<1>2. IInv => OnlyTrustedWorkers
  BY <1>1 DEF OnlyTrustedWorkers
<1> QED
  BY <1>2, Inductive, PTL
=============================================================================
