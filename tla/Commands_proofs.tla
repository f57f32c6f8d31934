-------------------------- MODULE Commands_proofs --------------------------
(***************************************************************************)
(* Proofs about Commands, for any number of terminals and any addresses    *)
(* and numbers.                                                            *)
(***************************************************************************)
EXTENDS Commands, TLAPS

Commands == [op : Ops, value : Ips \cup Numbers \cup {0, AnyHost}]

Types ==
  /\ TypeOK
  /\ port \in [Shells -> Int]
  /\ cmd \in [Shells -> Commands]
  /\ clean \in [Shells -> BOOLEAN]
  /\ set \in [ip : Ips \cup {"none"}, port : Int]

(* What a command has when it gets somewhere.                              *)
Reached(p) ==
  /\ pc[p] # "idle" => cmd[p].value \in Values(cmd[p].op)
  /\ pc[p] \in {"other", "fopen", "fprintf"} => cmd[p].op \in Setters
  /\ pc[p] \in {"fopen", "fprintf"} =>
       IF cmd[p].op = "set-ip" THEN IsPort(port[p]) ELSE host[p] \in Hosts
  /\ pc[p] \in {"idle", "main", "other"} => host[p] = "unread" /\ port[p] = -2
  /\ pc[p] = "connect" => host[p] # "unread" /\ port[p] # -2

(* While a command that is not disturbed runs, no other one sets anything, *)
(* and what it has read is what was set.                                   *)
Alone(p) ==
  clean[p] /\ pc[p] # "idle" => \A q \in Shells \ {p} : ~Sets(q)

Undisturbed(p) ==
  clean[p] =>
    /\ set.ip # "none" /\ host[p] # "unread" => host[p] = set.ip
    /\ set.port # AnyPort /\ port[p] # -2 => port[p] = set.port

(* The file has what was set, except while a command rewrites it.          *)
Rewriting == \E p \in Shells : pc[p] = "fprintf"

Kept ==
  /\ set.ip # "none" /\ ~Rewriting => file.host = set.ip
  /\ set.port # AnyPort /\ ~Rewriting =>
       file.port = set.port /\ file.host \in Ips \cup {"unknown"}

IInv ==
  /\ Types
  /\ \A p \in Shells : Reached(p) /\ Alone(p) /\ Undisturbed(p)
  /\ Kept

-----------------------------------------------------------------------------

LEMMA InitIInv == Init => IInv
<1> SUFFICES ASSUME Init
             PROVE  IInv
  OBVIOUS
<1>1. Types
  BY DEF Init, Types, TypeOK, Commands, Ops, Remote, NoCommand, Hosts, IsPort,
         AnyPort, Steps, Nothing
<1>2. \A p \in Shells : Reached(p) /\ Alone(p) /\ Undisturbed(p)
  BY DEF Init, Reached, Alone, Undisturbed
<1>3. Kept
  BY DEF Init, Kept, Nothing
<1> QED
  BY <1>1, <1>2, <1>3 DEF IInv

(* The command of terminal p ends, and changes neither the file nor what   *)
(* was set.                                                                *)
LEMMA ExitTypes ==
  ASSUME IInv, NEW p \in Shells, Exit(p)
  PROVE  /\ pc' \in [Shells -> Steps] /\ pc' = [pc EXCEPT ![p] = "idle"]
         /\ host' \in [Shells -> Hosts \cup {"unread"}]
         /\ port' \in [Shells -> Int] /\ cmd' \in [Shells -> Commands]
         /\ clean' \in [Shells -> BOOLEAN]
         /\ \A q \in Shells : IsPort(port'[q]) \/ port'[q] = -2
         /\ \A q \in Shells : Reached(q)' /\ Alone(q)'
         /\ host'[p] = "unread" /\ port'[p] = -2
         /\ \A q \in Shells \ {p} :
              /\ host'[q] = host[q] /\ port'[q] = port[q] /\ cmd'[q] = cmd[q]
              /\ clean'[q] = clean[q] /\ pc'[q] = pc[q]
<1>1. /\ pc' \in [Shells -> Steps] /\ pc' = [pc EXCEPT ![p] = "idle"]
      /\ host' \in [Shells -> Hosts \cup {"unread"}]
      /\ port' \in [Shells -> Int] /\ clean' \in [Shells -> BOOLEAN]
      /\ host'[p] = "unread" /\ port'[p] = -2
      /\ \A q \in Shells \ {p} :
           /\ host'[q] = host[q] /\ port'[q] = port[q]
           /\ clean'[q] = clean[q] /\ pc'[q] = pc[q] /\ cmd'[q] = cmd[q]
  BY DEF Exit, Goto, IInv, Types, TypeOK, Steps
<1>2. cmd' \in [Shells -> Commands]
  BY DEF Exit, NoCommand, Commands, Ops, Remote, IInv, Types
<1>3. \A q \in Shells : IsPort(port'[q]) \/ port'[q] = -2
  BY <1>1 DEF IInv, Types, TypeOK
<1>4. pc'[p] = "idle"
  BY <1>1
<1>5. ASSUME NEW q \in Shells
      PROVE  Reached(q)' /\ Alone(q)'
  <2>1. CASE q = p
    BY <1>1, <1>4, <2>1 DEF Reached, Alone
  <2>2. CASE q # p
    BY <1>1, <1>4, <2>2 DEF Reached, Alone, Sets, IInv
  <2> QED
    BY <2>1, <2>2
<1> QED
  BY <1>1, <1>2, <1>3, <1>5

(* Most ways to end leave the file and what was set as they are.           *)
LEMMA ExitIInv ==
  ASSUME IInv, NEW p \in Shells, Exit(p), UNCHANGED <<file, set>>,
         pc[p] # "fprintf"
  PROVE  IInv'
<1>1. Types'
  BY ExitTypes DEF IInv, Types, TypeOK
<1>2. \A q \in Shells : Undisturbed(q)'
  BY ExitTypes DEF IInv, Undisturbed
<1>3. Rewriting' <=> Rewriting
  BY ExitTypes DEF Rewriting
<1>4. Kept'
  BY <1>3 DEF IInv, Kept
<1> QED
  BY <1>1, <1>2, <1>4, ExitTypes DEF IInv

LEMMA StartIInv ==
  ASSUME IInv, NEW p \in Shells, Start(p)
  PROVE  IInv'
<1> DEFINE Disturbed(op) ==
      [q \in Shells |-> IF q = p THEN \A r \in Shells : ~Sets(r)
                        ELSE clean[q] /\ (pc[q] # "idle" => op \notin Setters)]
<1>0. PICK op \in Ops : \E v \in Values(op) :
        /\ cmd' = [cmd EXCEPT ![p] = [op |-> op, value |-> v]]
        /\ clean' = Disturbed(op)
  BY DEF Start
<1>1. PICK v \in Values(op) :
        /\ cmd' = [cmd EXCEPT ![p] = [op |-> op, value |-> v]]
        /\ clean' = Disturbed(op)
  BY <1>0
<1>2. /\ pc' = [pc EXCEPT ![p] = "main"] /\ pc[p] = "idle"
      /\ UNCHANGED <<file, host, port, set>>
      /\ clean'[p] => \A q \in Shells : ~Sets(q)
      /\ \A q \in Shells \ {p} :
           clean'[q] => clean[q] /\ (pc[q] # "idle" => op \notin Setters)
      /\ clean' \in [Shells -> BOOLEAN]
  BY <1>1 DEF Start, Goto, IInv, Types
<1>3. cmd' \in [Shells -> Commands]
  BY <1>1 DEF Values, Commands, IInv, Types
<1>4. Types'
  BY <1>2, <1>3 DEF IInv, Types, TypeOK, Steps
<1>5. /\ pc'[p] = "main"
      /\ \A q \in Shells \ {p} : pc'[q] = pc[q] /\ cmd'[q] = cmd[q]
      /\ cmd'[p] = [op |-> op, value |-> v]
  BY <1>1, <1>2 DEF IInv, Types, TypeOK
<1>6. /\ Sets(p)' <=> op \in Setters
      /\ \A q \in Shells \ {p} : Sets(q)' <=> Sets(q)
  BY <1>5 DEF Sets
<1>7. ASSUME NEW q \in Shells
      PROVE  Reached(q)' /\ Alone(q)' /\ Undisturbed(q)'
  <2>1. CASE q = p
    BY <1>1, <1>2, <1>5, <1>6, <2>1 DEF IInv, Reached, Alone, Undisturbed
  <2>2. CASE q # p
    <3>1. Reached(q)' /\ Undisturbed(q)'
      BY <1>2, <1>5, <2>2 DEF IInv, Reached, Undisturbed
    <3>2. Alone(q)'
      BY <1>2, <1>5, <1>6, <2>2 DEF IInv, Alone
    <3> QED
      BY <3>1, <3>2
  <2> QED
    BY <2>1, <2>2
<1>8. Kept'
  <2>1. Rewriting' <=> Rewriting
    BY <1>2, <1>5 DEF Rewriting
  <2> QED
    BY <1>2, <2>1 DEF IInv, Kept
<1> QED
  BY <1>4, <1>7, <1>8 DEF IInv

-----------------------------------------------------------------------------
(* What a command reads is of the right kind, and what was set if nobody   *)
(* disturbs it.                                                            *)
LEMMA Reading ==
  ASSUME IInv
  PROVE  /\ HostRead \in Hosts /\ HostRead # "unread"
         /\ \A n \in PortRead : IsPort(n) /\ n # -2
         /\ set.ip # "none" /\ ~Rewriting => HostRead = set.ip
         /\ set.port # AnyPort /\ ~Rewriting => PortRead = {set.port}
<1>1. HostRead \in Hosts /\ HostRead # "unread"
  BY CommandsAssumption DEF HostRead, Hosts, AnyHost
<1>2. IsPort(file.port) /\ IsPort(AnyPort) /\ IsPort(0)
  BY DEF IInv, Types, TypeOK, IsPort, AnyPort
<1>3. \A n \in PortRead : IsPort(n) /\ n # -2
  BY <1>2 DEF PortRead, IsPort, AnyPort
<1>4. ASSUME set.ip # "none", ~Rewriting
      PROVE  HostRead = set.ip
  BY <1>4 DEF HostRead, IInv, Kept, Types
<1>5. ASSUME set.port # AnyPort, ~Rewriting
      PROVE  PortRead = {set.port}
  <2>1. file.port = set.port /\ file.host \in Ips \cup {"unknown"}
    BY <1>5 DEF IInv, Kept
  <2>2. file.host # Null /\ file.host # "none" /\ file.host # AnyHost
    BY <2>1, CommandsAssumption DEF AnyHost
  <2> QED
    BY <2>1, <2>2 DEF PortRead
<1> QED
  BY <1>1, <1>3, <1>4, <1>5

(* While an undisturbed command reads, nobody rewrites the file.           *)
LEMMA NobodyRewrites ==
  ASSUME IInv, NEW p \in Shells, clean[p], pc[p] \notin {"idle", "fprintf"}
  PROVE  ~Rewriting
<1> SUFFICES ASSUME NEW q \in Shells, pc[q] = "fprintf"
             PROVE  FALSE
  BY DEF Rewriting
<1>1. Sets(q) /\ q # p
  BY DEF IInv, Reached, Sets
<1> QED
  BY <1>1 DEF IInv, Alone

(* A step of p that neither ends its command nor touches the file.         *)
LEMMA ProgressIInv ==
  ASSUME IInv, NEW p \in Shells, NEW step \in Steps \ {"idle", "fprintf"},
         pc[p] \notin {"idle", "fprintf"}, Goto(p, step),
         UNCHANGED <<file, cmd, clean, set>>,
         host' \in [Shells -> Hosts \cup {"unread"}],
         port' \in [Shells -> Int],
         IsPort(port'[p]) \/ port'[p] = -2,
         \A q \in Shells \ {p} : host'[q] = host[q] /\ port'[q] = port[q],
         Reached(p)', Undisturbed(p)'
  PROVE  IInv'
<1>1. /\ pc' \in [Shells -> Steps] /\ pc'[p] = step
      /\ \A q \in Shells \ {p} : pc'[q] = pc[q]
  BY DEF Goto, IInv, Types, TypeOK
<1>2. \A q \in Shells : IsPort(port'[q]) \/ port'[q] = -2
  BY DEF IInv, Types, TypeOK
<1>3. Types'
  BY <1>1, <1>2 DEF IInv, Types, TypeOK
<1>4. ASSUME NEW q \in Shells
      PROVE  Reached(q)' /\ Alone(q)' /\ Undisturbed(q)'
  <2>1. Alone(q)'
    BY <1>1 DEF IInv, Alone, Sets
  <2>2. CASE q = p
    BY <2>1, <2>2
  <2>3. CASE q # p
    BY <1>1, <2>1, <2>3 DEF IInv, Reached, Undisturbed
  <2> QED
    BY <2>2, <2>3
<1>5. Rewriting' <=> Rewriting
  BY <1>1 DEF Rewriting
<1>6. Kept'
  BY <1>5 DEF IInv, Kept
<1> QED
  BY <1>3, <1>4, <1>6 DEF IInv

LEMMA MainIInv ==
  ASSUME IInv, NEW p \in Shells, Main(p)
  PROVE  IInv'
<1>1. pc[p] = "main" /\ UNCHANGED <<file, set>>
  BY DEF Main
<1>2. CASE Exit(p)
  BY <1>1, <1>2, ExitIInv
<1>3. ASSUME NEW step \in {"args", "other"}, Goto(p, step),
             UNCHANGED <<cmd, host, port, clean>>,
             step = "other" => cmd[p].op \notin Remote
      PROVE  IInv'
  <2>1. pc'[p] = step
    BY <1>3 DEF Goto, IInv, Types, TypeOK
  <2>2. cmd[p].op \in Ops
    BY DEF IInv, Types, Commands
  <2>3. Reached(p)'
    BY <1>1, <1>3, <2>1, <2>2 DEF IInv, Reached, Ops
  <2>4. Undisturbed(p)'
    BY <1>1, <1>3 DEF IInv, Undisturbed
  <2>5. step \in Steps \ {"idle", "fprintf"}
    BY DEF Steps
  <2>6. IsPort(port'[p]) \/ port'[p] = -2
    BY <1>3 DEF IInv, Types, TypeOK
  <2> QED
    BY <1>1, <1>3, <2>3, <2>4, <2>5, <2>6, ProgressIInv DEF IInv, Types, TypeOK
<1> QED
  BY <1>1, <1>2, <1>3 DEF Main

LEMMA ReadOtherIInv ==
  ASSUME IInv, NEW p \in Shells, ReadOther(p)
  PROVE  IInv'
<1>1. /\ pc[p] = "other" /\ pc'[p] = "fopen" /\ Goto(p, "fopen")
      /\ UNCHANGED <<file, cmd, clean, set>>
      /\ "fopen" \in Steps \ {"idle", "fprintf"}
  BY DEF ReadOther, Goto, IInv, Types, TypeOK, Steps
<1>2. host[p] = "unread" /\ port[p] = -2
  BY <1>1 DEF IInv, Reached
<1>3. clean[p] => ~Rewriting
  BY <1>1, NobodyRewrites
<1>5. CASE cmd[p].op = "set-ip"
  <2>1. PICK n \in PortRead : port' = [port EXCEPT ![p] = n] /\ host' = host
    BY <1>5 DEF ReadOther
  <2>2. IsPort(n) /\ n # -2 /\ n \in Int
    BY Reading DEF IsPort
  <2>3. /\ port' \in [Shells -> Int] /\ port'[p] = n
        /\ \A q \in Shells \ {p} : port'[q] = port[q]
    BY <2>1, <2>2 DEF IInv, Types
  <2>4. Reached(p)'
    BY <1>1, <1>5, <2>2, <2>3 DEF IInv, Reached
  <2>5. Undisturbed(p)'
    BY <1>1, <1>2, <1>3, <2>1, <2>3, Reading DEF IInv, Undisturbed
  <2> QED
    BY <1>1, <2>1, <2>2, <2>3, <2>4, <2>5, ProgressIInv
       DEF IInv, Types, TypeOK
<1>6. CASE cmd[p].op # "set-ip"
  <2>1. host' = [host EXCEPT ![p] = HostRead] /\ port' = port
    BY <1>6 DEF ReadOther
  <2>2. HostRead \in Hosts /\ HostRead # "unread"
    BY Reading
  <2>3. /\ host' \in [Shells -> Hosts \cup {"unread"}] /\ host'[p] = HostRead
        /\ \A q \in Shells \ {p} : host'[q] = host[q]
    BY <2>1, <2>2 DEF IInv, Types, TypeOK
  <2>4. Reached(p)'
    BY <1>1, <1>6, <2>2, <2>3 DEF IInv, Reached
  <2>5. Undisturbed(p)'
    BY <1>1, <1>2, <1>3, <2>1, <2>3, Reading DEF IInv, Undisturbed
  <2>6. IsPort(port'[p]) \/ port'[p] = -2
    BY <1>2, <2>1
  <2> QED
    BY <1>1, <2>1, <2>3, <2>4, <2>5, <2>6, ProgressIInv DEF IInv, Types, TypeOK
<1> QED
  BY <1>5, <1>6

LEMMA ReadArgumentIInv ==
  ASSUME IInv, NEW p \in Shells, ReadArgument(p)
  PROVE  IInv'
<1>1. pc[p] = "args" /\ UNCHANGED <<file, cmd, clean, set>>
  BY DEF ReadArgument
<1>2. clean[p] => ~Rewriting
  BY <1>1, NobodyRewrites
<1>3. {"args", "connect"} \subseteq Steps \ {"idle", "fprintf"}
  BY DEF Steps
<1>5. CASE /\ host' = [host EXCEPT ![p] = HostRead] /\ port' = port
           /\ Goto(p, IF port[p] = -2 THEN "args" ELSE "connect")
  <2>1. PICK step \in {"args", "connect"} :
          /\ Goto(p, step)
          /\ step = "connect" => port[p] # -2
    BY <1>5
  <2>2. pc'[p] = step
    BY <2>1 DEF Goto, IInv, Types, TypeOK
  <2>3. HostRead \in Hosts /\ HostRead # "unread"
    BY Reading
  <2>4. /\ host' \in [Shells -> Hosts \cup {"unread"}] /\ host'[p] = HostRead
        /\ \A q \in Shells \ {p} : host'[q] = host[q]
    BY <1>5, <2>3 DEF IInv, Types, TypeOK
  <2>5. Reached(p)'
    BY <1>1, <1>5, <2>1, <2>2, <2>3, <2>4 DEF IInv, Reached
  <2>6. Undisturbed(p)'
    BY <1>1, <1>2, <1>5, <2>4, Reading DEF IInv, Undisturbed
  <2>7. IsPort(port'[p]) \/ port'[p] = -2
    BY <1>5 DEF IInv, Types, TypeOK
  <2> QED
    BY <1>1, <1>3, <1>5, <2>1, <2>4, <2>5, <2>6, <2>7, ProgressIInv
       DEF IInv, Types, TypeOK
<1>6. ASSUME NEW n \in PortRead, port' = [port EXCEPT ![p] = n], host' = host,
             Goto(p, IF host[p] = "unread" THEN "args" ELSE "connect")
      PROVE  IInv'
  <2>1. PICK step \in {"args", "connect"} :
          /\ Goto(p, step)
          /\ step = "connect" => host[p] # "unread"
    BY <1>6
  <2>2. pc'[p] = step
    BY <2>1 DEF Goto, IInv, Types, TypeOK
  <2>3. IsPort(n) /\ n # -2 /\ n \in Int
    BY Reading DEF IsPort
  <2>4. /\ port' \in [Shells -> Int] /\ port'[p] = n
        /\ \A q \in Shells \ {p} : port'[q] = port[q]
    BY <1>6, <2>3 DEF IInv, Types
  <2>5. Reached(p)'
    BY <1>1, <1>6, <2>1, <2>2, <2>3, <2>4 DEF IInv, Reached
  <2>6. Undisturbed(p)'
    BY <1>1, <1>2, <1>6, <2>4, Reading DEF IInv, Undisturbed
  <2> QED
    BY <1>1, <1>3, <1>6, <2>1, <2>3, <2>4, <2>5, <2>6, ProgressIInv
       DEF IInv, Types, TypeOK
<1> QED
  BY <1>5, <1>6 DEF ReadArgument

(* The file is emptied: whatever was set is now only in the command.       *)
LEMMA OpenConfigIInv ==
  ASSUME IInv, NEW p \in Shells, OpenConfig(p)
  PROVE  IInv'
<1>1. pc[p] = "fopen" /\ set' = set
  BY DEF OpenConfig
<1>2. CASE Exit(p) /\ file' = file
  BY <1>1, <1>2, ExitIInv
<1>3. CASE /\ file' = Empty /\ Goto(p, "fprintf")
           /\ UNCHANGED <<cmd, host, port, clean>>
  <2>1. /\ pc' \in [Shells -> Steps] /\ pc'[p] = "fprintf"
        /\ \A q \in Shells \ {p} : pc'[q] = pc[q]
    BY <1>3 DEF Goto, IInv, Types, TypeOK, Steps
  <2>2. file'.host \in Hosts /\ IsPort(file'.port)
    BY <1>3 DEF Empty, Hosts, IsPort, AnyPort
  <2>3. Types'
    BY <1>1, <1>3, <2>1, <2>2 DEF IInv, Types, TypeOK
  <2>4. ASSUME NEW q \in Shells
        PROVE  Reached(q)' /\ Alone(q)' /\ Undisturbed(q)'
    <3>1. Undisturbed(q)'
      BY <1>1, <1>3 DEF IInv, Undisturbed
    <3>2. Alone(q)'
      BY <1>1, <1>3, <2>1 DEF IInv, Alone, Sets
    <3>3. Reached(q)'
      BY <1>1, <1>3, <2>1 DEF IInv, Reached
    <3> QED
      BY <3>1, <3>2, <3>3
  <2>5. Rewriting'
    BY <2>1 DEF Rewriting
  <2>6. Kept'
    BY <1>1, <2>5 DEF IInv, Kept
  <2> QED
    BY <2>3, <2>4, <2>6 DEF IInv
<1> QED
  BY <1>2, <1>3 DEF OpenConfig

(* Nothing need be known any more.                                         *)
LEMMA ForgetIInv ==
  ASSUME IInv, NEW p \in Shells, Exit(p),
         file'.host \in Hosts, IsPort(file'.port),
         set' = Nothing
  PROVE  IInv'
<1>1. Types'
  BY ExitTypes DEF IInv, Types, TypeOK, AnyPort, Nothing
<1>2. \A q \in Shells : Undisturbed(q)'
  BY DEF Undisturbed, Nothing
<1>3. Kept'
  BY DEF Kept, Nothing
<1> QED
  BY <1>1, <1>2, <1>3, ExitTypes DEF IInv

LEMMA UnsignedShortIsPort == \A n \in Nat : IsPort(UnsignedShort(n))
<1> SUFFICES ASSUME NEW n \in Nat
             PROVE  IsPort(UnsignedShort(n))
  OBVIOUS
<1>1. n % 65536 \in Int /\ 0 <= n % 65536 /\ n % 65536 < 65536
  OBVIOUS
<1> QED
  BY <1>1 DEF IsPort, UnsignedShort, AnyPort

(* A command that wrote the file without being disturbed wrote what is now *)
(* set, and left what was set before as it was.                            *)
LEMMA StoredIInv ==
  ASSUME IInv, NEW p \in Shells, pc[p] = "fprintf", Exit(p),
         file' = Written(p), set' = NowSet(p)
  PROVE  IInv'
<1> DEFINE v == cmd[p].value
<1>1. /\ cmd[p].op \in Setters
      /\ cmd[p].op = "set-ip" => IsPort(port[p]) /\ v \in Ips \cup {AnyHost}
      /\ cmd[p].op = "set-port" => host[p] \in Hosts /\ v \in Nat
  BY CommandsAssumption DEF IInv, Reached, Values, Setters
<1>2. cmd[p].op = "set-port" => IsPort(UnsignedShort(v))
  BY <1>1, UnsignedShortIsPort
<1>3. file'.host \in Hosts /\ IsPort(file'.port)
  <2>1. CASE cmd[p].op = "set-ip"
    BY <1>1, <2>1 DEF Written, Hosts
  <2>2. CASE cmd[p].op = "set-port"
    BY <1>1, <1>2, <2>2 DEF Written, Hosts, PortGiven
  <2> QED
    BY <1>1, <2>1, <2>2 DEF Setters
<1>4. set \in [ip : Ips \cup {"none"}, port : Int]
  BY DEF IInv, Types
<1>5. CASE set' = Nothing
  BY <1>3, <1>5, ForgetIInv
<1>6. ASSUME clean[p],
             set' \in [ip : Ips \cup {"none"}, port : Int],
             set'.ip # "none" => file'.host = set'.ip,
             set'.port # AnyPort =>
               file'.port = set'.port /\ file'.host \in Ips \cup {"unknown"}
      PROVE  IInv'
  <2>1. Types'
    BY <1>3, <1>6, ExitTypes DEF IInv, Types, TypeOK
  <2>2. ASSUME NEW q \in Shells
        PROVE  Undisturbed(q)'
    <3>1. CASE q = p \/ pc[q] = "idle"
      BY <3>1, ExitTypes DEF IInv, Reached, Undisturbed
    <3>2. CASE q # p /\ pc[q] # "idle"
      <4>1. Sets(p)
        BY <1>1 DEF Sets
      <4>2. ~clean[q]
        BY <3>2, <4>1 DEF IInv, Alone
      <4> QED
        BY <3>2, <4>2, ExitTypes DEF Undisturbed
    <3> QED
      BY <3>1, <3>2
  <2>3. Kept'
    BY <1>6 DEF Kept
  <2> QED
    BY <2>1, <2>2, <2>3, ExitTypes DEF IInv
<1>7. CASE clean[p] /\ cmd[p].op = "set-ip" /\ v \in Ips
  <2>1. set' = [set EXCEPT !.ip = v]
    BY <1>7 DEF NowSet
  <2>2. file' = [host |-> v, port |-> port[p]]
    BY <1>7 DEF Written
  <2>3. set.port # AnyPort => port[p] = set.port
    BY <1>1, <1>7 DEF IInv, Undisturbed, IsPort, AnyPort
  <2> QED
    BY <1>4, <1>6, <1>7, <2>1, <2>2, <2>3
<1>8. CASE /\ clean[p] /\ cmd[p].op = "set-port"
           /\ host[p] \in Ips \cup {Null}
  <2>1. set' = [set EXCEPT !.port = UnsignedShort(v)]
    BY <1>8 DEF NowSet
  <2>2. /\ file'.host = (IF host[p] = Null THEN "unknown" ELSE host[p])
        /\ file'.port = UnsignedShort(v)
    BY <1>8 DEF Written, PortGiven
  <2>3. host[p] # "unread" /\ (host[p] = Null => host[p] \notin Ips)
    BY <1>8, CommandsAssumption
  <2>4. set.ip # "none" => host[p] = set.ip /\ host[p] # Null
    BY <1>4, <1>8, <2>3 DEF IInv, Undisturbed
  <2>5. UnsignedShort(v) \in Int
    BY <1>2, <1>8 DEF IsPort
  <2>6. set' \in [ip : Ips \cup {"none"}, port : Int] /\ set'.ip = set.ip
        /\ set'.port = UnsignedShort(v)
    BY <1>4, <2>1, <2>5
  <2>7. file'.host \in Ips \cup {"unknown"}
    BY <1>8, <2>2
  <2> QED
    BY <1>6, <1>8, <2>2, <2>4, <2>6, <2>7
<1> QED
  BY <1>5, <1>7, <1>8 DEF NowSet

(* A write that fails leaves the file that was emptied.                    *)
LEMMA StoreIInv ==
  ASSUME IInv, NEW p \in Shells, Store(p)
  PROVE  IInv'
<1>1. pc[p] = "fprintf" /\ Exit(p)
  BY DEF Store
<1>2. CASE file' = Written(p) /\ set' = NowSet(p)
  BY <1>1, <1>2, StoredIInv
<1>3. CASE file' = file /\ set' = Nothing
  BY <1>1, <1>3, ForgetIInv DEF IInv, Types, TypeOK
<1> QED
  BY <1>2, <1>3 DEF Store

LEMMA NextIInv == IInv /\ [Next]_vars => IInv'
<1> SUFFICES ASSUME IInv, [Next]_vars
             PROVE  IInv'
  OBVIOUS
<1>1. ASSUME NEW p \in Shells, Connect(p)
      PROVE  IInv'
  BY <1>1, ExitIInv DEF Connect
<1>2. ASSUME NEW p \in Shells, Kill(p)
      PROVE  IInv'
  <2>1. CASE pc[p] = "fprintf"
    BY <1>2, <2>1, ForgetIInv DEF Kill, IInv, Types, TypeOK
  <2>2. CASE pc[p] # "fprintf"
    BY <1>2, <2>2, ExitIInv DEF Kill
  <2> QED
    BY <2>1, <2>2
<1>3. CASE UNCHANGED vars
  BY <1>3 DEF vars, IInv, Types, TypeOK, Reached, Alone, Undisturbed, Kept,
              Rewriting, Sets
<1> QED
  BY <1>1, <1>2, <1>3, StartIInv, MainIInv, ReadOtherIInv, OpenConfigIInv,
     StoreIInv, ReadArgumentIInv DEF Next

LEMMA Inductive == Spec => []IInv
BY InitIInv, NextIInv, PTL DEF Spec

-----------------------------------------------------------------------------
(* The file has a host and a port of settings.c's kinds, and a command has *)
(* read values of those kinds.                                             *)
THEOREM TypeCorrect == Spec => []TypeOK
<1>1. IInv => TypeOK
  BY DEF IInv, Types
<1> QED
  BY <1>1, Inductive, PTL

(* settings.c: what an undisturbed set-ip or set-port has written is what  *)
(* later commands use, for any sequence of them in any number of terminals *)
(* and any addresses and numbers: the half that set_master_host or         *)
(* set_master_port writes back from what it could read is the one that was *)
(* set.  It says nothing after two setters have overlapped, or one has     *)
(* been killed or has failed with the file empty, until the next one.      *)
THEOREM SetIsKept == Spec => []ConnectsWhereSet
<1>1. IInv => ConnectsWhereSet
  BY DEF IInv, Reached, Undisturbed, ConnectsWhereSet
<1> QED
  BY <1>1, Inductive, PTL
=============================================================================
