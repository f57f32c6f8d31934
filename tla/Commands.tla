------------------------------ MODULE Commands ------------------------------
(***************************************************************************)
(* The command line of the client: main of src/client/client.c with        *)
(* arg_parser.c and the file of settings.c.                                *)
(*                                                                         *)
(* The file has a host and a port.  set-ip and set-port each read the      *)
(* other half, empty the file, and write both.  A half that cannot be read *)
(* comes from memory nobody has written.  Every command is a process of    *)
(* its own; several may run at a time, in several terminals, any may be    *)
(* killed, and the disk may be too full for the file that was emptied.     *)
(***************************************************************************)
EXTENDS Integers

CONSTANTS
  Shells,     (* the terminals                                             *)
  Ips,        (* the addresses set-ip is given                             *)
  Numbers,    (* the numbers set-port is given                             *)
  Null        (* get_master_host's result without a file; a missing file   *)

VARIABLES
  file,       (* the host and port in CONFIG_FILE                          *)
  pc,         (* where each terminal's command is                          *)
  cmd,        (* op and the value to set                                   *)
  host, port, (* the values its process has read                           *)
  clean,      (* no command that sets something has run during this one    *)
  set         (* what was set, as far as the file must have it             *)

vars == <<file, pc, cmd, host, port, clean, set>>

Remote == {"ls", "read", "write", "append", "delete"}
Setters == {"set-ip", "set-port"}
Ops == Remote \cup Setters

(* Strings and numbers that may be anything.                               *)
AnyHost == "any"
AnyPort == -1

ASSUME CommandsAssumption ==
  /\ Numbers \subseteq Nat
  /\ Ips \cap {"unknown", AnyHost, "none", "unread"} = {}
  /\ Null \notin Ips \cup {"unknown", AnyHost, "none", "unread"}

Hosts == Ips \cup {"unknown", AnyHost, "none", Null}
Nothing == [ip |-> "none", port |-> AnyPort]
UnsignedShort(n) == n % 65536
IsPort(n) == n \in Int /\ AnyPort <= n /\ n < 65536

(* The file after fopen with "w".                                          *)
Empty == [host |-> "none", port |-> AnyPort]

Steps == {"idle", "main", "other", "fopen", "fprintf", "args", "connect"}

NoCommand == [op |-> "ls", value |-> 0]

TypeOK ==
  /\ file.host \in Hosts /\ IsPort(file.port)
  /\ pc \in [Shells -> Steps]
  /\ host \in [Shells -> Hosts \cup {"unread"}]
  /\ \A p \in Shells : IsPort(port[p]) \/ port[p] = -2

Init ==
  /\ file = [host |-> Null, port |-> AnyPort]
  /\ pc = [p \in Shells |-> "idle"]
  /\ cmd = [p \in Shells |-> NoCommand]
  /\ host = [p \in Shells |-> "unread"]
  /\ port = [p \in Shells |-> -2]
  /\ clean = [p \in Shells |-> TRUE]
  /\ set = Nothing

Goto(p, step) == pc' = [pc EXCEPT ![p] = step]

Exit(p) ==
  /\ Goto(p, "idle")
  /\ cmd' = [cmd EXCEPT ![p] = NoCommand]
  /\ host' = [host EXCEPT ![p] = "unread"]
  /\ port' = [port EXCEPT ![p] = -2]
  /\ clean' = [clean EXCEPT ![p] = TRUE]

-----------------------------------------------------------------------------
(* What set-ip and set-port are given.  set-ip takes any string: one that  *)
(* is no address reads back as anything.                                   *)
Values(op) == CASE op = "set-ip" -> Ips \cup {AnyHost}
                [] op = "set-port" -> Numbers
                [] OTHER -> {0}

(* A command that sets something is running in terminal p.                 *)
Sets(p) == pc[p] # "idle" /\ cmd[p].op \in Setters

(* A command that arg_parser.c does not accept ends with a message.        *)
Start(p) ==
  /\ pc[p] = "idle"
  /\ \E op \in Ops : \E v \in Values(op) :
       /\ cmd' = [cmd EXCEPT ![p] = [op |-> op, value |-> v]]
       /\ clean' = [q \in Shells |->
                      IF q = p THEN \A r \in Shells : ~Sets(r)
                      ELSE clean[q] /\ (pc[q] # "idle" => op \notin Setters)]
  /\ Goto(p, "main")
  /\ UNCHANGED <<file, host, port, set>>

-----------------------------------------------------------------------------
(* settings.c.                                                             *)

(* get_master_host: nothing of "unknown" matches the format.               *)
HostRead == IF file.host \in Ips \cup {Null} THEN file.host ELSE AnyHost

(* get_master_port: the host must match its format for the port to be      *)
(* read; a host that may be anything may or may not.                       *)
PortRead == CASE file.host = Null -> {0}
              [] file.host = "none" -> {AnyPort}
              [] file.host = AnyHost -> {file.port, AnyPort}
              [] OTHER -> {file.port}

(* main: nothing can be asked before something was set.                    *)
Main(p) ==
  /\ pc[p] = "main"
  /\ IF cmd[p].op \in Remote
     THEN IF HostRead = Null THEN Exit(p)
          ELSE Goto(p, "args") /\ UNCHANGED <<cmd, host, port, clean>>
     ELSE Goto(p, "other") /\ UNCHANGED <<cmd, host, port, clean>>
  /\ UNCHANGED <<file, set>>

(* Variant: set-port does not keep the host.                               *)
ReadOtherNothing(p) ==
  /\ pc[p] = "other"
  /\ IF cmd[p].op = "set-ip"
     THEN \E n \in PortRead : port' = [port EXCEPT ![p] = n] /\ UNCHANGED host
     ELSE host' = [host EXCEPT ![p] = Null] /\ UNCHANGED port
  /\ Goto(p, "fopen")
  /\ UNCHANGED <<file, cmd, clean, set>>

(* set_master_host reads the port, set_master_port the host.               *)
ReadOther(p) ==
  /\ pc[p] = "other"
  /\ IF cmd[p].op = "set-ip"
     THEN \E n \in PortRead : port' = [port EXCEPT ![p] = n] /\ UNCHANGED host
     ELSE host' = [host EXCEPT ![p] = HostRead] /\ UNCHANGED port
  /\ Goto(p, "fopen")
  /\ UNCHANGED <<file, cmd, clean, set>>

(* set_master_address: a file that cannot be opened stays as it is, and    *)
(* nobody is told.                                                         *)
OpenConfig(p) ==
  /\ pc[p] = "fopen"
  /\ \/ Exit(p) /\ UNCHANGED file
     \/ /\ file' = Empty
        /\ Goto(p, "fprintf")
        /\ UNCHANGED <<cmd, host, port, clean>>
  /\ UNCHANGED set

(* Variant: the number is stored as it was given.                          *)
PortGivenWide(n) == n

(* The conversion of atoi's result to an unsigned short.                   *)
PortGiven(n) == UnsignedShort(n)

Written(p) ==
  IF cmd[p].op = "set-ip" THEN [host |-> cmd[p].value, port |-> port[p]]
  ELSE [host |-> IF host[p] = Null THEN "unknown" ELSE host[p],
        port |-> PortGiven(cmd[p].value)]

(* What the file must have after the command: an address with set-ip, and  *)
(* the port that was set before; a port with set-port, and the host that   *)
(* was set before, if there is a host to keep or no file at all.  Nothing  *)
(* of a host that may be anything, and nothing of commands that overlap:   *)
(* those may undo each other.                                              *)
NowSet(p) ==
  LET op == cmd[p].op
      v == cmd[p].value
  IN CASE clean[p] /\ op = "set-ip" /\ v \in Ips -> [set EXCEPT !.ip = v]
       [] clean[p] /\ op = "set-port" /\ host[p] \in Ips \cup {Null} ->
            [set EXCEPT !.port = UnsignedShort(v)]
       [] OTHER -> Nothing

(* fprintf and fclose; when the disk is full the file stays empty, and     *)
(* nobody is told.                                                         *)
Store(p) ==
  /\ pc[p] = "fprintf"
  /\ \/ file' = Written(p) /\ set' = NowSet(p)
     \/ file' = file /\ set' = Nothing
  /\ Exit(p)

-----------------------------------------------------------------------------
(* operation_handler: the host and the port are arguments of the library's *)
(* function, read in the order the compiler likes.                         *)
ReadArgument(p) ==
  /\ pc[p] = "args"
  /\ \/ /\ host[p] = "unread"
        /\ host' = [host EXCEPT ![p] = HostRead]
        /\ UNCHANGED port
        /\ Goto(p, IF port[p] = -2 THEN "args" ELSE "connect")
     \/ /\ port[p] = -2
        /\ \E n \in PortRead : port' = [port EXCEPT ![p] = n]
        /\ UNCHANGED host
        /\ Goto(p, IF host[p] = "unread" THEN "args" ELSE "connect")
  /\ UNCHANGED <<file, cmd, clean, set>>

(* The operation itself is that of module Client.                          *)
Connect(p) ==
  /\ pc[p] = "connect"
  /\ Exit(p)
  /\ UNCHANGED <<file, set>>

(* The command is interrupted; an emptied file stays empty.                *)
Kill(p) ==
  /\ pc[p] # "idle"
  /\ Exit(p)
  /\ set' = IF pc[p] = "fprintf" THEN Nothing ELSE set
  /\ UNCHANGED file

Next == \E p \in Shells :
  \/ Start(p) \/ Main(p) \/ ReadOther(p) \/ OpenConfig(p) \/ Store(p)
  \/ ReadArgument(p) \/ Connect(p) \/ Kill(p)

Spec == Init /\ [][Next]_vars

-----------------------------------------------------------------------------
(* Properties.                                                             *)

(* A command that no setter overlaps goes to the host and the port that    *)
(* were set.  They are set by a set-ip or set-port that wrote the file     *)
(* without overlapping another setter, and stay set, however often and in  *)
(* whatever order either half is rewritten from what could be read of the  *)
(* other, until a setter overlaps another one, is killed or fails between  *)
(* emptying the file and writing it, or sets what is no address: then      *)
(* nothing is promised until the next set-ip or set-port.  A port is       *)
(* promised when there was no file before it, or a host to keep: the order *)
(* set-port, set-port, set-ip may lose it.                                 *)
ConnectsWhereSet ==
  \A p \in Shells : pc[p] = "connect" /\ clean[p] =>
    /\ set.ip # "none" => host[p] = set.ip
    /\ set.port # AnyPort => port[p] = set.port
=============================================================================
