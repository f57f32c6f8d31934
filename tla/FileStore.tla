----------------------------- MODULE FileStore ------------------------------
(***************************************************************************)
(* The file operations of a worker: f_exec and file_list of                *)
(* src/server/file_exec.c over src/fs/fs.c.                                *)
(*                                                                         *)
(* Threads are the threads of handle_client: one in the build of the       *)
(* Makefile, several with THREADING, which the mutex is there for.  A      *)
(* write first creates the file, then opens it, which empties it, and then *)
(* prints into it.  fs_read_file reads a character at a time into a buffer *)
(* of READ_SIZE, which it makes longer when the character, and not their   *)
(* number, is a multiple of READ_SIZE.  It does not close its file, and    *)
(* file_list does not close its directory: descriptors are used up, and    *)
(* then every fopen fails.  The process may end at any moment; its files   *)
(* stay, and the rm it has started goes on.                                *)
(***************************************************************************)
EXTENDS Integers, Sequences

CONSTANTS
  Threads,    (* the threads that call                                     *)
  Names,      (* file names                                                *)
  Chars,      (* the characters of files                                   *)
  Growers,    (* the characters whose codes are multiples of READ_SIZE     *)
  ReadSize,   (* READ_SIZE of fs.c                                         *)
  Data,       (* the strings that are written                              *)
  DiskSize,   (* the characters the disk has room for at the start         *)
  Descriptors,(* the descriptors that the rest of the process leaves       *)
  Absent,     (* the content of a name that no file has                    *)
  Nobody      (* the owner of a mutex that is free                         *)

ASSUME FileStoreAssumption ==
  /\ Nobody \notin Threads
  /\ Names # {}
  /\ Absent \notin Seq(Chars)
  /\ Data \subseteq Seq(Chars) /\ <<>> \in Data
  /\ Growers \subseteq Chars
  /\ ReadSize \in Nat \ {0}
  /\ {DiskSize, Descriptors} \subseteq Nat

VARIABLES
  files,      (* the content of every name                                 *)
  room,       (* the characters the disk has room for                      *)
  orphans,    (* the files of rm processes that have outlived the worker   *)
  pc,         (* where each thread is                                      *)
  call,       (* the arguments of f_exec: op, name and data                *)
  answer,     (* the struct file_output or file_list                       *)
  mutex,      (* the owner of the mutex of file_exec.c                     *)
  buffer,     (* the characters fs_read_file has read                      *)
  capacity,   (* the length of its buffer                                  *)
  overrun,    (* it has written behind the end of the buffer               *)
  left,       (* the descriptors that are still free                       *)
  before      (* the disk when the mutex was locked; no code reads it      *)

Disk == [files |-> files, room |-> room]

(* What outlives the process.                                              *)
disk == <<files, room, orphans>>
reading == <<buffer, capacity, overrun>>
vars == <<disk, pc, call, answer, mutex, reading, left, before>>

Spec0 == INSTANCE FileSpec WITH
  phase <- [t \in Threads |-> "idle"], leftover <- orphans

Steps == {"idle", "lock", "prepare", "open", "print", "remove", "rm", "list",
          "fopen", "getc", "unlock", "done"}

TypeOK ==
  /\ files \in [Names -> Seq(Chars) \cup {Absent}]
  /\ room \in Nat
  /\ orphans \subseteq Names
  /\ pc \in [Threads -> Steps]
  /\ mutex \in Threads \cup {Nobody}
  /\ capacity \in Nat
  /\ overrun \in BOOLEAN
  /\ left \in 0..Descriptors

Init ==
  /\ files \in [Names -> {Absent} \cup {s \in Data : Len(s) <= 1}]
  /\ room = DiskSize
  /\ orphans = {}
  /\ pc = [t \in Threads |-> "idle"]
  /\ call = [t \in Threads |-> Spec0!NoCall(CHOOSE n \in Names : TRUE)]
  /\ answer = [t \in Threads |-> <<"none">>]
  /\ mutex = Nobody
  /\ buffer = <<>>
  /\ capacity = 0
  /\ overrun = FALSE
  /\ left = Descriptors
  /\ before = Disk

Goto(t, step) == pc' = [pc EXCEPT ![t] = step]
Answer(t, r) == answer' = [answer EXCEPT ![t] = r]
File(t) == files[call[t].name]

-----------------------------------------------------------------------------
(* f_exec and file_list up to the mutex.                                   *)

Call(t) ==
  /\ pc[t] = "idle"
  /\ \E o \in Spec0!Operations, n \in Names, s \in Data :
       /\ Spec0!Takes(o, s)
       /\ call' = [call EXCEPT ![t] = [op |-> o, name |-> n, data |-> s]]
  /\ Goto(t, "lock")
  /\ UNCHANGED <<disk, answer, mutex, reading, left, before>>

(* Where the operation begins.                                             *)
FirstStep(o) == CASE o \in {"write", "append"} -> "prepare"
                  [] o = "delete" -> "remove"
                  [] o = "read" -> "fopen"
                  [] o = "list" -> "list"

(* Variant: the mutex is not waited for.                                   *)
LockNotWaiting(t) ==
  /\ pc[t] = "lock"
  /\ mutex' = t
  /\ before' = Disk
  /\ Goto(t, FirstStep(call[t].op))
  /\ UNCHANGED <<disk, call, answer, reading, left>>

Lock(t) ==
  /\ pc[t] = "lock"
  /\ mutex = Nobody
  /\ mutex' = t
  /\ before' = Disk
  /\ Goto(t, FirstStep(call[t].op))
  /\ UNCHANGED <<disk, call, answer, reading, left>>

Unlock(t) ==
  /\ pc[t] = "unlock"
  /\ mutex' = Nobody
  /\ before' = Disk
  /\ Goto(t, "done")
  /\ UNCHANGED <<disk, call, answer, reading, left>>

Return(t) ==
  /\ pc[t] = "done"
  /\ Goto(t, "idle")
  /\ call' = [call EXCEPT ![t] = Spec0!NoCall(@.name)]
  /\ Answer(t, <<"none">>)
  /\ UNCHANGED <<disk, mutex, reading, left, before>>

-----------------------------------------------------------------------------
(* write_file and fs_write_file.                                           *)

(* Variant: fopen does not run out of descriptors.                         *)
FileExistsAlways(t) == File(t) # Absent

(* file_exists: the file can be opened for reading.                        *)
FileExists(t) == File(t) # Absent /\ left > 0

Refuse(t) ==
  /\ Goto(t, "unlock")
  /\ Answer(t, <<"refused">>)
  /\ UNCHANGED disk

(* Up to the fopen: append wants the file to exist, write creates it.      *)
Prepare(t) ==
  /\ pc[t] = "prepare"
  /\ \/ /\ call[t].op = "append" /\ ~FileExists(t)
        /\ Refuse(t)
     \/ /\ call[t].op = "append" => FileExists(t)
        /\ IF ~FileExists(t) /\ left > 0
           THEN Spec0!Change(call[t].name, <<>>) ELSE UNCHANGED disk
        /\ Goto(t, "open")
        /\ UNCHANGED answer
  /\ UNCHANGED <<orphans, call, mutex, reading, left, before>>

(* fopen with "w" or "a".                                                  *)
Open(t) ==
  /\ pc[t] = "open"
  /\ \/ left = 0 /\ Refuse(t)
     \/ /\ left > 0
        /\ IF call[t].op = "write"
           THEN Spec0!Change(call[t].name, <<>>) ELSE UNCHANGED disk
        /\ Goto(t, "print")
        /\ UNCHANGED answer
  /\ UNCHANGED <<orphans, call, mutex, reading, left, before>>

(* The text s comes behind what the file has.                              *)
Extend(t, s) ==
  Spec0!Change(call[t].name, File(t) \o Spec0!Fitting(s, room))

(* Variant: the count is that of a print nobody flushes.                   *)
WriteNotFlushed(t) ==
  /\ pc[t] = "print"
  /\ Answer(t, <<"count", Len(call[t].data)>>)
  /\ Goto(t, "unlock")
  /\ UNCHANGED <<disk, call, mutex, reading, left, before>>

(* fprintf counts what it puts into the stream; fclose, whose result is    *)
(* not looked at, writes as much of it as the disk has room for.  A text   *)
(* that is larger than the stream's buffer meets a full disk in fprintf,   *)
(* which then returns -1 and leaves some of the text in the file.          *)
PrintText(t) ==
  /\ pc[t] = "print"
  /\ \/ /\ Extend(t, call[t].data)
        /\ Answer(t, <<"count", Len(call[t].data)>>)
     \/ /\ Len(call[t].data) > room
        /\ \E k \in 0..room : Extend(t, SubSeq(call[t].data, 1, k))
        /\ Answer(t, <<"refused">>)
  /\ Goto(t, "unlock")
  /\ UNCHANGED <<orphans, call, mutex, reading, left, before>>

-----------------------------------------------------------------------------
(* fs_delete_file: system starts rm, when the file can be opened.          *)
Remove(t) ==
  /\ pc[t] = "remove"
  /\ \/ FileExists(t) /\ Goto(t, "rm") /\ UNCHANGED answer
     \/ ~FileExists(t) /\ Goto(t, "unlock") /\ Answer(t, <<"deleted">>)
  /\ UNCHANGED <<disk, call, mutex, reading, left, before>>

(* rm has removed the file or failed; what system returns is not looked at.*)
RmEnds(t) ==
  /\ pc[t] = "rm"
  /\ \/ Spec0!Change(call[t].name, Absent)
     \/ UNCHANGED disk
  /\ Answer(t, <<"deleted">>)
  /\ Goto(t, "unlock")
  /\ UNCHANGED <<orphans, call, mutex, reading, left, before>>

(* Variant: the early return of file_list leaves the mutex locked.         *)
ListKeepsLock(t) ==
  /\ pc[t] = "list"
  /\ Answer(t, <<"names", IF left = 0 THEN {} ELSE Spec0!Existing(files)>>)
  /\ Goto(t, IF left = 0 THEN "done" ELSE "unlock")
  /\ left' = IF left = 0 THEN 0 ELSE left - 1
  /\ UNCHANGED <<disk, call, mutex, reading, before>>

(* file_list: a directory that cannot be opened has no names.              *)
List(t) ==
  /\ pc[t] = "list"
  /\ Answer(t, <<"names", IF left = 0 THEN {} ELSE Spec0!Existing(files)>>)
  /\ Goto(t, "unlock")
  /\ left' = IF left = 0 THEN 0 ELSE left - 1
  /\ UNCHANGED <<disk, call, mutex, reading, before>>

-----------------------------------------------------------------------------
(* The process ends, and is started again; its files stay.                 *)
Dies ==
  /\ pc' = [t \in Threads |-> "idle"]
  /\ call' = [t \in Threads |-> Spec0!NoCall(call[t].name)]
  /\ answer' = [t \in Threads |-> <<"none">>]
  /\ mutex' = Nobody
  /\ buffer' = <<>>
  /\ capacity' = 0
  /\ overrun' = FALSE
  /\ left' = Descriptors
  /\ before' = Disk'

(* fs_read_file.  Without the file read_file takes the length of NULL.     *)
Fopen(t) ==
  /\ pc[t] = "fopen"
  /\ \/ ~FileExists(t) /\ UNCHANGED disk /\ Dies
     \/ /\ FileExists(t)
        /\ left' = left - 1
        /\ buffer' = <<>>
        /\ capacity' = ReadSize
        /\ Goto(t, "getc")
        /\ UNCHANGED <<disk, call, answer, mutex, overrun, before>>

(* Variant: the buffer is made as long as what it holds.                   *)
GrownTooLittle(c) == IF c \in Growers THEN Len(buffer) + 1 ELSE capacity

(* realloc, when the character says so.                                    *)
Grown(c) == IF c \in Growers THEN ReadSize + Len(buffer) ELSE capacity

(* The next character.  A character behind the end of the buffer spoils    *)
(* the heap: the process ends there or goes on.                            *)
Getc(t) ==
  /\ pc[t] = "getc"
  /\ Len(buffer) < Len(File(t))
  /\ LET c == File(t)[Len(buffer) + 1] IN
     \/ /\ capacity' = Grown(c)
        /\ buffer' = Append(buffer, c)
        /\ overrun' = (overrun \/ Len(buffer) >= Grown(c))
        /\ UNCHANGED <<disk, pc, call, answer, mutex, left, before>>
     \/ Len(buffer) >= Grown(c) /\ UNCHANGED disk /\ Dies

(* EOF.  The buffer has no terminator: strlen goes on behind it.           *)
EndOfFile(t) ==
  /\ pc[t] = "getc"
  /\ Len(buffer) = Len(File(t))
  /\ \E junk \in BOOLEAN : Answer(t, <<"text", buffer, junk>>)
  /\ Goto(t, "unlock")
  /\ buffer' = <<>>
  /\ capacity' = 0
  /\ overrun' = FALSE
  /\ UNCHANGED <<disk, call, mutex, left, before>>

(* The process is killed; in the middle of fprintf or fclose some of the   *)
(* text has been written, and an rm that has not ended goes on.            *)
Killed ==
  /\ \/ UNCHANGED disk
     \/ \E t \in Threads :
          /\ pc[t] = "print"
          /\ \E k \in 0..Len(call[t].data) :
               Extend(t, SubSeq(call[t].data, 1, k))
          /\ UNCHANGED orphans
     \/ \E t \in Threads :
          /\ pc[t] = "rm"
          /\ orphans' = orphans \cup {call[t].name}
          /\ UNCHANGED <<files, room>>
  /\ Dies

(* The rm of a worker that was killed removes its file, between two        *)
(* operations of the next worker; there may be another rm of its name.     *)
LateRm(n) ==
  /\ mutex = Nobody
  /\ n \in orphans
  /\ Spec0!Change(n, Absent)
  /\ before' = Disk'
  /\ orphans' \in {orphans, orphans \ {n}}
  /\ UNCHANGED <<pc, call, answer, mutex, reading, left>>

-----------------------------------------------------------------------------

Work(t) ==
  \/ Unlock(t) \/ Return(t) \/ Prepare(t) \/ Open(t) \/ PrintText(t)
  \/ Remove(t) \/ RmEnds(t) \/ List(t) \/ Fopen(t) \/ Getc(t) \/ EndOfFile(t)

Next == \/ \E t \in Threads : Call(t) \/ Lock(t) \/ Work(t)
        \/ Killed
        \/ \E n \in Names : LateRm(n)

(* Threads run, and no thread is passed over for ever when the mutex is    *)
(* given away.                                                             *)
Spec == /\ Init /\ [][Next]_vars
        /\ \A t \in Threads : WF_vars(Work(t)) /\ SF_vars(Lock(t))

-----------------------------------------------------------------------------
(* Properties.                                                             *)

Inside(t) == pc[t] \notin {"idle", "lock", "unlock", "done"}

(* What the callers can see: the disk changes when the operation is over.  *)
Visible == IF \E t \in Threads : Inside(t) THEN before ELSE Disk

Phase(t) == CASE pc[t] = "idle" -> "idle"
              [] pc[t] \in {"unlock", "done"} -> "done"
              [] OTHER -> "called"

Abstract == INSTANCE FileSpec WITH
  files <- Visible.files, room <- Visible.room, leftover <- orphans,
  phase <- [t \in Threads |-> Phase(t)]

(* f_exec and file_list behave as if each happened at one instant: no      *)
(* operation sees a file that another one has emptied and not yet printed  *)
(* into, a write that is refused because the descriptors have run out has  *)
(* not touched its file (one that is refused because the disk is full may  *)
(* have), and the end of the process tears only the write it interrupts,   *)
(* or leaves an rm behind, which still deletes the file when the next      *)
(* process has written it again.                                           *)
Atomic == Abstract!FileSpecSpec

(* A number that write_file returns is that of a text the file now ends    *)
(* with, and has nothing else in it after a write, unless the disk is      *)
(* full.                                                                   *)
CountMeansStored ==
  \A t \in Threads :
    pc[t] = "unlock" /\ answer[t][1] = "count" =>
      LET f == File(t)
          d == call[t].data
          k == Len(f) - Len(d)
      IN  \/ room = 0
          \/ /\ k >= 0
             /\ SubSeq(f, k + 1, Len(f)) = d
             /\ IF call[t].op = "write" THEN k = 0
                ELSE SubSeq(f, 1, k) = before.files[call[t].name]

(* fs_read_file writes behind its buffer only when at least READ_SIZE      *)
(* characters that do not make it grow follow the last one that did, or    *)
(* the first one of the file: a file of at most READ_SIZE characters is    *)
(* read safely, whatever is in it.                                         *)
OverrunNeedsLongRun ==
  overrun =>
    \E k \in 1..Len(buffer) :
      /\ k + ReadSize <= Len(buffer)
      /\ \A j \in (k + 1)..(k + ReadSize) : buffer[j] \notin Growers

(* Every call returns or ends with its process: no path through an         *)
(* operation leaves the mutex locked.                                      *)
OperationsReturn == \A t \in Threads : pc[t] # "idle" ~> pc[t] = "idle"
=============================================================================
