------------------------------ MODULE FileSpec ------------------------------
(***************************************************************************)
(* What a worker's file operations (src/server/file_exec.h) promise their  *)
(* callers: every operation happens at one instant between its call and    *)
(* its return, and the end of the process tears at most one write that has *)
(* not returned, or leaves behind a deletion that has not: that one may    *)
(* still happen at any time.                                               *)
(***************************************************************************)
EXTENDS Integers, Sequences

CONSTANTS
  Threads,    (* the threads that call                                     *)
  Names,      (* file names                                                *)
  Data,       (* the strings that are written                              *)
  Absent,     (* the content of a name that no file has                    *)
  DiskSize    (* the characters the disk has room for at the start         *)

VARIABLES
  files,      (* the content of every name                                 *)
  room,       (* the characters the disk has room for                      *)
  leftover,   (* names whose deletion has outlived its caller              *)
  phase,      (* idle, called or done, for every thread                    *)
  call,       (* what it has called: [op, name, data]                      *)
  answer      (* what the call returns                                     *)

specVars == <<files, room, leftover, phase, call, answer>>

Operations == {"read", "write", "append", "delete", "list"}

(* Only write and append take a text.                                      *)
Takes(o, s) == o \in {"write", "append"} \/ s = <<>>

Existing(fs) == {n \in Names : fs[n] # Absent}

Size(content) == IF content = Absent THEN 0 ELSE Len(content)

(* The file n gets a new content; the disk has what that leaves.           *)
Change(n, content) ==
  /\ files' = [files EXCEPT ![n] = content]
  /\ room' = room + Size(files[n]) - Size(content)

(* As much of the text s as there is room for.                             *)
Fitting(s, free) == SubSeq(s, 1, IF Len(s) <= free THEN Len(s) ELSE free)

(* What the call c keeps of its file, the room that leaves for its text,   *)
(* and what it makes of the file.                                          *)
Kept(c) == IF c.op = "write" THEN <<>> ELSE files[c.name]
RoomFor(c) == room + Size(files[c.name]) - Size(Kept(c))
Stored(c) == Kept(c) \o Fitting(c.data, RoomFor(c))

(* What is left of a file when c ends in the middle: what it keeps, and    *)
(* the beginning of what it would have stored.                             *)
Torn(c) == {SubSeq(Stored(c), 1, k) : k \in Len(Kept(c))..Len(Stored(c))}

(* The call c is one that writes: append wants the file to exist.          *)
Writes(c) ==
  \/ c.op = "write"
  \/ c.op = "append" /\ files[c.name] # Absent

NoCall(n) == [op |-> "none", name |-> n, data |-> <<>>]

SpecInit ==
  /\ files \in [Names -> {Absent} \cup {s \in Data : Len(s) <= 1}]
  /\ room = DiskSize
  /\ leftover = {}
  /\ phase = [t \in Threads |-> "idle"]
  /\ call = [t \in Threads |-> NoCall(CHOOSE n \in Names : TRUE)]
  /\ answer = [t \in Threads |-> <<"none">>]

SpecCall(t) ==
  /\ phase[t] = "idle"
  /\ \E o \in Operations, n \in Names, s \in Data :
       /\ Takes(o, s)
       /\ call' = [call EXCEPT ![t] = [op |-> o, name |-> n, data |-> s]]
  /\ phase' = [phase EXCEPT ![t] = "called"]
  /\ UNCHANGED <<files, room, leftover, answer>>

(* What the call c may make of its file, and answer: a write or append is  *)
(* counted and stored, or refused, and then it has stored nothing, or has  *)
(* torn the file when the disk was too full for the text; a read finds the *)
(* file as it is, perhaps with something behind it.                        *)
Outcome(c, content, r) ==
  CASE c.op \in {"write", "append"} ->
         \/ Writes(c) /\ content = Stored(c) /\ r = <<"count", Len(c.data)>>
         \/ content = files[c.name] /\ r = <<"refused">>
         \/ /\ Writes(c) /\ Len(c.data) > RoomFor(c)
            /\ content \in Torn(c)
            /\ r = <<"refused">>
    [] c.op = "delete" ->
         content \in {files[c.name], Absent} /\ r = <<"deleted">>
    [] c.op = "read" ->
         /\ files[c.name] # Absent
         /\ content = files[c.name]
         /\ \E junk \in BOOLEAN : r = <<"text", files[c.name], junk>>
    [] c.op = "list" ->
         /\ content = files[c.name]
         /\ r \in {<<"names", Existing(files)>>, <<"names", {}>>}

SpecDo(t) ==
  /\ phase[t] = "called"
  /\ LET content == files'[call[t].name] IN
     Outcome(call[t], content, answer'[t]) /\ Change(call[t].name, content)
  /\ answer' = [answer EXCEPT ![t] = answer'[t]]
  /\ phase' = [phase EXCEPT ![t] = "done"]
  /\ UNCHANGED <<leftover, call>>

SpecReturn(t) ==
  /\ phase[t] = "done"
  /\ phase' = [phase EXCEPT ![t] = "idle"]
  /\ call' = [call EXCEPT ![t] = NoCall(@.name)]
  /\ answer' = [answer EXCEPT ![t] = <<"none">>]
  /\ UNCHANGED <<files, room, leftover>>

(* The process ends: a write that has not returned may be torn, a deletion *)
(* that has not may be left over.                                          *)
SpecDie ==
  /\ \/ UNCHANGED <<files, room, leftover>>
     \/ \E t \in Threads :
          /\ phase[t] = "called" /\ Writes(call[t])
          /\ \E content \in Torn(call[t]) : Change(call[t].name, content)
          /\ UNCHANGED leftover
     \/ \E t \in Threads :
          /\ phase[t] = "called" /\ call[t].op = "delete"
          /\ leftover' = leftover \cup {call[t].name}
          /\ UNCHANGED <<files, room>>
  /\ phase' = [t \in Threads |-> "idle"]
  /\ call' = [t \in Threads |-> NoCall(call[t].name)]
  /\ answer' = [t \in Threads |-> <<"none">>]

(* A deletion that was left over happens; there may be another of its name.*)
SpecLate(n) ==
  /\ n \in leftover
  /\ Change(n, Absent)
  /\ leftover' \in {leftover, leftover \ {n}}
  /\ UNCHANGED <<phase, call, answer>>

SpecNext ==
  \/ \E t \in Threads : SpecCall(t) \/ SpecDo(t) \/ SpecReturn(t)
  \/ SpecDie
  \/ \E n \in Names : SpecLate(n)

FileSpecSpec == SpecInit /\ [][SpecNext]_specVars
=============================================================================
