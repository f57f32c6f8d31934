-------------------------- MODULE FileStore_proofs -------------------------
(***************************************************************************)
(* Proofs about FileStore: what the mutex of file_exec.c protects, for any *)
(* number of threads, names, characters and descriptors, any size of the   *)
(* buffer and of the disk, and that the operations are those of FileSpec.  *)
(***************************************************************************)
EXTENDS FileStore, SequenceTheorems, TLAPS

Contents == Seq(Chars) \cup {Absent}
Ops == {"read", "write", "append", "delete", "list", "none"}

(* The steps of a thread that has the mutex.                               *)
Held == {"prepare", "open", "print", "remove", "rm", "list", "fopen", "getc",
         "unlock"}

Types ==
  /\ TypeOK
  /\ call \in [Threads -> [op : Ops, name : Names, data : Data]]
  /\ DOMAIN answer = Threads /\ answer = [t \in Threads |-> answer[t]]
  /\ before \in [files : [Names -> Contents], room : Nat]
  /\ buffer \in Seq(Chars)

(* The mutex: there is at most one thread in an operation.                 *)
Owns(t) == pc[t] \in Held <=> mutex = t

(* The file is empty, and all else on the disk is as it was.               *)
Truncated(t) ==
  LET n == call[t].name IN
  /\ files = [before.files EXCEPT ![n] = <<>>]
  /\ room = before.room + Spec0!Size(before.files[n])

(* The number that was returned is that of a text that was stored.         *)
Counted(t) ==
  answer[t][1] = "count" =>
    LET f == File(t)
        d == call[t].data
        k == Len(f) - Len(d)
    IN  \/ room = 0
        \/ /\ k >= 0
           /\ SubSeq(f, k + 1, Len(f)) = d
           /\ IF call[t].op = "write" THEN k = 0
              ELSE SubSeq(f, 1, k) = before.files[call[t].name]

(* What the disk is during an operation.                                   *)
AtWork(t) ==
  /\ pc[t] = "lock" => call[t].op # "none"
  /\ pc[t] \in {"prepare", "open", "print"} => call[t].op \in {"write", "append"}
  /\ pc[t] \in {"remove", "rm"} => call[t].op = "delete"
  /\ pc[t] = "list" => call[t].op = "list"
  /\ pc[t] \in {"fopen", "getc"} => call[t].op = "read"
  /\ pc[t] \in {"prepare", "remove", "rm", "list", "fopen", "getc"} => Disk = before
  /\ pc[t] = "open" =>
       IF call[t].op = "append" THEN Disk = before /\ File(t) # Absent
       ELSE Disk = before \/ (left > 0 /\ Truncated(t))
  /\ pc[t] = "print" =>
       IF call[t].op = "append" THEN Disk = before /\ File(t) # Absent
       ELSE Truncated(t)
  /\ pc[t] = "getc" =>
       /\ File(t) # Absent
       /\ Len(buffer) <= Len(File(t))
       /\ buffer = SubSeq(File(t), 1, Len(buffer))
  /\ pc[t] = "unlock" => Counted(t)

(* The buffer has been made longer at its character k, or never and k is   *)
(* 1, and behind it there has been no other character to do so.            *)
GrownAt(k) ==
  /\ capacity = ReadSize + k - 1
  /\ \A j \in (k + 1)..Len(buffer) : buffer[j] \notin Growers

Reads ==
  /\ OverrunNeedsLongRun
  /\ (\E t \in Threads : pc[t] = "getc") => \E k \in 1..(Len(buffer) + 1) : GrownAt(k)
  /\ (\A t \in Threads : pc[t] # "getc") => buffer = <<>> /\ overrun = FALSE

IInv ==
  /\ Types
  /\ \A t \in Threads : Owns(t) /\ AtWork(t)
  /\ Reads

-----------------------------------------------------------------------------
(* The operators.                                                          *)

LEMMA EmptyContent == <<>> \in Seq(Chars) /\ Len(<<>>) = 0 /\ Absent # <<>>
BY FileStoreAssumption, EmptySeq

LEMMA Sizes ==
  /\ \A s \in Contents : Spec0!Size(s) \in Nat
  /\ \A s \in Seq(Chars) : Spec0!Size(s) = Len(s) /\ s # Absent
  /\ Spec0!Size(<<>>) = 0 /\ Spec0!Size(Absent) = 0
<1>1. \A s \in Seq(Chars) : Spec0!Size(s) = Len(s) /\ s # Absent /\ Len(s) \in Nat
  BY FileStoreAssumption, LenProperties DEF Spec0!Size
<1>2. Spec0!Size(Absent) = 0
  BY DEF Spec0!Size
<1> QED
  BY <1>1, <1>2, EmptyContent DEF Contents

(* What fits is a beginning of the text: all of it, or as much as there is *)
(* room for.                                                               *)
LEMMA Fits ==
  ASSUME NEW s \in Seq(Chars), NEW free \in Nat
  PROVE  /\ Spec0!Fitting(s, free) \in Seq(Chars)
         /\ Len(Spec0!Fitting(s, free)) = IF Len(s) <= free THEN Len(s) ELSE free
         /\ Len(s) <= free => Spec0!Fitting(s, free) = s
         /\ \A j \in 1..Len(Spec0!Fitting(s, free)) : Spec0!Fitting(s, free)[j] = s[j]
<1> DEFINE k == IF Len(s) <= free THEN Len(s) ELSE free
<1>1. Len(s) \in Nat /\ k \in 0..Len(s)
  BY LenProperties
<1> HIDE DEF k
<1>2. /\ SubSeq(s, 1, k) \in Seq(Chars)
      /\ Len(SubSeq(s, 1, k)) = k
      /\ \A j \in 1..k : SubSeq(s, 1, k)[j] = s[j]
  BY <1>1, SubSeqProperties
<1>3. SubSeq(s, 1, Len(s)) = s
  OBVIOUS
<1>4. Spec0!Fitting(s, free) = SubSeq(s, 1, k)
  BY DEF Spec0!Fitting, k
<1> QED
  BY <1>1, <1>2, <1>3, <1>4 DEF k

(* A text that comes behind another one, and the one before it.            *)
LEMMA Behind ==
  ASSUME NEW s \in Seq(Chars), NEW u \in Seq(Chars)
  PROVE  /\ SubSeq(s \o u, Len(s) + 1, Len(s \o u)) = u
         /\ SubSeq(s \o u, 1, Len(s)) = s
<1> DEFINE c == s \o u
<1>1. /\ c \in Seq(Chars) /\ Len(c) = Len(s) + Len(u)
      /\ \A i \in 1..(Len(s) + Len(u)) :
           c[i] = IF i <= Len(s) THEN s[i] ELSE u[i - Len(s)]
      /\ Len(s) \in Nat /\ Len(u) \in Nat
  BY ConcatProperties, LenProperties
<1> HIDE DEF c
<1>2. /\ \A i \in 1..Len(c) : c[i] \in Chars
      /\ \A i \in 1..Len(s) : s[i] \in Chars
      /\ \A i \in 1..Len(u) : u[i] \in Chars
  BY <1>1, ElementOfSeq
<1>3. SubSeq(c, Len(s) + 1, Len(c)) = u
  <2>1. /\ SubSeq(c, Len(s) + 1, Len(c)) \in Seq(Chars)
        /\ Len(SubSeq(c, Len(s) + 1, Len(c))) = Len(u)
        /\ \A i \in 1..Len(u) :
             SubSeq(c, Len(s) + 1, Len(c))[i] = c[Len(s) + i]
    BY <1>1, <1>2, SubSeqProperties
  <2>2. \A i \in 1..Len(u) : c[Len(s) + i] = u[i]
    BY <1>1
  <2> QED
    BY <2>1, <2>2, SeqEqual
<1>4. SubSeq(c, 1, Len(s)) = s
  <2>1. /\ SubSeq(c, 1, Len(s)) \in Seq(Chars)
        /\ Len(SubSeq(c, 1, Len(s))) = Len(s)
        /\ \A i \in 1..Len(s) : SubSeq(c, 1, Len(s))[i] = c[i]
    BY <1>1, <1>2, SubSeqProperties
  <2>2. \A i \in 1..Len(s) : c[i] = s[i]
    BY <1>1
  <2> QED
    BY <2>1, <2>2, SeqEqual
<1> QED
  BY <1>3, <1>4 DEF c

(* What is written of the beginning of a text is a beginning of what would *)
(* be written of the whole.                                                *)
LEMMA Beginnings ==
  ASSUME NEW s \in Seq(Chars), NEW d \in Seq(Chars), NEW k \in 0..Len(d),
         NEW free \in Nat
  PROVE  LET full == s \o Spec0!Fitting(d, free)
             part == s \o Spec0!Fitting(SubSeq(d, 1, k), free)
         IN  /\ Len(part) \in Len(s)..Len(full)
             /\ part = SubSeq(full, 1, Len(part))
<1> DEFINE e == SubSeq(d, 1, k)
           fit == Spec0!Fitting(d, free)
           some == Spec0!Fitting(e, free)
           full == s \o fit
           part == s \o some
<1>1. Len(d) \in Nat /\ Len(s) \in Nat /\ \A i \in 1..Len(d) : d[i] \in Chars
  BY LenProperties, ElementOfSeq
<1>2. e \in Seq(Chars) /\ Len(e) = k /\ \A i \in 1..k : e[i] = d[i]
  BY <1>1, SubSeqProperties
<1> HIDE DEF e
<1>3. /\ fit \in Seq(Chars) /\ Len(fit) = IF Len(d) <= free THEN Len(d) ELSE free
      /\ \A i \in 1..Len(fit) : fit[i] = d[i]
  BY Fits
<1>4. /\ some \in Seq(Chars) /\ Len(some) = IF k <= free THEN k ELSE free
      /\ \A i \in 1..Len(some) : some[i] = e[i]
  BY <1>2, Fits
<1> HIDE DEF fit, some
<1>5. /\ Len(some) \in Nat /\ Len(fit) \in Nat /\ Len(some) <= Len(fit)
      /\ \A i \in 1..Len(some) : some[i] = fit[i]
  <2>1. Len(some) \in Nat /\ Len(fit) \in Nat
    BY <1>3, <1>4, LenProperties
  <2>2. Len(some) <= Len(fit) /\ Len(some) <= k
    BY <1>1, <1>3, <1>4
  <2>3. \A i \in 1..Len(some) : i \in 1..k /\ i \in 1..Len(fit)
    BY <1>1, <2>1, <2>2
  <2>4. \A i \in 1..Len(some) : some[i] = fit[i]
    BY <1>2, <1>3, <1>4, <2>3
  <2> QED
    BY <2>1, <2>2, <2>4
<1>6. /\ full \in Seq(Chars) /\ Len(full) = Len(s) + Len(fit)
      /\ \A i \in 1..(Len(s) + Len(fit)) :
           full[i] = IF i <= Len(s) THEN s[i] ELSE fit[i - Len(s)]
  BY <1>3, ConcatProperties
<1>7. /\ part \in Seq(Chars) /\ Len(part) = Len(s) + Len(some)
      /\ \A i \in 1..(Len(s) + Len(some)) :
           part[i] = IF i <= Len(s) THEN s[i] ELSE some[i - Len(s)]
  BY <1>4, ConcatProperties
<1> HIDE DEF full, part
<1>8. \A i \in 1..Len(part) : part[i] = full[i]
  <2> SUFFICES ASSUME NEW i \in 1..(Len(s) + Len(some))
               PROVE  part[i] = full[i]
    BY <1>7
  <2>1. i \in 1..(Len(s) + Len(fit))
    BY <1>1, <1>5
  <2>2. CASE i <= Len(s)
    BY <1>6, <1>7, <2>1, <2>2
  <2>3. CASE ~(i <= Len(s))
    <3>1. i - Len(s) \in 1..Len(some)
      BY <1>1, <1>5, <2>3
    <3> QED
      BY <1>5, <1>6, <1>7, <2>1, <2>3, <3>1
  <2> QED
    BY <2>2, <2>3
<1>9. Len(part) \in Len(s)..Len(full)
  BY <1>1, <1>5, <1>6, <1>7
<1>10. \A i \in 1..Len(full) : full[i] \in Chars
  BY <1>6, ElementOfSeq
<1>11. /\ SubSeq(full, 1, Len(part)) \in Seq(Chars)
       /\ Len(SubSeq(full, 1, Len(part))) = Len(part)
       /\ \A i \in 1..Len(part) : SubSeq(full, 1, Len(part))[i] = full[i]
  BY <1>1, <1>5, <1>6, <1>7, <1>10, SubSeqProperties
<1>12. part = SubSeq(full, 1, Len(part))
  BY <1>7, <1>8, <1>11, SeqEqual
<1> QED
  BY <1>9, <1>12 DEF full, part, some, fit, e

(* A change leaves a disk: contents, and as much room as there is.         *)
LEMMA Changes ==
  ASSUME Types, NEW n \in Names, NEW s \in Contents, Spec0!Change(n, s),
         Spec0!Size(s) <= room + Spec0!Size(files[n])
  PROVE  /\ files' \in [Names -> Contents] /\ room' \in Nat
         /\ files' = [files EXCEPT ![n] = s]
         /\ room' = room + Spec0!Size(files[n]) - Spec0!Size(s)
<1>1. files[n] \in Contents /\ room \in Nat
  BY DEF Types, TypeOK, Contents
<1> QED
  BY <1>1, Sizes DEF Spec0!Change, Types, TypeOK, Contents

(* So does a text that comes behind what its file has.                     *)
LEMMA Extends ==
  ASSUME Types, NEW t \in Threads, File(t) # Absent, NEW s \in Seq(Chars),
         Extend(t, s)
  PROVE  LET new == File(t) \o Spec0!Fitting(s, room) IN
         /\ new \in Seq(Chars) /\ Len(new) <= room + Len(File(t))
         /\ Len(new) = Len(File(t)) + Len(Spec0!Fitting(s, room))
         /\ files' \in [Names -> Contents] /\ room' \in Nat
         /\ files' = [files EXCEPT ![call[t].name] = new]
         /\ room' = room + Len(File(t)) - Len(new)
<1> DEFINE new == File(t) \o Spec0!Fitting(s, room)
           n == call[t].name
<1>1. n \in Names /\ File(t) \in Seq(Chars) /\ room \in Nat
  BY DEF Types, TypeOK, File
<1>2. /\ Spec0!Fitting(s, room) \in Seq(Chars)
      /\ Len(Spec0!Fitting(s, room)) <= room
      /\ Len(Spec0!Fitting(s, room)) \in Nat /\ Len(File(t)) \in Nat
  BY <1>1, Fits, LenProperties
<1>3. /\ new \in Seq(Chars)
      /\ Len(new) = Len(File(t)) + Len(Spec0!Fitting(s, room))
  BY <1>1, <1>2, ConcatProperties
<1>4. Spec0!Change(n, new)
  BY DEF Extend
<1> HIDE DEF new, n
<1>5. Spec0!Size(new) = Len(new) /\ Spec0!Size(files[n]) = Len(File(t)) /\ new \in Contents
  BY <1>1, <1>3, Sizes DEF File, n, Contents
<1>6. /\ files' \in [Names -> Contents] /\ room' \in Nat
      /\ files' = [files EXCEPT ![n] = new]
      /\ room' = room + Spec0!Size(files[n]) - Spec0!Size(new)
  BY <1>1, <1>2, <1>3, <1>4, <1>5, Changes
<1> QED
  BY <1>1, <1>2, <1>3, <1>5, <1>6 DEF new, n

-----------------------------------------------------------------------------
(* The invariant.                                                          *)

LEMMA InitIInv == Init => IInv
<1> SUFFICES ASSUME Init
             PROVE  IInv
  OBVIOUS
<1>1. (CHOOSE n \in Names : TRUE) \in Names
  BY FileStoreAssumption
<1>2. <<>> \in Data
  BY FileStoreAssumption
<1>3. TypeOK
  <2>1. files \in [Names -> Seq(Chars) \cup {Absent}]
    BY FileStoreAssumption DEF Init
  <2>2. pc \in [Threads -> Steps]
    BY DEF Init, Steps
  <2>3. /\ room \in Nat /\ capacity \in Nat /\ overrun \in BOOLEAN
        /\ mutex \in Threads \cup {Nobody}
    BY FileStoreAssumption DEF Init
  <2>4. left \in 0..Descriptors /\ orphans \subseteq Names
    BY FileStoreAssumption DEF Init
  <2> QED
    BY <2>1, <2>2, <2>3, <2>4 DEF TypeOK
<1>4. call \in [Threads -> [op : Ops, name : Names, data : Data]]
  BY <1>1, <1>2 DEF Init, Spec0!NoCall, Ops
<1>5. before \in [files : [Names -> Contents], room : Nat]
  BY <1>3 DEF Init, Disk, TypeOK, Contents
<1>6. Types
  BY <1>3, <1>4, <1>5, EmptyContent DEF Types, Init
<1>7. \A t \in Threads : Owns(t) /\ AtWork(t)
  BY FileStoreAssumption DEF Init, Owns, AtWork, Held
<1>8. Reads
  BY DEF Init, Reads, OverrunNeedsLongRun
<1> QED
  BY <1>6, <1>7, <1>8 DEF IInv

(* At most one thread is in an operation.                                  *)
LEMMA Exclusion ==
  ASSUME IInv, NEW t \in Threads, pc[t] \in Held
  PROVE  mutex = t /\ \A u \in Threads \ {t} : pc[u] \notin Held
BY DEF IInv, Owns

(* A thread that has not got the mutex, or gives it back, has nothing to   *)
(* say of the disk.                                                        *)
LEMMA NotAtWork ==
  ASSUME NEW t \in Threads, pc[t] \notin Held, pc[t] = "lock" => call[t].op # "none"
  PROVE  AtWork(t)
BY DEF AtWork, Held

(* What a step leaves alone.                                               *)
LEMMA StillAtWork ==
  ASSUME NEW t \in Threads, AtWork(t),
         pc'[t] = pc[t], call'[t] = call[t], answer'[t] = answer[t],
         UNCHANGED <<files, room, buffer, left, before>>
  PROVE  AtWork(t)'
<1>1. /\ Disk' = Disk /\ File(t)' = File(t)
      /\ Truncated(t)' <=> Truncated(t)
  BY DEF Disk, File, Truncated
<1>2. Counted(t)' <=> Counted(t)
  BY DEF Counted, File
<1> QED
  BY <1>1, <1>2 DEF AtWork

(* A step inside an operation.                                             *)
LEMMA Continues ==
  ASSUME IInv, NEW t \in Threads, pc[t] \in Held, NEW step \in Held,
         Goto(t, step), UNCHANGED <<call, mutex, before>>,
         Types', AtWork(t)', Reads'
  PROVE  IInv'
<1>1. pc'[t] = step /\ \A u \in Threads \ {t} : pc'[u] = pc[u]
  BY DEF Goto, IInv, Types, TypeOK
<1>2. mutex = t /\ \A u \in Threads \ {t} : pc[u] \notin Held
  BY Exclusion
<1>3. ASSUME NEW u \in Threads \ {t}
      PROVE  Owns(u)' /\ AtWork(u)'
  <2>1. pc[u] = "lock" => call[u].op # "none"
    BY DEF IInv, AtWork
  <2>2. AtWork(u)'
    BY <1>1, <1>2, <2>1 DEF AtWork, Held
  <2> QED
    BY <1>1, <1>2, <2>2 DEF Owns
<1>4. Owns(t)'
  BY <1>1, <1>2 DEF Owns
<1> QED
  BY <1>3, <1>4 DEF IInv

(* A step that has nothing to do with reading.                             *)
LEMMA ReadsKept ==
  ASSUME IInv, NEW t \in Threads, NEW step \in Steps \ {"getc"},
         pc[t] # "getc", Goto(t, step), UNCHANGED reading
  PROVE  Reads'
<1>1. pc'[t] = step /\ \A u \in Threads \ {t} : pc'[u] = pc[u]
  BY DEF Goto, IInv, Types, TypeOK
<1>2. /\ (\E u \in Threads : pc'[u] = "getc") <=> (\E u \in Threads : pc[u] = "getc")
      /\ (\A u \in Threads : pc'[u] # "getc") <=> (\A u \in Threads : pc[u] # "getc")
  BY <1>1
<1>3. /\ buffer' = buffer /\ capacity' = capacity /\ overrun' = overrun
      /\ Reads
  BY DEF reading, IInv
<1> QED
  BY <1>2, <1>3 DEF Reads, GrownAt, OverrunNeedsLongRun

-----------------------------------------------------------------------------
(* The steps.                                                              *)

LEMMA CallIInv ==
  ASSUME IInv, NEW t \in Threads, Call(t)
  PROVE  IInv'
<1>1. PICK o \in Spec0!Operations, n \in Names, s \in Data :
        call' = [call EXCEPT ![t] = [op |-> o, name |-> n, data |-> s]]
  BY DEF Call
<1>2. /\ pc[t] = "idle" /\ Goto(t, "lock")
      /\ UNCHANGED <<disk, answer, mutex, reading, left, before>>
      /\ pc' = [pc EXCEPT ![t] = "lock"]
  BY DEF Call, Goto
<1>3. o \in Ops \ {"none"}
  BY DEF Spec0!Operations, Ops
<1>4. Types'
  BY <1>1, <1>2, <1>3 DEF IInv, Types, TypeOK, Steps, disk, reading
<1>5. Reads'
  BY <1>2, ReadsKept DEF Steps
<1>6. /\ pc'[t] = "lock" /\ call'[t].op # "none"
      /\ \A u \in Threads \ {t} : pc'[u] = pc[u] /\ call'[u] = call[u]
  BY <1>1, <1>2, <1>3 DEF IInv, Types, TypeOK
<1>7. ASSUME NEW u \in Threads
      PROVE  Owns(u)' /\ AtWork(u)'
  <2>1. CASE u = t
    BY <1>2, <1>6, <2>1 DEF IInv, Owns, AtWork, Held
  <2>2. CASE u # t
    <3>1. Owns(u)'
      BY <1>2, <1>6, <2>2 DEF IInv, Owns
    <3>2. AtWork(u)'
      BY <1>2, <1>6, <2>2, StillAtWork DEF IInv, disk, reading
    <3> QED
      BY <3>1, <3>2
  <2> QED
    BY <2>1, <2>2
<1> QED
  BY <1>4, <1>5, <1>7 DEF IInv

LEMMA LockIInv ==
  ASSUME IInv, NEW t \in Threads, Lock(t)
  PROVE  IInv'
<1>1. /\ pc[t] = "lock" /\ mutex = Nobody /\ mutex' = t /\ before' = Disk
      /\ Goto(t, FirstStep(call[t].op))
      /\ UNCHANGED <<disk, call, answer, reading, left>>
  BY DEF Lock
<1>2. call[t].op \in Ops \ {"none"}
  BY <1>1 DEF IInv, Types, AtWork
<1>3. PICK step \in {"prepare", "remove", "fopen", "list"} :
        /\ Goto(t, step)
        /\ step = "prepare" => call[t].op \in {"write", "append"}
        /\ step = "remove" => call[t].op = "delete"
        /\ step = "fopen" => call[t].op = "read"
        /\ step = "list" => call[t].op = "list"
  BY <1>1, <1>2 DEF FirstStep, Ops
<1>4. /\ pc' = [pc EXCEPT ![t] = step] /\ pc'[t] = step /\ step \in Steps
      /\ \A u \in Threads \ {t} : pc'[u] = pc[u]
  BY <1>3 DEF Goto, IInv, Types, TypeOK, Steps
<1>5. Disk \in [files : [Names -> Contents], room : Nat]
  BY DEF IInv, Types, TypeOK, Disk, Contents
<1>6. Types'
  BY <1>1, <1>4, <1>5 DEF IInv, Types, TypeOK, disk, reading
<1>7. Reads'
  BY <1>1, <1>3, ReadsKept DEF Steps
<1>8. ASSUME NEW u \in Threads \ {t}
      PROVE  Owns(u)' /\ AtWork(u)'
  <2>1. pc[u] \notin Held
    BY <1>1, FileStoreAssumption DEF IInv, Owns
  <2>2. pc[u] = "lock" => call[u].op # "none"
    BY DEF IInv, AtWork
  <2> QED
    BY <1>1, <1>4, <2>1, <2>2 DEF Owns, AtWork, Held
<1>9. AtWork(t)'
  BY <1>1, <1>3, <1>4 DEF AtWork, Disk, disk
<1>10. Owns(t)'
  BY <1>1, <1>4 DEF Owns, Held
<1> QED
  BY <1>6, <1>7, <1>8, <1>9, <1>10 DEF IInv

LEMMA UnlockIInv ==
  ASSUME IInv, NEW t \in Threads, Unlock(t)
  PROVE  IInv'
<1>1. /\ pc[t] = "unlock" /\ mutex' = Nobody /\ before' = Disk
      /\ Goto(t, "done")
      /\ UNCHANGED <<disk, call, answer, reading, left>>
  BY DEF Unlock
<1>2. /\ pc' = [pc EXCEPT ![t] = "done"] /\ pc'[t] = "done"
      /\ \A u \in Threads \ {t} : pc'[u] = pc[u]
  BY <1>1 DEF Goto, IInv, Types, TypeOK
<1>3. Disk \in [files : [Names -> Contents], room : Nat]
  BY DEF IInv, Types, TypeOK, Disk, Contents
<1>4. Types'
  BY <1>1, <1>2, <1>3 DEF IInv, Types, TypeOK, disk, reading, Steps
<1>5. Reads'
  BY <1>1, ReadsKept DEF Steps
<1>6. \A u \in Threads \ {t} : pc[u] \notin Held
  BY <1>1, Exclusion DEF Held
<1>7. ASSUME NEW u \in Threads
      PROVE  Owns(u)' /\ AtWork(u)'
  <2>1. pc[u] = "lock" => call[u].op # "none"
    BY DEF IInv, AtWork
  <2>2. pc'[u] \notin Held /\ (pc'[u] = "lock" => pc[u] = "lock")
    BY <1>2, <1>6 DEF Held
  <2> QED
    BY <1>1, <2>1, <2>2, FileStoreAssumption DEF Owns, AtWork, Held
<1> QED
  BY <1>4, <1>5, <1>7 DEF IInv

LEMMA ReturnIInv ==
  ASSUME IInv, NEW t \in Threads, Return(t)
  PROVE  IInv'
<1>1. /\ pc[t] = "done" /\ Goto(t, "idle")
      /\ call' = [call EXCEPT ![t] = Spec0!NoCall(call[t].name)]
      /\ Answer(t, <<"none">>)
      /\ UNCHANGED <<disk, mutex, reading, left, before>>
  BY DEF Return
<1>2. /\ pc' = [pc EXCEPT ![t] = "idle"] /\ pc'[t] = "idle"
      /\ \A u \in Threads \ {t} : /\ pc'[u] = pc[u] /\ call'[u] = call[u]
                                   /\ answer'[u] = answer[u]
  BY <1>1 DEF Goto, Answer, IInv, Types, TypeOK
<1>3. <<>> \in Data
  BY FileStoreAssumption
<1>4. call' \in [Threads -> [op : Ops, name : Names, data : Data]]
  BY <1>1, <1>3 DEF IInv, Types, Spec0!NoCall, Ops
<1>5. Types'
  <2>1. DOMAIN answer' = Threads /\ answer' = [u \in Threads |-> answer'[u]]
    BY <1>1 DEF Answer, IInv, Types
  <2> QED
    BY <1>1, <1>2, <1>4, <2>1 DEF IInv, Types, TypeOK, disk, reading, Steps
<1>6. Reads'
  BY <1>1, ReadsKept DEF Steps
<1>7. ASSUME NEW u \in Threads
      PROVE  Owns(u)' /\ AtWork(u)'
  <2>1. CASE u = t
    BY <1>1, <1>2, <2>1 DEF IInv, Owns, AtWork, Held
  <2>2. CASE u # t
    <3>1. Owns(u)'
      BY <1>1, <1>2, <2>2 DEF IInv, Owns
    <3>2. AtWork(u)'
      BY <1>1, <1>2, <2>2, StillAtWork DEF IInv, disk, reading
    <3> QED
      BY <3>1, <3>2
  <2> QED
    BY <2>1, <2>2
<1> QED
  BY <1>5, <1>6, <1>7 DEF IInv

(* The types after a step inside an operation that may change the disk,    *)
(* the answer and the descriptors.                                         *)
LEMMA TypesKept ==
  ASSUME IInv, NEW t \in Threads, NEW step \in Steps, Goto(t, step),
         UNCHANGED <<orphans, call, mutex, before>>,
         files' \in [Names -> Contents], room' \in Nat,
         answer' = answer \/ \E r : Answer(t, r),
         left' \in 0..Descriptors,
         buffer' \in Seq(Chars), capacity' \in Nat, overrun' \in BOOLEAN
  PROVE  Types'
<1>1. pc' \in [Threads -> Steps]
  BY DEF Goto, IInv, Types, TypeOK
<1>2. DOMAIN answer' = Threads /\ answer' = [u \in Threads |-> answer'[u]]
  BY DEF Answer, IInv, Types
<1> QED
  BY <1>1, <1>2 DEF IInv, Types, TypeOK, Contents

LEMMA PrepareIInv ==
  ASSUME IInv, NEW t \in Threads, Prepare(t)
  PROVE  IInv'
<1> DEFINE n == call[t].name
<1>1. /\ pc[t] = "prepare" /\ n \in Names /\ left \in Nat
      /\ UNCHANGED <<orphans, call, mutex, reading, left, before>>
      /\ Disk = before /\ call[t].op \in {"write", "append"}
  BY DEF Prepare, IInv, Types, TypeOK, AtWork
<1>2. CASE Refuse(t)
  <2>1. /\ Goto(t, "unlock") /\ Answer(t, <<"refused">>) /\ UNCHANGED disk
    BY <1>2 DEF Refuse
  <2>2. Types'
    BY <1>1, <2>1, TypesKept DEF disk, reading, IInv, Types, TypeOK, Steps, Contents
  <2>3. answer'[t][1] = "refused" /\ pc'[t] = "unlock"
    BY <2>1 DEF Answer, Goto, IInv, Types, TypeOK
  <2>4. AtWork(t)'
    BY <2>3 DEF AtWork, Counted
  <2>5. Reads'
    BY <1>1, <2>1, ReadsKept DEF Steps
  <2> QED
    BY <1>1, <2>1, <2>2, <2>4, <2>5, Continues DEF Held
<1>3. CASE /\ call[t].op = "append" => FileExists(t)
           /\ IF ~FileExists(t) /\ left > 0
              THEN Spec0!Change(n, <<>>) ELSE UNCHANGED disk
           /\ Goto(t, "open")
           /\ UNCHANGED answer
  <2>1. pc'[t] = "open"
    BY <1>3 DEF Goto, IInv, Types, TypeOK
  <2>2. CASE FileExists(t) \/ left = 0
    <3>1. UNCHANGED disk
      BY <1>1, <1>3, <2>2 DEF FileExists
    <3>2. Types'
      BY <1>1, <1>3, <3>1, TypesKept DEF disk, reading, IInv, Types, TypeOK, Steps, Contents
    <3>3. Disk' = before' /\ (call[t].op = "append" => File(t)' # Absent)
      BY <1>1, <1>3, <3>1 DEF Disk, disk, File, FileExists
    <3>4. AtWork(t)'
      BY <1>1, <2>1, <3>3 DEF AtWork
    <3>5. Reads'
      BY <1>1, <1>3, ReadsKept DEF Steps
    <3> QED
      BY <1>1, <1>3, <3>2, <3>4, <3>5, Continues DEF Held
  <2>3. CASE ~FileExists(t) /\ left > 0
    <3>1. call[t].op = "write" /\ Spec0!Change(n, <<>>)
      BY <1>1, <1>3, <2>3
    <3>2. /\ files' \in [Names -> Contents] /\ room' \in Nat
          /\ files' = [files EXCEPT ![n] = <<>>]
          /\ room' = room + Spec0!Size(files[n])
      <4>1. <<>> \in Contents /\ Spec0!Size(<<>>) = 0
        BY EmptyContent, Sizes DEF Contents
      <4>2. Spec0!Size(files[n]) \in Nat /\ room \in Nat
        BY <1>1, Sizes DEF IInv, Types, TypeOK, Contents
      <4>3. Types
        BY DEF IInv
      <4> HIDE DEF n
      <4> QED
        BY <1>1, <3>1, <4>1, <4>2, <4>3, Changes
    <3>3. Types'
      BY <1>1, <1>3, <3>2, TypesKept DEF reading, IInv, Types, TypeOK, Steps
    <3>4. Truncated(t)' /\ left' > 0
      BY <1>1, <2>3, <3>2 DEF Truncated, Disk, Spec0!Size
    <3>5. AtWork(t)'
      BY <1>1, <2>1, <3>1, <3>4 DEF AtWork
    <3>6. Reads'
      BY <1>1, <1>3, ReadsKept DEF Steps
    <3> QED
      BY <1>1, <1>3, <3>3, <3>5, <3>6, Continues DEF Held
  <2> QED
    BY <1>1, <2>2, <2>3
<1> QED
  BY <1>2, <1>3 DEF Prepare

LEMMA OpenIInv ==
  ASSUME IInv, NEW t \in Threads, Open(t)
  PROVE  IInv'
<1> DEFINE n == call[t].name
<1>1. /\ pc[t] = "open" /\ n \in Names /\ left \in Nat
      /\ UNCHANGED <<orphans, call, mutex, reading, left, before>>
      /\ call[t].op \in {"write", "append"}
      /\ IF call[t].op = "append" THEN Disk = before /\ File(t) # Absent
         ELSE Disk = before \/ (left > 0 /\ Truncated(t))
  BY DEF Open, IInv, Types, TypeOK, AtWork
<1>2. CASE Refuse(t)
  <2>1. /\ Goto(t, "unlock") /\ Answer(t, <<"refused">>) /\ UNCHANGED disk
    BY <1>2 DEF Refuse
  <2>2. Types'
    BY <1>1, <2>1, TypesKept DEF disk, reading, IInv, Types, TypeOK, Steps, Contents
  <2>3. answer'[t][1] = "refused" /\ pc'[t] = "unlock"
    BY <2>1 DEF Answer, Goto, IInv, Types, TypeOK
  <2>4. AtWork(t)'
    BY <2>3 DEF AtWork, Counted
  <2>5. Reads'
    BY <1>1, <2>1, ReadsKept DEF Steps
  <2> QED
    BY <1>1, <2>1, <2>2, <2>4, <2>5, Continues DEF Held
<1>3. CASE /\ left > 0
           /\ IF call[t].op = "write"
              THEN Spec0!Change(n, <<>>) ELSE UNCHANGED disk
           /\ Goto(t, "print")
           /\ UNCHANGED answer
  <2>1. pc'[t] = "print"
    BY <1>3 DEF Goto, IInv, Types, TypeOK
  <2>2. CASE call[t].op = "append"
    <3>1. UNCHANGED disk
      BY <1>3, <2>2
    <3>2. Types'
      BY <1>1, <1>3, <3>1, TypesKept DEF disk, reading, IInv, Types, TypeOK, Steps, Contents
    <3>3. Disk' = before' /\ File(t)' # Absent
      BY <1>1, <2>2, <3>1 DEF Disk, disk, File
    <3>4. AtWork(t)'
      BY <1>1, <2>1, <2>2, <3>3 DEF AtWork
    <3>5. Reads'
      BY <1>1, <1>3, ReadsKept DEF Steps
    <3> QED
      BY <1>1, <1>3, <3>2, <3>4, <3>5, Continues DEF Held
  <2>3. CASE call[t].op = "write"
    <3>1. Spec0!Change(n, <<>>)
      BY <1>3, <2>3
    <3>2. /\ files' \in [Names -> Contents] /\ room' \in Nat
          /\ files' = [files EXCEPT ![n] = <<>>]
          /\ room' = room + Spec0!Size(files[n])
      <4>1. <<>> \in Contents /\ Spec0!Size(<<>>) = 0
        BY EmptyContent, Sizes DEF Contents
      <4>2. Spec0!Size(files[n]) \in Nat /\ room \in Nat
        BY <1>1, Sizes DEF IInv, Types, TypeOK, Contents
      <4>3. Types
        BY DEF IInv
      <4> HIDE DEF n
      <4> QED
        BY <1>1, <3>1, <4>1, <4>2, <4>3, Changes
    <3>3. Types'
      BY <1>1, <1>3, <3>2, TypesKept DEF reading, IInv, Types, TypeOK, Steps
    <3>4. Truncated(t)'
      <4>1. CASE Disk = before
        BY <1>1, <3>2, <4>1 DEF Truncated, Disk, Spec0!Size
      <4>2. CASE Truncated(t)
        <5>1. /\ files = [before.files EXCEPT ![n] = <<>>]
              /\ room = before.room + Spec0!Size(before.files[n])
          BY <4>2 DEF Truncated
        <5>2. files[n] = <<>> /\ Spec0!Size(files[n]) = 0
          BY <1>1, <5>1, Sizes DEF IInv, Types
        <5>3. room' = room /\ files' = files
          BY <1>1, <3>2, <5>1, <5>2 DEF IInv, Types, TypeOK
        <5> QED
          BY <1>1, <5>1, <5>3 DEF Truncated, Spec0!Size
      <4> QED
        BY <1>1, <2>3, <4>1, <4>2
    <3>5. AtWork(t)'
      BY <1>1, <2>1, <2>3, <3>4 DEF AtWork
    <3>6. Reads'
      BY <1>1, <1>3, ReadsKept DEF Steps
    <3> QED
      BY <1>1, <1>3, <3>3, <3>5, <3>6, Continues DEF Held
  <2> QED
    BY <1>1, <2>2, <2>3
<1> QED
  BY <1>2, <1>3 DEF Open

(* The count is of a text that is stored, or there is no more room.        *)
LEMMA PrintedIInv ==
  ASSUME IInv, NEW t \in Threads, PrintText(t),
         Extend(t, call[t].data), Answer(t, <<"count", Len(call[t].data)>>)
  PROVE  IInv'
<1> DEFINE n == call[t].name
           d == call[t].data
           fit == Spec0!Fitting(d, room)
           new == File(t) \o fit
<1>1. /\ pc[t] = "print" /\ n \in Names /\ room \in Nat
      /\ d \in Seq(Chars) /\ File(t) \in Contents
      /\ Extend(t, d)
      /\ Answer(t, <<"count", Len(d)>>) /\ Goto(t, "unlock")
      /\ UNCHANGED <<orphans, call, mutex, reading, left, before>>
      /\ call[t].op \in {"write", "append"}
      /\ IF call[t].op = "append" THEN Disk = before /\ File(t) # Absent
         ELSE Truncated(t)
  BY FileStoreAssumption DEF PrintText, IInv, Types, TypeOK, AtWork, File, Contents
<1>2. call[t].op = "write" => File(t) = <<>>
  BY <1>1 DEF Truncated, File, IInv, Types
<1>3. File(t) # Absent /\ File(t) \in Seq(Chars) /\ Len(File(t)) \in Nat
  BY <1>1, <1>2, EmptyContent, LenProperties DEF Contents
<1>4. Types
  BY DEF IInv
<1>5. /\ new \in Seq(Chars) /\ Len(new) = Len(File(t)) + Len(fit)
      /\ files' \in [Names -> Contents] /\ room' \in Nat
      /\ files' = [files EXCEPT ![n] = new]
      /\ room' = room + Len(File(t)) - Len(new)
  BY <1>1, <1>3, <1>4, Extends
<1>6. /\ fit \in Seq(Chars) /\ Len(d) \in Nat
      /\ Len(fit) = IF Len(d) <= room THEN Len(d) ELSE room
      /\ Len(d) <= room => fit = d
  BY <1>1, Fits, LenProperties
<1>7. /\ SubSeq(new, Len(File(t)) + 1, Len(new)) = fit
      /\ SubSeq(new, 1, Len(File(t))) = File(t)
  BY <1>3, <1>6, Behind
<1>8. /\ pc'[t] = "unlock" /\ answer'[t] = <<"count", Len(d)>>
      /\ File(t)' = new
  BY <1>1, <1>5 DEF Goto, Answer, File, IInv, Types, TypeOK
<1>9. Types'
  BY <1>1, <1>5, TypesKept DEF reading, IInv, Types, TypeOK, Steps
<1>10. Reads'
  BY <1>1, ReadsKept DEF Steps
<1> HIDE DEF new, fit
<1>11. Counted(t)'
  <2>1. CASE Len(d) > room
    <3>1. room' = 0
      BY <1>1, <1>3, <1>5, <1>6, <2>1
    <3> QED
      BY <3>1 DEF Counted
  <2>2. CASE Len(d) <= room
    <3>1. fit = d /\ Len(new) - Len(d) = Len(File(t))
      BY <1>3, <1>5, <1>6, <2>2
    <3>2. call[t].op = "write" => Len(File(t)) = 0
      BY <1>2, EmptyContent
    <3>3. call[t].op # "write" => File(t) = before.files[n]
      BY <1>1 DEF Disk, File
    <3>4. /\ Len(new) - Len(d) >= 0
          /\ SubSeq(new, Len(new) - Len(d) + 1, Len(new)) = d
          /\ IF call[t].op = "write" THEN Len(new) - Len(d) = 0
             ELSE SubSeq(new, 1, Len(new) - Len(d)) = before.files[n]
      <4>1. Len(new) - Len(d) >= 0
        BY <1>3, <3>1
      <4>2. SubSeq(new, Len(new) - Len(d) + 1, Len(new)) = d
        BY <1>7, <3>1
      <4>3. SubSeq(new, 1, Len(new) - Len(d)) = File(t)
        BY <1>7, <3>1
      <4>4. CASE call[t].op = "write"
        BY <3>1, <3>2, <4>1, <4>2, <4>4
      <4>5. CASE call[t].op # "write"
        BY <3>3, <4>1, <4>2, <4>3, <4>5
      <4> QED
        BY <4>4, <4>5
    <3> QED
      BY <1>1, <1>8, <3>4 DEF Counted
  <2> QED
    BY <1>1, <1>6, <2>1, <2>2
<1>12. AtWork(t)'
  BY <1>8, <1>11 DEF AtWork
<1> QED
  BY <1>1, <1>9, <1>10, <1>12, Continues DEF Held

(* fprintf has met a full disk.                                            *)
LEMMA RefusedIInv ==
  ASSUME IInv, NEW t \in Threads, PrintText(t),
         NEW k \in 0..Len(call[t].data),
         Extend(t, SubSeq(call[t].data, 1, k)), Answer(t, <<"refused">>)
  PROVE  IInv'
<1>1. /\ pc[t] = "print" /\ Goto(t, "unlock") /\ Types
      /\ UNCHANGED <<orphans, call, mutex, reading, left, before>>
  BY DEF PrintText, IInv
<1>2. SubSeq(call[t].data, 1, k) \in Seq(Chars)
  <2>1. call[t].data \in Seq(Chars)
    BY FileStoreAssumption DEF IInv, Types
  <2> QED
    BY <2>1, LenProperties, ElementOfSeq, SubSeqProperties
<1>3. File(t) # Absent
  BY <1>1, EmptyContent DEF IInv, Types, AtWork, Truncated, File
<1>4. files' \in [Names -> Contents] /\ room' \in Nat
  BY <1>1, <1>2, <1>3, Extends
<1>5. Types'
  BY <1>1, <1>4, TypesKept DEF reading, IInv, Types, TypeOK, Steps
<1>6. pc'[t] = "unlock" /\ answer'[t][1] = "refused"
  BY <1>1 DEF Goto, Answer, IInv, Types, TypeOK
<1>7. AtWork(t)'
  BY <1>6 DEF AtWork, Counted
<1>8. Reads'
  BY <1>1, ReadsKept DEF Steps
<1> QED
  BY <1>1, <1>5, <1>7, <1>8, Continues DEF Held

LEMMA PrintTextIInv ==
  ASSUME IInv, NEW t \in Threads, PrintText(t)
  PROVE  IInv'
<1>1. CASE Extend(t, call[t].data) /\ Answer(t, <<"count", Len(call[t].data)>>)
  BY <1>1, PrintedIInv
<1>2. CASE /\ Len(call[t].data) > room
           /\ \E k \in 0..room : Extend(t, SubSeq(call[t].data, 1, k))
           /\ Answer(t, <<"refused">>)
  <2>1. PICK k \in 0..room : Extend(t, SubSeq(call[t].data, 1, k))
    BY <1>2
  <2>2. k \in 0..Len(call[t].data)
    <3>1. call[t].data \in Seq(Chars) /\ room \in Nat
      BY FileStoreAssumption DEF IInv, Types, TypeOK
    <3> QED
      BY <1>2, <3>1, LenProperties
  <2> QED
    BY <1>2, <2>1, <2>2, RefusedIInv
<1> QED
  BY <1>1, <1>2 DEF PrintText

LEMMA RemoveIInv ==
  ASSUME IInv, NEW t \in Threads, Remove(t)
  PROVE  IInv'
<1>1. /\ pc[t] = "remove" /\ Disk = before /\ call[t].op = "delete"
      /\ UNCHANGED <<disk, call, mutex, reading, left, before>>
  BY DEF Remove, IInv, AtWork
<1>2. PICK step \in {"rm", "unlock"} :
        /\ Goto(t, step)
        /\ \/ step = "rm" /\ UNCHANGED answer
           \/ step = "unlock" /\ Answer(t, <<"deleted">>)
  BY DEF Remove
<1>3. step \in Steps \ {"getc"} /\ step \in Held
  BY DEF Steps, Held
<1>4. Types'
  BY <1>1, <1>2, <1>3, TypesKept DEF disk, reading, IInv, Types, TypeOK, Contents
<1>5. pc'[t] = step /\ (step = "unlock" => answer'[t][1] = "deleted")
  BY <1>2 DEF Goto, Answer, IInv, Types, TypeOK
<1>6. AtWork(t)'
  BY <1>1, <1>5 DEF AtWork, Counted, Disk, disk
<1>7. Reads'
  BY <1>1, <1>2, <1>3, ReadsKept
<1> QED
  BY <1>1, <1>2, <1>3, <1>4, <1>6, <1>7, Continues DEF Held

(* A file that is removed leaves a disk.                                   *)
LEMMA Removed ==
  ASSUME Types, NEW n \in Names, Spec0!Change(n, Absent)
  PROVE  files' \in [Names -> Contents] /\ room' \in Nat
<1>1. Absent \in Contents /\ Spec0!Size(Absent) = 0
  BY Sizes DEF Contents
<1>2. Spec0!Size(files[n]) \in Nat /\ room \in Nat
  BY Sizes DEF Types, TypeOK, Contents
<1> QED
  BY <1>1, <1>2, Changes

LEMMA RmEndsIInv ==
  ASSUME IInv, NEW t \in Threads, RmEnds(t)
  PROVE  IInv'
<1>1. /\ pc[t] = "rm" /\ call[t].name \in Names /\ Types
      /\ Answer(t, <<"deleted">>) /\ Goto(t, "unlock")
      /\ UNCHANGED <<orphans, call, mutex, reading, left, before>>
  BY DEF RmEnds, IInv, Types
<1>2. files' \in [Names -> Contents] /\ room' \in Nat
  <2>1. CASE Spec0!Change(call[t].name, Absent)
    BY <1>1, <2>1, Removed
  <2>2. CASE UNCHANGED disk
    BY <2>2 DEF disk, IInv, Types, TypeOK, Contents
  <2> QED
    BY <2>1, <2>2 DEF RmEnds
<1>3. Types'
  BY <1>1, <1>2, TypesKept DEF reading, IInv, Types, TypeOK, Steps
<1>4. pc'[t] = "unlock" /\ answer'[t][1] = "deleted"
  BY <1>1 DEF Goto, Answer, IInv, Types, TypeOK
<1>5. AtWork(t)'
  BY <1>4 DEF AtWork, Counted
<1>6. Reads'
  BY <1>1, ReadsKept DEF Steps
<1> QED
  BY <1>1, <1>3, <1>5, <1>6, Continues DEF Held

LEMMA ListIInv ==
  ASSUME IInv, NEW t \in Threads, List(t)
  PROVE  IInv'
<1>1. /\ pc[t] = "list" /\ Goto(t, "unlock")
      /\ Answer(t, <<"names", IF left = 0 THEN {} ELSE Spec0!Existing(files)>>)
      /\ left' = (IF left = 0 THEN 0 ELSE left - 1)
      /\ UNCHANGED <<disk, call, mutex, reading, before>>
  BY DEF List
<1>2. left' \in 0..Descriptors
  BY <1>1, FileStoreAssumption DEF IInv, Types, TypeOK
<1>3. \E r : Answer(t, r)
  BY <1>1
<1>4. Types'
  BY <1>1, <1>2, <1>3, TypesKept DEF disk, reading, IInv, Types, TypeOK, Steps, Contents
<1>5. pc'[t] = "unlock" /\ answer'[t][1] = "names"
  BY <1>1 DEF Goto, Answer, IInv, Types, TypeOK
<1>6. AtWork(t)'
  BY <1>5 DEF AtWork, Counted
<1>7. Reads'
  BY <1>1, ReadsKept DEF Steps
<1> QED
  BY <1>1, <1>4, <1>6, <1>7, Continues DEF Held

(* The end of the process leaves a disk on which no operation is at work.  *)
LEMMA DiesIInv ==
  ASSUME IInv, Dies, files' \in [Names -> Contents], room' \in Nat,
         orphans' \subseteq Names
  PROVE  IInv'
<1>1. <<>> \in Data
  BY FileStoreAssumption
<1>2. call' \in [Threads -> [op : Ops, name : Names, data : Data]]
  BY <1>1 DEF Dies, IInv, Types, Spec0!NoCall, Ops
<1>3. /\ pc' \in [Threads -> Steps] /\ mutex' = Nobody
      /\ \A t \in Threads : pc'[t] = "idle"
      /\ capacity' = 0 /\ overrun' = FALSE /\ buffer' = <<>>
      /\ left' \in 0..Descriptors
  BY FileStoreAssumption DEF Dies, Steps
<1>4. before' \in [files : [Names -> Contents], room : Nat]
  BY DEF Dies, Disk
<1>5. DOMAIN answer' = Threads /\ answer' = [t \in Threads |-> answer'[t]]
  BY DEF Dies
<1>6. Types'
  BY <1>2, <1>3, <1>4, <1>5, EmptyContent DEF Types, TypeOK, Contents
<1>7. \A t \in Threads : Owns(t)' /\ AtWork(t)'
  BY <1>3, FileStoreAssumption DEF Owns, AtWork, Held
<1>8. Reads'
  BY <1>3 DEF Reads, OverrunNeedsLongRun
<1> QED
  BY <1>6, <1>7, <1>8 DEF IInv

-----------------------------------------------------------------------------
(* fs_read_file.                                                           *)

LEMMA FopenIInv ==
  ASSUME IInv, NEW t \in Threads, Fopen(t)
  PROVE  IInv'
<1>1. pc[t] = "fopen" /\ Disk = before /\ call[t].op = "read"
  BY DEF Fopen, IInv, AtWork
<1>2. CASE UNCHANGED disk /\ Dies
  BY <1>2, DiesIInv DEF disk, IInv, Types, TypeOK, Contents
<1>3. CASE /\ FileExists(t) /\ left' = left - 1
           /\ buffer' = <<>> /\ capacity' = ReadSize
           /\ Goto(t, "getc")
           /\ UNCHANGED <<disk, call, answer, mutex, overrun, before>>
  <2>1. /\ left \in 0..Descriptors /\ left > 0 /\ File(t) # Absent
        /\ Descriptors \in Nat /\ ReadSize \in Nat
    BY <1>3, FileStoreAssumption DEF FileExists, IInv, Types, TypeOK
  <2>2. left' \in 0..Descriptors
    BY <1>3, <2>1
  <2>3. Types'
    BY <1>3, <2>1, <2>2, EmptyContent, TypesKept
       DEF disk, IInv, Types, TypeOK, Steps, Contents
  <2>4. /\ pc'[t] = "getc" /\ File(t)' = File(t) /\ Disk' = before'
        /\ call'[t].op = "read"
    BY <1>1, <1>3 DEF Goto, IInv, Types, TypeOK, File, Disk, disk
  <2>5. buffer' = SubSeq(File(t), 1, Len(buffer')) /\ Len(buffer') = 0
    BY <1>3, EmptyContent, SubSeqEmpty
  <2>6. Len(File(t)) \in Nat
    <3>1. File(t) \in Seq(Chars)
      BY <2>1 DEF File, IInv, Types, TypeOK
    <3> QED
      BY <3>1, LenProperties
  <2>7. AtWork(t)'
    BY <2>1, <2>4, <2>5, <2>6 DEF AtWork
  <2>8. GrownAt(1)'
    BY <1>3, <2>1, <2>5 DEF GrownAt
  <2>9. \A u \in Threads : pc[u] # "getc"
    BY <1>1, Exclusion DEF Held
  <2>10. overrun' = FALSE
    BY <1>3, <2>9 DEF IInv, Reads
  <2>11. Reads'
    BY <2>4, <2>5, <2>8, <2>10 DEF Reads, OverrunNeedsLongRun
  <2> QED
    BY <1>1, <1>3, <2>3, <2>7, <2>11, Continues DEF Held
<1> QED
  BY <1>2, <1>3 DEF Fopen

(* The buffer has the beginning of the file, and is as long as the last    *)
(* character that made it grow has made it.                                *)
LEMMA GetcIInv ==
  ASSUME IInv, NEW t \in Threads, Getc(t)
  PROVE  IInv'
<1> DEFINE c == File(t)[Len(buffer) + 1]
           L == Len(buffer)
<1>1. /\ pc[t] = "getc" /\ L < Len(File(t)) /\ call[t].op = "read"
      /\ Disk = before /\ File(t) # Absent
      /\ buffer = SubSeq(File(t), 1, L)
      /\ mutex = t
  BY Exclusion DEF Getc, IInv, AtWork, Held
<1>2. CASE UNCHANGED disk /\ Dies
  BY <1>2, DiesIInv DEF disk, IInv, Types, TypeOK, Contents
<1>3. CASE /\ capacity' = Grown(c)
           /\ buffer' = Append(buffer, c)
           /\ overrun' = (overrun \/ Len(buffer) >= Grown(c))
           /\ UNCHANGED <<disk, pc, call, answer, mutex, left, before>>
  <2>1. /\ File(t) \in Seq(Chars) /\ Len(File(t)) \in Nat
        /\ buffer \in Seq(Chars) /\ L \in Nat
    <3>1. File(t) \in Seq(Chars) /\ buffer \in Seq(Chars)
      BY <1>1 DEF File, IInv, Types, TypeOK
    <3> QED
      BY <3>1, LenProperties
  <2>2. c \in Chars
    BY <1>1, <2>1, ElementOfSeq
  <2>3. PICK k \in 1..(L + 1) :
          /\ capacity = ReadSize + k - 1
          /\ \A j \in (k + 1)..L : buffer[j] \notin Growers
    BY <1>1 DEF IInv, Reads, GrownAt
  <2> HIDE DEF c
  <2>4. /\ buffer' \in Seq(Chars) /\ Len(buffer') = L + 1
        /\ \A j \in 1..L : buffer'[j] = buffer[j]
        /\ buffer'[L + 1] = c
    BY <1>3, <2>1, <2>2, AppendProperties
  <2>5. Grown(c) \in Nat
    BY <2>1, FileStoreAssumption DEF Grown, IInv, Types, TypeOK
  <2>6. Types'
    BY <1>3, <2>4, <2>5 DEF disk, IInv, Types, TypeOK
  <2>7. File(t)' = File(t) /\ Disk' = Disk
    BY <1>3 DEF File, Disk, disk
  <2>8. buffer' = SubSeq(File(t), 1, L + 1)
    <3> DEFINE f == File(t)
    <3>1. f \in Seq(Chars) /\ Len(f) \in Nat /\ L < Len(f) /\ L \in Nat /\ c = f[L + 1]
      BY <1>1, <2>1 DEF c
    <3> HIDE DEF f, L
    <3>2. \A j \in 1..(L + 1) : f[j] \in Chars
      BY <3>1, ElementOfSeq
    <3>3. /\ SubSeq(f, 1, L + 1) \in Seq(Chars)
          /\ Len(SubSeq(f, 1, L + 1)) = L + 1
          /\ \A j \in 1..(L + 1) : SubSeq(f, 1, L + 1)[j] = f[j]
      BY <3>1, <3>2, SubSeqProperties
    <3>4. \A j \in 1..L : SubSeq(f, 1, L)[j] = f[j]
      BY <3>1, <3>2, SubSeqProperties
    <3>5. \A j \in 1..L : buffer[j] = f[j]
      BY <1>1, <3>4 DEF f
    <3>6. \A j \in 1..(L + 1) : buffer'[j] = f[j]
      BY <2>4, <3>1, <3>5
    <3>7. buffer' = SubSeq(f, 1, L + 1)
      BY <2>4, <3>1, <3>3, <3>6, SeqEqual
    <3> QED
      BY <3>7 DEF f
  <2>9. AtWork(t)'
    BY <1>1, <1>3, <2>1, <2>4, <2>7, <2>8 DEF AtWork
  <2>10. \E i \in 1..(L + 2) : GrownAt(i)'
    <3>1. CASE c \in Growers
      <4>1. PICK i \in 1..(L + 2) : i = L + 1
        BY <2>1
      <4>2. capacity' = ReadSize + i - 1
        BY <1>3, <2>1, <3>1, <4>1, FileStoreAssumption DEF Grown
      <4>3. GrownAt(i)'
        BY <2>1, <2>4, <4>1, <4>2 DEF GrownAt
      <4> QED
        BY <4>3
    <3>2. CASE c \notin Growers
      <4>1. capacity' = capacity
        BY <1>3, <3>2 DEF Grown
      <4>2. \A j \in (k + 1)..(L + 1) : buffer'[j] \notin Growers
        BY <2>1, <2>3, <2>4, <3>2
      <4>3. GrownAt(k)'
        BY <2>3, <2>4, <4>1, <4>2 DEF GrownAt
      <4> QED
        BY <2>1, <4>3
    <3> QED
      BY <3>1, <3>2
  <2>11. OverrunNeedsLongRun'
    <3> SUFFICES ASSUME overrun'
                 PROVE  \E i \in 1..(L + 1) :
                          /\ i + ReadSize <= L + 1
                          /\ \A j \in (i + 1)..(i + ReadSize) : buffer'[j] \notin Growers
      BY <2>4 DEF OverrunNeedsLongRun
    <3>1. CASE overrun
      <4>1. PICK i \in 1..L :
              /\ i + ReadSize <= L
              /\ \A j \in (i + 1)..(i + ReadSize) : buffer[j] \notin Growers
        BY <3>1 DEF IInv, Reads, OverrunNeedsLongRun
      <4>2. ASSUME NEW j \in (i + 1)..(i + ReadSize)
            PROVE  buffer'[j] \notin Growers
        <5>1. j \in 1..L
          BY <2>1, <4>1, FileStoreAssumption
        <5>2. buffer'[j] = buffer[j] /\ buffer[j] \notin Growers
          BY <2>4, <4>1, <5>1
        <5> QED
          BY <5>2
      <4>3. i \in 1..(L + 1) /\ i + ReadSize <= L + 1
        BY <2>1, <4>1, FileStoreAssumption
      <4> QED
        BY <4>2, <4>3
    <3>2. CASE L >= Grown(c)
      <4>1. c \notin Growers /\ L >= capacity
        BY <2>1, <3>2, FileStoreAssumption DEF Grown
      <4>2. k + ReadSize <= L + 1 /\ k \in 1..L
        BY <2>1, <2>3, <4>1, FileStoreAssumption
      <4>3. ASSUME NEW j \in (k + 1)..(k + ReadSize)
            PROVE  buffer'[j] \notin Growers
        <5>1. j \in (k + 1)..L \/ j = L + 1
          BY <2>1, <4>2, FileStoreAssumption
        <5>2. CASE j \in (k + 1)..L
          <6>1. j \in 1..L /\ buffer[j] \notin Growers
            BY <2>1, <2>3, <5>2
          <6> QED
            BY <2>4, <6>1
        <5>3. CASE j = L + 1
          BY <2>4, <4>1, <5>3
        <5> QED
          BY <5>1, <5>2, <5>3
      <4> QED
        BY <2>1, <4>2, <4>3
    <3> QED
      BY <1>3, <3>1, <3>2
  <2>12. Reads'
    BY <1>1, <1>3, <2>1, <2>4, <2>10, <2>11 DEF Reads
  <2>13. ASSUME NEW u \in Threads \ {t}
         PROVE  Owns(u)' /\ AtWork(u)'
    <3>1. pc[u] \notin Held /\ (pc[u] = "lock" => call[u].op # "none")
      BY <1>1, Exclusion DEF Held, IInv, AtWork
    <3> QED
      BY <1>1, <1>3, <3>1 DEF Owns, AtWork, Held
  <2>14. Owns(t)'
    BY <1>1, <1>3 DEF Owns, Held
  <2> QED
    BY <2>6, <2>9, <2>12, <2>13, <2>14 DEF IInv
<1> QED
  BY <1>2, <1>3 DEF Getc

LEMMA EndOfFileIInv ==
  ASSUME IInv, NEW t \in Threads, EndOfFile(t)
  PROVE  IInv'
<1>1. /\ pc[t] = "getc" /\ Goto(t, "unlock")
      /\ buffer' = <<>> /\ capacity' = 0 /\ overrun' = FALSE
      /\ UNCHANGED <<disk, call, mutex, left, before>>
  BY DEF EndOfFile
<1>2. PICK junk \in BOOLEAN : Answer(t, <<"text", buffer, junk>>)
  BY DEF EndOfFile
<1>3. pc'[t] = "unlock" /\ \A u \in Threads \ {t} : pc'[u] = pc[u]
  BY <1>1 DEF Goto, IInv, Types, TypeOK
<1>4. \A u \in Threads : pc'[u] # "getc"
  BY <1>1, <1>3, Exclusion DEF Held
<1>5. Types'
  BY <1>1, <1>2, EmptyContent, TypesKept DEF disk, IInv, Types, TypeOK, Steps, Contents
<1>6. answer'[t][1] = "text"
  BY <1>2 DEF Answer, IInv, Types
<1>7. AtWork(t)'
  BY <1>3, <1>6 DEF AtWork, Counted
<1>8. Reads'
  BY <1>1, <1>4 DEF Reads, OverrunNeedsLongRun
<1> QED
  BY <1>1, <1>5, <1>7, <1>8, Continues DEF Held

LEMMA KilledIInv ==
  ASSUME IInv, Killed
  PROVE  IInv'
<1>1. CASE UNCHANGED <<files, room>> /\ orphans' \subseteq Names
  BY <1>1, DiesIInv DEF Killed, IInv, Types, TypeOK, Contents
<1>2. CASE UNCHANGED disk
  BY <1>1, <1>2 DEF disk, IInv, Types, TypeOK
<1>3. ASSUME NEW t \in Threads, pc[t] = "print",
             NEW k \in 0..Len(call[t].data),
             Extend(t, SubSeq(call[t].data, 1, k)), UNCHANGED orphans
      PROVE  IInv'
  <2>1. call[t].data \in Seq(Chars)
    BY FileStoreAssumption DEF IInv, Types
  <2>2. SubSeq(call[t].data, 1, k) \in Seq(Chars)
    BY <2>1, LenProperties, ElementOfSeq, SubSeqProperties
  <2>3. File(t) # Absent
    BY <1>3, EmptyContent DEF IInv, Types, AtWork, Truncated, File
  <2>4. files' \in [Names -> Contents] /\ room' \in Nat
    BY <1>3, <2>2, <2>3, Extends DEF IInv
  <2>5. orphans' \subseteq Names
    BY <1>3 DEF IInv, Types, TypeOK
  <2> QED
    BY <2>4, <2>5, DiesIInv DEF Killed
<1>4. ASSUME NEW t \in Threads, UNCHANGED <<files, room>>,
             orphans' = orphans \cup {call[t].name}
      PROVE  IInv'
  BY <1>1, <1>4 DEF IInv, Types, TypeOK
<1> QED
  BY <1>2, <1>3, <1>4 DEF Killed

(* No operation is at work when a late rm removes its file.                *)
LEMMA LateRmIInv ==
  ASSUME IInv, NEW n \in Names, LateRm(n)
  PROVE  IInv'
<1>1. /\ mutex = Nobody /\ before' = Disk' /\ Types
      /\ Spec0!Change(n, Absent) /\ orphans' \in {orphans, orphans \ {n}}
      /\ UNCHANGED <<pc, call, answer, mutex, reading, left>>
  BY DEF LateRm, IInv
<1>2. files' \in [Names -> Contents] /\ room' \in Nat
  BY <1>1, Removed
<1>3. before' \in [files : [Names -> Contents], room : Nat]
  BY <1>1, <1>2 DEF Disk
<1>4. Types'
  BY <1>1, <1>2, <1>3 DEF Types, TypeOK, reading, Contents
<1>5. ASSUME NEW t \in Threads
      PROVE  Owns(t)' /\ AtWork(t)'
  <2>1. pc[t] \notin Held /\ (pc[t] = "lock" => call[t].op # "none")
    BY <1>1, FileStoreAssumption DEF IInv, Owns, AtWork
  <2> QED
    BY <1>1, <2>1, FileStoreAssumption DEF Owns, AtWork, Held
<1>6. Reads'
  BY <1>1 DEF reading, IInv, Reads, GrownAt, OverrunNeedsLongRun
<1> QED
  BY <1>4, <1>5, <1>6 DEF IInv

-----------------------------------------------------------------------------

LEMMA NextIInv == IInv /\ [Next]_vars => IInv'
<1> SUFFICES ASSUME IInv, [Next]_vars
             PROVE  IInv'
  OBVIOUS
<1>1. CASE UNCHANGED vars
  <2>1. Types'
    BY <1>1 DEF vars, disk, reading, IInv, Types, TypeOK
  <2>2. \A t \in Threads : Owns(t)' /\ AtWork(t)'
    BY <1>1, StillAtWork DEF vars, disk, reading, IInv, Owns
  <2>3. Reads'
    BY <1>1 DEF vars, disk, reading, IInv, Reads, GrownAt, OverrunNeedsLongRun
  <2> QED
    BY <2>1, <2>2, <2>3 DEF IInv
<1>2. ASSUME NEW t \in Threads, Call(t) \/ Lock(t) \/ Work(t)
      PROVE  IInv'
  BY <1>2, CallIInv, LockIInv, UnlockIInv, ReturnIInv, PrepareIInv, OpenIInv,
     PrintTextIInv, RemoveIInv, RmEndsIInv, ListIInv, FopenIInv, GetcIInv, EndOfFileIInv
     DEF Work
<1> QED
  BY <1>1, <1>2, KilledIInv, LateRmIInv DEF Next

LEMMA Inductive == Spec => []IInv
BY InitIInv, NextIInv, PTL DEF Spec

(* Files have characters of the alphabet, and the disk never has less room *)
(* than none; every operation leaves the descriptors in their range.       *)
THEOREM TypeCorrect == Spec => []TypeOK
<1>1. IInv => TypeOK
  BY DEF IInv, Types
<1> QED
  BY <1>1, Inductive, PTL

(* write_file's number: as long as there is room the text is in the file,  *)
(* whatever other threads, kills and full descriptor tables do.            *)
THEOREM CountsAreStored == Spec => []CountMeansStored
<1>1. IInv => CountMeansStored
  BY DEF IInv, AtWork, Counted, CountMeansStored
<1> QED
  BY <1>1, Inductive, PTL

(* fs_read_file is safe for files of at most READ_SIZE characters, for any *)
(* READ_SIZE, and only a run of that many characters that do not make the  *)
(* buffer longer takes it behind its end.                                  *)
THEOREM ReadsSafely == Spec => []OverrunNeedsLongRun
<1>1. IInv => OverrunNeedsLongRun
  BY DEF IInv, Reads
<1> QED
  BY <1>1, Inductive, PTL

-----------------------------------------------------------------------------
(* FileStore implements FileSpec: an operation happens when it is over, an *)
(* interrupted one when the process ends.                                  *)

LEMMA VisibleBefore ==
  ASSUME NEW t \in Threads, Inside(t)
  PROVE  Visible = before
BY DEF Visible

LEMMA InsideHeld ==
  ASSUME Types, NEW t \in Threads
  PROVE  Inside(t) <=> pc[t] \in Held \ {"unlock"}
BY DEF Inside, Held, Types, TypeOK, Steps

LEMMA Stutters ==
  ASSUME Visible' = Visible, UNCHANGED <<orphans, call, answer>>,
         \A t \in Threads : Phase(t)' = Phase(t)
  PROVE  UNCHANGED Abstract!specVars
BY DEF Abstract!specVars

(* A step between two steps inside an operation is not seen.               *)
LEMMA StaysInside ==
  ASSUME IInv, NEW t \in Threads, Inside(t), NEW step, Goto(t, step),
         step \in Held \ {"unlock"}, UNCHANGED <<orphans, call, answer, before>>
  PROVE  UNCHANGED Abstract!specVars
<1>1. pc'[t] = step /\ \A u \in Threads \ {t} : pc'[u] = pc[u]
  BY DEF Goto, IInv, Types, TypeOK
<1>2. Inside(t)'
  BY <1>1 DEF Inside, Held
<1>3. Visible' = before' /\ Visible = before
  BY <1>2 DEF Visible
<1>4. \A u \in Threads : Phase(u)' = Phase(u)
  BY <1>1, <1>2 DEF Phase, Inside
<1> QED
  BY <1>3, <1>4, Stutters

(* What an operation has done is seen when it is over.                     *)
LEMMA Finishes ==
  ASSUME IInv, NEW t \in Threads, Inside(t), Goto(t, "unlock"),
         UNCHANGED <<orphans, call>>, NEW s, NEW r, Answer(t, r),
         files' = [before.files EXCEPT ![call[t].name] = s],
         room' = before.room + Spec0!Size(before.files[call[t].name])
                 - Spec0!Size(s),
         Abstract!Outcome(call[t], s, r)
  PROVE  Abstract!SpecDo(t)
<1> DEFINE n == call[t].name
<1>1. pc'[t] = "unlock" /\ \A u \in Threads \ {t} : pc'[u] = pc[u]
  BY DEF Goto, IInv, Types, TypeOK
<1>2. \A u \in Threads \ {t} : ~Inside(u)
  BY Exclusion, InsideHeld DEF IInv
<1>3. \A u \in Threads : ~Inside(u)'
  BY <1>1, <1>2 DEF Inside
<1>4. Visible = before /\ Visible' = Disk'
  BY <1>3 DEF Visible
<1>5. Visible'.files = files' /\ Visible'.room = room'
  BY <1>4 DEF Disk
<1>6. n \in Names /\ files'[n] = s
  BY DEF IInv, Types
<1>7. answer'[t] = r /\ answer' = [answer EXCEPT ![t] = answer'[t]]
  BY DEF Answer, IInv, Types
<1>8. [u \in Threads |-> Phase(u)'] = [[u \in Threads |-> Phase(u)] EXCEPT ![t] = "done"]
  <2>1. Phase(t)' = "done"
    BY <1>1 DEF Phase
  <2>2. \A u \in Threads \ {t} : Phase(u)' = Phase(u)
    BY <1>1 DEF Phase
  <2> QED
    BY <2>1, <2>2
<1>9. Phase(t) = "called"
  BY DEF Phase, Inside
<1>10. Abstract!Change(n, s)
  BY <1>4, <1>5 DEF Abstract!Change, Spec0!Size, Abstract!Size
<1> QED
  BY <1>5, <1>6, <1>7, <1>8, <1>9, <1>10 DEF Abstract!SpecDo

(* An operation that leaves the disk as it found it.                       *)
LEMMA FinishesUnchanged ==
  ASSUME IInv, NEW t \in Threads, Inside(t), Goto(t, "unlock"), call' = call,
         NEW r, Answer(t, r), Disk = before, UNCHANGED disk,
         Abstract!Outcome(call[t], before.files[call[t].name], r)
  PROVE  Abstract!SpecDo(t)
<1> DEFINE n == call[t].name
<1>1. n \in Names /\ before.files \in [Names -> Contents] /\ before.room \in Nat
  BY DEF IInv, Types
<1>2. files' = before.files /\ room' = before.room
  BY DEF Disk, disk
<1>3. before.files = [before.files EXCEPT ![n] = before.files[n]]
  BY <1>1
<1>4. before.room = before.room + Spec0!Size(before.files[n])
                    - Spec0!Size(before.files[n])
  BY <1>1, Sizes
<1> QED
  BY <1>2, <1>3, <1>4, Finishes DEF disk

-----------------------------------------------------------------------------

LEMMA InitRefines == Init => Abstract!SpecInit
<1> SUFFICES ASSUME Init
             PROVE  Abstract!SpecInit
  OBVIOUS
<1>1. \A t \in Threads : ~Inside(t) /\ Phase(t) = "idle"
  BY DEF Init, Inside, Phase
<1>2. Visible.files = files /\ Visible.room = room
  BY <1>1 DEF Visible, Disk
<1> QED
  BY <1>1, <1>2 DEF Init, Abstract!SpecInit, Spec0!NoCall, Abstract!NoCall

LEMMA CallRefines ==
  ASSUME IInv, NEW t \in Threads, Call(t)
  PROVE  Abstract!SpecCall(t)
<1>1. /\ pc[t] = "idle" /\ Goto(t, "lock")
      /\ UNCHANGED <<disk, answer, before>>
  BY DEF Call
<1>2. pc'[t] = "lock" /\ \A u \in Threads \ {t} : pc'[u] = pc[u]
  BY <1>1 DEF Goto, IInv, Types, TypeOK
<1>3. \A u \in Threads : Inside(u)' <=> Inside(u)
  BY <1>1, <1>2 DEF Inside
<1>4. Visible' = Visible
  BY <1>1, <1>3 DEF Visible, Disk, disk
<1>5. [u \in Threads |-> Phase(u)'] = [[u \in Threads |-> Phase(u)] EXCEPT ![t] = "called"]
  <2>1. Phase(t)' = "called"
    BY <1>2 DEF Phase
  <2>2. \A u \in Threads \ {t} : Phase(u)' = Phase(u)
    BY <1>2 DEF Phase
  <2> QED
    BY <2>1, <2>2
<1>6. Phase(t) = "idle"
  BY <1>1 DEF Phase
<1>7. \E o \in Abstract!Operations, n \in Names, s \in Data :
        /\ Abstract!Takes(o, s)
        /\ call' = [call EXCEPT ![t] = [op |-> o, name |-> n, data |-> s]]
  BY DEF Call, Spec0!Operations, Abstract!Operations, Spec0!Takes, Abstract!Takes
<1> QED
  BY <1>1, <1>4, <1>5, <1>6, <1>7 DEF Abstract!SpecCall, disk

LEMMA LockRefines ==
  ASSUME IInv, NEW t \in Threads, Lock(t)
  PROVE  UNCHANGED Abstract!specVars
<1>1. /\ pc[t] = "lock" /\ mutex = Nobody /\ before' = Disk
      /\ Goto(t, FirstStep(call[t].op))
      /\ UNCHANGED <<disk, call, answer>>
  BY DEF Lock
<1>2. call[t].op \in Ops \ {"none"}
  BY <1>1 DEF IInv, Types, AtWork
<1>3. FirstStep(call[t].op) \in {"prepare", "remove", "fopen", "list"}
  BY <1>2 DEF FirstStep, Ops
<1>4. /\ pc'[t] \in {"prepare", "remove", "fopen", "list"}
      /\ \A u \in Threads \ {t} : pc'[u] = pc[u]
  BY <1>1, <1>3 DEF Goto, IInv, Types, TypeOK
<1>5. \A u \in Threads : ~Inside(u)
  BY <1>1, FileStoreAssumption, InsideHeld DEF IInv, Owns
<1>6. Inside(t)'
  BY <1>4 DEF Inside
<1>7. Visible' = before' /\ Visible = Disk
  BY <1>5, <1>6 DEF Visible
<1>8. \A u \in Threads : Phase(u)' = Phase(u)
  BY <1>1, <1>4 DEF Phase
<1> QED
  BY <1>1, <1>7, <1>8, Stutters DEF disk

LEMMA UnlockRefines ==
  ASSUME IInv, NEW t \in Threads, Unlock(t)
  PROVE  UNCHANGED Abstract!specVars
<1>1. /\ pc[t] = "unlock" /\ Goto(t, "done") /\ before' = Disk
      /\ UNCHANGED <<disk, call, answer>>
  BY DEF Unlock
<1>2. pc'[t] = "done" /\ \A u \in Threads \ {t} : pc'[u] = pc[u]
  BY <1>1 DEF Goto, IInv, Types, TypeOK
<1>3. \A u \in Threads : Inside(u)' <=> Inside(u)
  BY <1>1, <1>2 DEF Inside
<1>4. \A u \in Threads : ~Inside(u)
  <2>1. \A u \in Threads \ {t} : pc[u] \notin Held
    BY <1>1, Exclusion DEF Held
  <2> QED
    BY <1>1, <2>1, InsideHeld DEF IInv
<1>5. Visible' = Visible
  BY <1>1, <1>3, <1>4 DEF Visible, Disk, disk
<1>6. \A u \in Threads : Phase(u)' = Phase(u)
  BY <1>1, <1>2 DEF Phase
<1> QED
  BY <1>1, <1>5, <1>6, Stutters DEF disk

LEMMA ReturnRefines ==
  ASSUME IInv, NEW t \in Threads, Return(t)
  PROVE  Abstract!SpecReturn(t)
<1>1. /\ pc[t] = "done" /\ Goto(t, "idle")
      /\ call' = [call EXCEPT ![t] = Spec0!NoCall(call[t].name)]
      /\ Answer(t, <<"none">>)
      /\ UNCHANGED <<disk, before>>
  BY DEF Return
<1>2. pc'[t] = "idle" /\ \A u \in Threads \ {t} : pc'[u] = pc[u]
  BY <1>1 DEF Goto, IInv, Types, TypeOK
<1>3. \A u \in Threads : Inside(u)' <=> Inside(u)
  BY <1>1, <1>2 DEF Inside
<1>4. Visible' = Visible
  BY <1>1, <1>3 DEF Visible, Disk, disk
<1>5. [u \in Threads |-> Phase(u)'] = [[u \in Threads |-> Phase(u)] EXCEPT ![t] = "idle"]
  <2>1. Phase(t)' = "idle"
    BY <1>2 DEF Phase
  <2>2. \A u \in Threads \ {t} : Phase(u)' = Phase(u)
    BY <1>2 DEF Phase
  <2> QED
    BY <2>1, <2>2
<1>6. Phase(t) = "done"
  BY <1>1 DEF Phase
<1> QED
  BY <1>1, <1>4, <1>5, <1>6
     DEF Abstract!SpecReturn, Answer, Spec0!NoCall, Abstract!NoCall, disk

(* A write or append that could not open its file finds the disk as it     *)
(* was, whichever fopen has failed.                                        *)
LEMMA RefuseRefines ==
  ASSUME IInv, NEW t \in Threads, Inside(t), Refuse(t), call' = call,
         call[t].op \in {"write", "append"}, Disk = before
  PROVE  Abstract!SpecDo(t)
<1>1. Visible = before
  BY VisibleBefore
<1>2. Abstract!Outcome(call[t], before.files[call[t].name], <<"refused">>)
  BY <1>1 DEF Abstract!Outcome
<1> QED
  BY <1>2, FinishesUnchanged DEF Refuse

LEMMA PrepareRefines ==
  ASSUME IInv, NEW t \in Threads, Prepare(t)
  PROVE  Abstract!SpecDo(t) \/ UNCHANGED Abstract!specVars
<1>1. /\ pc[t] = "prepare" /\ UNCHANGED <<orphans, call, before>>
      /\ Disk = before /\ call[t].op \in {"write", "append"}
  BY DEF Prepare, IInv, AtWork
<1>2. Inside(t) /\ "open" \in Held \ {"unlock"}
  BY <1>1 DEF Inside, Held
<1>3. CASE Refuse(t)
  BY <1>1, <1>2, <1>3, RefuseRefines
<1>4. CASE Goto(t, "open") /\ UNCHANGED answer
  BY <1>1, <1>2, <1>4, StaysInside
<1> QED
  BY <1>3, <1>4 DEF Prepare

LEMMA OpenRefines ==
  ASSUME IInv, NEW t \in Threads, Open(t)
  PROVE  Abstract!SpecDo(t) \/ UNCHANGED Abstract!specVars
<1>1. /\ pc[t] = "open" /\ UNCHANGED <<orphans, call, before>>
      /\ call[t].op \in {"write", "append"} /\ left \in Nat
      /\ left = 0 => Disk = before
  BY DEF Open, IInv, AtWork, Types, TypeOK
<1>2. Inside(t) /\ "print" \in Held \ {"unlock"}
  BY <1>1 DEF Inside, Held
<1>3. CASE left = 0 /\ Refuse(t)
  BY <1>1, <1>2, <1>3, RefuseRefines
<1>4. CASE Goto(t, "print") /\ UNCHANGED answer
  BY <1>1, <1>2, <1>4, StaysInside
<1> QED
  BY <1>3, <1>4 DEF Open

(* What a thread that prints has before it: the file that will be kept,    *)
(* and the room there is for the text.                                     *)
LEMMA Printing ==
  ASSUME IInv, NEW t \in Threads, pc[t] = "print"
  PROVE  LET n == call[t].name IN
         /\ Inside(t) /\ Visible = before /\ n \in Names
         /\ call[t].op \in {"write", "append"}
         /\ call[t].data \in Seq(Chars)
         /\ Abstract!Writes(call[t]) /\ Phase(t) = "called"
         /\ File(t) = Abstract!Kept(call[t])
         /\ File(t) \in Seq(Chars) /\ File(t) # Absent /\ room \in Nat
         /\ Len(File(t)) \in Nat /\ before.room \in Nat
         /\ Spec0!Size(before.files[n]) \in Nat
         /\ room + Len(File(t)) = before.room + Spec0!Size(before.files[n])
         /\ room = Abstract!RoomFor(call[t])
         /\ \A s : [files EXCEPT ![n] = s] = [before.files EXCEPT ![n] = s]
<1> DEFINE n == call[t].name
<1>1. /\ Inside(t) /\ n \in Names /\ call[t].op \in {"write", "append"}
      /\ call[t].data \in Seq(Chars) /\ room \in Nat
      /\ before.files \in [Names -> Contents] /\ before.room \in Nat
      /\ files \in [Names -> Contents]
      /\ IF call[t].op = "append" THEN Disk = before /\ File(t) # Absent
         ELSE Truncated(t)
  BY FileStoreAssumption DEF Inside, IInv, Types, TypeOK, AtWork, Contents
<1>2. Visible = before
  BY <1>1, VisibleBefore
<1>3. Spec0!Size(before.files[n]) \in Nat
  BY <1>1, Sizes
<1>4. \A s : Spec0!Size(s) = Abstract!Size(s)
  BY DEF Spec0!Size, Abstract!Size
<1>7. Phase(t) = "called"
  BY DEF Phase
<1>8. Abstract!RoomFor(call[t]) = before.room + Abstract!Size(before.files[n])
                                  - Abstract!Size(Abstract!Kept(call[t]))
  BY <1>2 DEF Abstract!RoomFor
<1>5. CASE call[t].op = "append"
  <2>1. files = before.files /\ room = before.room /\ File(t) = before.files[n]
    BY <1>1, <1>5 DEF Disk, File
  <2>2. Abstract!Kept(call[t]) = File(t)
    BY <1>2, <1>5, <2>1 DEF Abstract!Kept
  <2>3. File(t) \in Seq(Chars) /\ File(t) # Absent
    BY <1>1, <1>5, <2>1 DEF Contents
  <2>4. Spec0!Size(File(t)) = Len(File(t)) /\ Len(File(t)) \in Nat
    BY <2>3, Sizes, LenProperties
  <2>5. Abstract!Writes(call[t])
    BY <1>1, <1>2, <1>5, <2>1 DEF Abstract!Writes
  <2>6. room = Abstract!RoomFor(call[t])
    BY <1>1, <1>4, <1>8, <2>1, <2>2, <2>4
  <2> QED
    BY <1>1, <1>2, <1>3, <1>7, <2>1, <2>2, <2>3, <2>4, <2>5, <2>6
<1>6. CASE call[t].op = "write"
  <2>1. /\ files = [before.files EXCEPT ![n] = <<>>]
        /\ room = before.room + Spec0!Size(before.files[n])
    BY <1>1, <1>6 DEF Truncated
  <2>2. Abstract!Kept(call[t]) = <<>>
    BY <1>6 DEF Abstract!Kept
  <2>3. File(t) = <<>>
    BY <1>1, <2>1 DEF File
  <2>4. /\ Spec0!Size(<<>>) = 0 /\ Len(<<>>) = 0
        /\ <<>> \in Seq(Chars) /\ <<>> # Absent
    BY Sizes, EmptyContent
  <2>5. \A s : [files EXCEPT ![n] = s] = [before.files EXCEPT ![n] = s]
    BY <1>1, <2>1
  <2>6. /\ room + Len(File(t)) = before.room + Spec0!Size(before.files[n])
        /\ Len(File(t)) \in Nat
    BY <1>1, <1>3, <2>1, <2>3, <2>4
  <2>7. room = Abstract!RoomFor(call[t])
    <3>1. Abstract!Size(Abstract!Kept(call[t])) = 0
      BY <1>4, <2>2, <2>4
    <3>2. Abstract!Size(before.files[n]) = Spec0!Size(before.files[n])
      BY <1>4
    <3> QED
      BY <1>1, <1>3, <1>8, <2>1, <3>1, <3>2
  <2>8. Abstract!Writes(call[t])
    BY <1>6 DEF Abstract!Writes
  <2> QED
    BY <1>1, <1>2, <1>3, <1>6, <1>7, <2>2, <2>3, <2>4, <2>5, <2>6, <2>7, <2>8
<1> QED
  BY <1>1, <1>5, <1>6

LEMMA PrintedRefines ==
  ASSUME IInv, NEW t \in Threads, PrintText(t),
         Extend(t, call[t].data), Answer(t, <<"count", Len(call[t].data)>>)
  PROVE  Abstract!SpecDo(t)
<1> DEFINE n == call[t].name
           d == call[t].data
           new == File(t) \o Spec0!Fitting(d, room)
<1>1. /\ pc[t] = "print" /\ Extend(t, d) /\ Goto(t, "unlock")
      /\ Answer(t, <<"count", Len(d)>>) /\ UNCHANGED <<orphans, call>>
  BY DEF PrintText
<1>2. Types
  BY DEF IInv
<1>3. /\ new \in Seq(Chars)
      /\ files' = [files EXCEPT ![n] = new]
      /\ room' = room + Len(File(t)) - Len(new)
  BY <1>1, <1>2, Printing, Extends
<1>4. new = Abstract!Stored(call[t])
  BY <1>1, Printing DEF Abstract!Stored, Spec0!Fitting, Abstract!Fitting
<1> HIDE DEF new
<1>5. files' = [before.files EXCEPT ![n] = new]
  BY <1>1, <1>3, Printing
<1>6. room' = before.room + Spec0!Size(before.files[n]) - Spec0!Size(new)
  <2>1. Spec0!Size(new) = Len(new)
    BY <1>3, Sizes
  <2>2. /\ room + Len(File(t)) = before.room + Spec0!Size(before.files[n])
        /\ room \in Nat /\ Len(File(t)) \in Nat /\ before.room \in Nat
        /\ Spec0!Size(before.files[n]) \in Nat
    BY <1>1, Printing
  <2>3. Len(new) \in Nat
    BY <1>3, LenProperties
  <2> QED
    BY <1>3, <2>1, <2>2, <2>3
<1>7. Abstract!Outcome(call[t], new, <<"count", Len(d)>>)
  BY <1>1, <1>4, Printing DEF Abstract!Outcome
<1> QED
  BY <1>1, <1>5, <1>6, <1>7, Printing, Finishes

(* Some of the text has been written: the file is torn.                    *)
LEMMA PartPrinted ==
  ASSUME IInv, NEW t \in Threads, pc[t] = "print",
         NEW k \in 0..Len(call[t].data),
         Extend(t, SubSeq(call[t].data, 1, k))
  PROVE  LET n == call[t].name IN
         \E s \in Abstract!Torn(call[t]) :
           /\ files' = [Visible.files EXCEPT ![n] = s]
           /\ room' = Visible.room + Abstract!Size(Visible.files[n])
                      - Abstract!Size(s)
<1> DEFINE n == call[t].name
           d == call[t].data
           part == File(t) \o Spec0!Fitting(SubSeq(d, 1, k), room)
           full == File(t) \o Spec0!Fitting(d, room)
<1>1. d \in Seq(Chars) /\ Types
  BY FileStoreAssumption DEF IInv, Types
<1>2. SubSeq(d, 1, k) \in Seq(Chars)
  BY <1>1, LenProperties, ElementOfSeq, SubSeqProperties
<1>3. /\ part \in Seq(Chars)
      /\ files' = [files EXCEPT ![n] = part]
      /\ room' = room + Len(File(t)) - Len(part)
  BY <1>1, <1>2, Printing, Extends
<1>4. Len(part) \in Len(File(t))..Len(full) /\ part = SubSeq(full, 1, Len(part))
  <2>1. File(t) \in Seq(Chars) /\ room \in Nat
    BY Printing
  <2> QED
    BY <1>1, <2>1, Beginnings
<1>5. full = Abstract!Stored(call[t]) /\ File(t) = Abstract!Kept(call[t])
  BY Printing DEF Abstract!Stored, Spec0!Fitting, Abstract!Fitting
<1> HIDE DEF part, full
<1>6. part \in Abstract!Torn(call[t])
  BY <1>4, <1>5 DEF Abstract!Torn
<1>7. files' = [Visible.files EXCEPT ![n] = part]
  <2>1. /\ Visible = before
        /\ \A s : [files EXCEPT ![n] = s] = [before.files EXCEPT ![n] = s]
    BY Printing
  <2>2. files' = [before.files EXCEPT ![n] = part]
    BY <1>3, <2>1
  <2> QED
    BY <2>1, <2>2
<1>8. room' = Visible.room + Abstract!Size(Visible.files[n]) - Abstract!Size(part)
  <2>1. Abstract!Size(part) = Len(part)
    BY <1>3, Sizes DEF Abstract!Size
  <2>2. /\ room + Len(File(t)) = before.room + Spec0!Size(before.files[n])
        /\ room \in Nat /\ Len(File(t)) \in Nat /\ before.room \in Nat
        /\ Spec0!Size(before.files[n]) \in Nat
    BY Printing
  <2>3. Len(part) \in Nat
    BY <1>3, LenProperties
  <2>4. /\ Spec0!Size(before.files[n]) = Abstract!Size(Visible.files[n])
        /\ before.room = Visible.room
    BY Printing DEF Spec0!Size, Abstract!Size
  <2>5. room' = before.room + Spec0!Size(before.files[n]) - Len(part)
    <3>1. room' = room + Len(File(t)) - Len(part)
      BY <1>3
    <3> QED
      BY <2>2, <2>3, <3>1
  <2> QED
    BY <2>1, <2>4, <2>5
<1> QED
  BY <1>6, <1>7, <1>8

(* A text that fprintf could not print has torn its file.                  *)
LEMMA RefusedRefines ==
  ASSUME IInv, NEW t \in Threads, PrintText(t),
         Len(call[t].data) > room, NEW k \in 0..Len(call[t].data),
         Extend(t, SubSeq(call[t].data, 1, k)), Answer(t, <<"refused">>)
  PROVE  Abstract!SpecDo(t)
<1> DEFINE n == call[t].name
<1>1. pc[t] = "print" /\ Goto(t, "unlock") /\ UNCHANGED <<orphans, call>>
  BY DEF PrintText
<1>2. PICK s \in Abstract!Torn(call[t]) :
        /\ files' = [Visible.files EXCEPT ![n] = s]
        /\ room' = Visible.room + Abstract!Size(Visible.files[n])
                   - Abstract!Size(s)
  BY <1>1, PartPrinted
<1>3. /\ files' = [before.files EXCEPT ![n] = s]
      /\ room' = before.room + Spec0!Size(before.files[n]) - Spec0!Size(s)
  BY <1>1, <1>2, Printing DEF Spec0!Size, Abstract!Size
<1>4. Abstract!Outcome(call[t], s, <<"refused">>)
  BY <1>1, <1>2, Printing DEF Abstract!Outcome
<1> QED
  BY <1>1, <1>3, <1>4, Printing, Finishes

LEMMA PrintTextRefines ==
  ASSUME IInv, NEW t \in Threads, PrintText(t)
  PROVE  Abstract!SpecDo(t)
<1>1. CASE Extend(t, call[t].data) /\ Answer(t, <<"count", Len(call[t].data)>>)
  BY <1>1, PrintedRefines
<1>2. CASE /\ Len(call[t].data) > room
           /\ \E k \in 0..room : Extend(t, SubSeq(call[t].data, 1, k))
           /\ Answer(t, <<"refused">>)
  <2>1. PICK k \in 0..room : Extend(t, SubSeq(call[t].data, 1, k))
    BY <1>2
  <2>2. k \in 0..Len(call[t].data)
    <3>1. call[t].data \in Seq(Chars) /\ room \in Nat
      BY FileStoreAssumption DEF IInv, Types, TypeOK
    <3> QED
      BY <1>2, <3>1, LenProperties
  <2> QED
    BY <1>2, <2>1, <2>2, RefusedRefines
<1> QED
  BY <1>1, <1>2 DEF PrintText

LEMMA RemoveRefines ==
  ASSUME IInv, NEW t \in Threads, Remove(t)
  PROVE  Abstract!SpecDo(t) \/ UNCHANGED Abstract!specVars
<1>1. /\ pc[t] = "remove" /\ UNCHANGED <<disk, call, before>>
      /\ call[t].op = "delete" /\ Disk = before
  BY DEF Remove, IInv, AtWork
<1>2. Inside(t) /\ Visible = before
  BY <1>1, VisibleBefore DEF Inside
<1>3. CASE Goto(t, "rm") /\ UNCHANGED answer
  BY <1>1, <1>2, <1>3, StaysInside DEF disk, Held
<1>4. CASE Goto(t, "unlock") /\ Answer(t, <<"deleted">>)
  <2>1. Abstract!Outcome(call[t], before.files[call[t].name], <<"deleted">>)
    BY <1>1, <1>2 DEF Abstract!Outcome
  <2> QED
    BY <1>1, <1>2, <1>4, <2>1, FinishesUnchanged
<1> QED
  BY <1>3, <1>4 DEF Remove

LEMMA RmEndsRefines ==
  ASSUME IInv, NEW t \in Threads, RmEnds(t)
  PROVE  Abstract!SpecDo(t)
<1> DEFINE n == call[t].name
<1>1. /\ pc[t] = "rm" /\ Answer(t, <<"deleted">>) /\ Goto(t, "unlock")
      /\ UNCHANGED <<orphans, call>> /\ call[t].op = "delete" /\ Disk = before
  BY DEF RmEnds, IInv, AtWork
<1>2. Inside(t) /\ Visible = before
  BY <1>1, VisibleBefore DEF Inside
<1>3. CASE Spec0!Change(n, Absent)
  <2>1. Abstract!Outcome(call[t], Absent, <<"deleted">>)
    BY <1>1, <1>2 DEF Abstract!Outcome
  <2>2. /\ files' = [before.files EXCEPT ![n] = Absent]
        /\ room' = before.room + Spec0!Size(before.files[n]) - Spec0!Size(Absent)
    BY <1>1, <1>3 DEF Spec0!Change, Disk, Spec0!Size
  <2> QED
    BY <1>1, <1>2, <2>1, <2>2, Finishes
<1>4. CASE UNCHANGED disk
  <2>1. Abstract!Outcome(call[t], before.files[n], <<"deleted">>)
    BY <1>1, <1>2 DEF Abstract!Outcome
  <2> QED
    BY <1>1, <1>2, <1>4, <2>1, FinishesUnchanged
<1> QED
  BY <1>3, <1>4 DEF RmEnds

LEMMA ListRefines ==
  ASSUME IInv, NEW t \in Threads, List(t)
  PROVE  Abstract!SpecDo(t)
<1> DEFINE r == <<"names", IF left = 0 THEN {} ELSE Spec0!Existing(files)>>
<1>1. /\ pc[t] = "list" /\ Answer(t, r) /\ Goto(t, "unlock")
      /\ call' = call /\ UNCHANGED disk
      /\ call[t].op = "list" /\ Disk = before
  BY DEF List, IInv, AtWork
<1>2. Inside(t) /\ Visible = before
  BY <1>1, VisibleBefore DEF Inside
<1>3. Spec0!Existing(files) = Abstract!Existing(Visible.files)
  BY <1>1, <1>2 DEF Spec0!Existing, Abstract!Existing, Disk
<1>4. Abstract!Outcome(call[t], before.files[call[t].name], r)
  BY <1>1, <1>2, <1>3 DEF Abstract!Outcome
<1> QED
  BY <1>1, <1>2, <1>4, FinishesUnchanged

LEMMA EndOfFileRefines ==
  ASSUME IInv, NEW t \in Threads, EndOfFile(t)
  PROVE  Abstract!SpecDo(t)
<1>1. /\ pc[t] = "getc" /\ Goto(t, "unlock") /\ call' = call
      /\ UNCHANGED disk /\ Len(buffer) = Len(File(t))
      /\ call[t].op = "read" /\ Disk = before /\ File(t) # Absent
      /\ buffer = SubSeq(File(t), 1, Len(buffer))
  BY DEF EndOfFile, IInv, AtWork
<1>2. PICK junk \in BOOLEAN : Answer(t, <<"text", buffer, junk>>)
  BY DEF EndOfFile
<1>3. Inside(t) /\ Visible = before
  BY <1>1, VisibleBefore DEF Inside
<1>4. File(t) \in Seq(Chars) /\ File(t) = before.files[call[t].name]
  BY <1>1 DEF File, Disk, IInv, Types, TypeOK
<1>5. buffer = before.files[call[t].name]
  BY <1>1, <1>4, SubSeqFull
<1>6. Abstract!Outcome(call[t], before.files[call[t].name],
                       <<"text", buffer, junk>>)
  BY <1>1, <1>3, <1>4, <1>5 DEF Abstract!Outcome
<1> QED
  BY <1>1, <1>2, <1>3, <1>6, FinishesUnchanged

-----------------------------------------------------------------------------
(* The end of the process.                                                 *)

LEMMA DiesRefines ==
  ASSUME IInv, Dies,
         \/ /\ files' = Visible.files /\ room' = Visible.room
            /\ UNCHANGED orphans
         \/ \E t \in Threads :
              /\ Phase(t) = "called" /\ call[t].op = "delete"
              /\ files' = Visible.files /\ room' = Visible.room
              /\ orphans' = orphans \cup {call[t].name}
         \/ \E t \in Threads :
              /\ Phase(t) = "called" /\ Abstract!Writes(call[t])
              /\ UNCHANGED orphans
              /\ \E s \in Abstract!Torn(call[t]) :
                   /\ files' = [Visible.files EXCEPT ![call[t].name] = s]
                   /\ room' = Visible.room
                        + Abstract!Size(Visible.files[call[t].name])
                        - Abstract!Size(s)
  PROVE  Abstract!SpecDie
<1>1. \A t \in Threads : ~Inside(t)' /\ Phase(t)' = "idle"
  BY DEF Dies, Inside, Phase
<1>2. Visible'.files = files' /\ Visible'.room = room'
  BY <1>1 DEF Visible, Disk
<1> QED
  BY <1>1, <1>2
     DEF Abstract!SpecDie, Abstract!Change, Dies, Spec0!NoCall, Abstract!NoCall

(* A kill in the middle of an operation leaves what was there before, or   *)
(* nothing of the file that a write has emptied.                           *)
LEMMA KilledRefines ==
  ASSUME IInv, UNCHANGED disk, Dies
  PROVE  Abstract!SpecDie
<1>1. CASE \A t \in Threads : ~Inside(t)
  <2>1. Visible = Disk
    BY <1>1 DEF Visible
  <2>2. files' = Visible.files /\ room' = Visible.room
    BY <2>1 DEF Disk, disk
  <2> QED
    BY <2>2, DiesRefines DEF disk
<1>2. ASSUME NEW t \in Threads, Inside(t)
      PROVE  Abstract!SpecDie
  <2> DEFINE n == call[t].name
  <2>1. Visible = before
    BY <1>2, VisibleBefore
  <2>2. CASE Disk = before
    <3>1. files' = Visible.files /\ room' = Visible.room
      BY <2>1, <2>2 DEF Disk, disk
    <3> QED
      BY <3>1, DiesRefines DEF disk
  <2>3. CASE Truncated(t) /\ call[t].op = "write"
    <3>1. /\ files' = [Visible.files EXCEPT ![n] = <<>>]
          /\ room' = Visible.room + Abstract!Size(Visible.files[n])
      BY <2>1, <2>3 DEF Truncated, disk, Spec0!Size, Abstract!Size
    <3>2. Abstract!Size(<<>>) = 0 /\ Abstract!Size(Visible.files[n]) \in Nat
      BY <2>1, Sizes DEF Spec0!Size, Abstract!Size, IInv, Types
    <3>3. Phase(t) = "called" /\ Abstract!Writes(call[t])
      BY <1>2, <2>3 DEF Abstract!Writes, Phase, Inside
    <3>4. <<>> \in Abstract!Torn(call[t])
      <4> DEFINE full == Abstract!Stored(call[t])
                 free == before.room + Abstract!Size(before.files[n])
                         - Abstract!Size(<<>>)
      <4>1. Abstract!Kept(call[t]) = <<>>
        BY <2>3 DEF Abstract!Kept
      <4>2. /\ call[t].data \in Seq(Chars) /\ before.room \in Nat
            /\ Abstract!Size(before.files[n]) \in Nat
        BY <2>1, <3>2, FileStoreAssumption DEF IInv, Types
      <4>3. free \in Nat
        BY <3>2, <4>2
      <4>4. full = <<>> \o Spec0!Fitting(call[t].data, free)
        BY <2>1, <4>1 DEF Abstract!Stored, Abstract!RoomFor, Abstract!Fitting,
           Spec0!Fitting
      <4> HIDE DEF free, full
      <4>5. Spec0!Fitting(call[t].data, free) \in Seq(Chars)
        BY <4>2, <4>3, Fits
      <4>6. full \in Seq(Chars)
        BY <4>4, <4>5, EmptyContent, ConcatProperties
      <4>7. Len(full) \in Nat /\ Len(<<>>) = 0
        BY <4>6, LenProperties, EmptyContent
      <4>8. SubSeq(full, 1, 0) = <<>> /\ 0 \in Len(Abstract!Kept(call[t]))..Len(full)
        BY <4>1, <4>7, SubSeqEmpty
      <4> QED
        BY <4>8 DEF Abstract!Torn, full
    <3>5. \E s \in Abstract!Torn(call[t]) :
            /\ files' = [Visible.files EXCEPT ![n] = s]
            /\ room' = Visible.room + Abstract!Size(Visible.files[n])
                       - Abstract!Size(s)
      <4>1. room' \in Nat
        BY DEF disk, IInv, Types, TypeOK
      <4> QED
        BY <3>1, <3>2, <3>4, <4>1
    <3> QED
      BY <3>3, <3>5, DiesRefines DEF disk
  <2>4. pc[t] \in Held \ {"unlock"}
    BY <1>2, InsideHeld DEF IInv
  <2>5. Disk = before \/ (Truncated(t) /\ call[t].op = "write")
    BY <2>4 DEF IInv, AtWork, Held
  <2> QED
    BY <2>2, <2>3, <2>5
<1> QED
  BY <1>1, <1>2

(* A kill in the middle of fprintf or fclose tears the text that is being  *)
(* written.                                                                *)
LEMMA TornRefines ==
  ASSUME IInv, NEW t \in Threads, pc[t] = "print",
         NEW k \in 0..Len(call[t].data),
         Extend(t, SubSeq(call[t].data, 1, k)), UNCHANGED orphans, Dies
  PROVE  Abstract!SpecDie
BY PartPrinted, Printing, DiesRefines

(* An rm that goes on may still remove its file.                           *)
LEMMA OutlivedRefines ==
  ASSUME IInv, NEW t \in Threads, pc[t] = "rm", UNCHANGED <<files, room>>,
         orphans' = orphans \cup {call[t].name}, Dies
  PROVE  Abstract!SpecDie
<1>1. /\ Inside(t) /\ Phase(t) = "called" /\ call[t].op = "delete"
      /\ Disk = before
  BY DEF Inside, Phase, IInv, AtWork
<1>2. Visible = Disk
  BY <1>1, VisibleBefore
<1>3. files' = Visible.files /\ room' = Visible.room
  BY <1>2 DEF Disk
<1> QED
  BY <1>1, <1>3, DiesRefines

LEMMA LateRmRefines ==
  ASSUME IInv, NEW n \in Names, LateRm(n)
  PROVE  Abstract!SpecLate(n)
<1>1. /\ mutex = Nobody /\ n \in orphans
      /\ Spec0!Change(n, Absent) /\ orphans' \in {orphans, orphans \ {n}}
      /\ UNCHANGED <<pc, call, answer>>
  BY DEF LateRm
<1>2. \A t \in Threads : ~Inside(t)
  BY <1>1, FileStoreAssumption, InsideHeld DEF IInv, Owns
<1>3. \A t \in Threads : ~Inside(t)'
  BY <1>1, <1>2 DEF Inside
<1>4. /\ Visible.files = files /\ Visible.room = room
      /\ Visible'.files = files' /\ Visible'.room = room'
  BY <1>2, <1>3 DEF Visible, Disk
<1>5. \A t \in Threads : Phase(t)' = Phase(t)
  BY <1>1 DEF Phase
<1>6. Abstract!Change(n, Absent)
  BY <1>1, <1>4 DEF Spec0!Change, Abstract!Change, Spec0!Size, Abstract!Size
<1> QED
  BY <1>1, <1>5, <1>6 DEF Abstract!SpecLate

-----------------------------------------------------------------------------

LEMMA NextRefines ==
  IInv /\ [Next]_vars => [Abstract!SpecNext]_(Abstract!specVars)
<1> SUFFICES ASSUME IInv, [Next]_vars
             PROVE  Abstract!SpecNext \/ UNCHANGED Abstract!specVars
  OBVIOUS
<1>1. ASSUME NEW t \in Threads, Call(t) \/ Return(t)
      PROVE  Abstract!SpecNext
  BY <1>1, CallRefines, ReturnRefines DEF Abstract!SpecNext
<1>2. ASSUME NEW t \in Threads, Lock(t) \/ Unlock(t)
      PROVE  UNCHANGED Abstract!specVars
  BY <1>2, LockRefines, UnlockRefines
<1>3. ASSUME NEW t \in Threads, Prepare(t) \/ Open(t)
      PROVE  Abstract!SpecNext \/ UNCHANGED Abstract!specVars
  BY <1>3, PrepareRefines, OpenRefines DEF Abstract!SpecNext
<1>4. ASSUME NEW t \in Threads,
             \/ PrintText(t) \/ Remove(t) \/ RmEnds(t)
             \/ List(t) \/ EndOfFile(t)
      PROVE  Abstract!SpecNext \/ UNCHANGED Abstract!specVars
  BY <1>4, PrintTextRefines, RemoveRefines, RmEndsRefines, ListRefines,
     EndOfFileRefines DEF Abstract!SpecNext
<1>5. ASSUME NEW t \in Threads, Fopen(t)
      PROVE  Abstract!SpecNext \/ UNCHANGED Abstract!specVars
  <2>1. CASE UNCHANGED disk /\ Dies
    BY <2>1, KilledRefines DEF Abstract!SpecNext
  <2>2. CASE Goto(t, "getc") /\ UNCHANGED <<disk, call, answer, before>>
    BY <1>5, <2>2, StaysInside DEF Fopen, Inside, Held, disk
  <2> QED
    BY <1>5, <2>1, <2>2 DEF Fopen
<1>6. ASSUME NEW t \in Threads, Getc(t)
      PROVE  Abstract!SpecNext \/ UNCHANGED Abstract!specVars
  <2>1. CASE UNCHANGED disk /\ Dies
    BY <2>1, KilledRefines DEF Abstract!SpecNext
  <2>2. CASE UNCHANGED <<disk, pc, call, answer, before>>
    <3>1. Visible' = Visible
      BY <2>2 DEF Visible, Disk, disk, Inside
    <3>2. \A u \in Threads : Phase(u)' = Phase(u)
      BY <2>2 DEF Phase
    <3> QED
      BY <2>2, <3>1, <3>2, Stutters DEF disk
  <2> QED
    BY <1>6, <2>1, <2>2 DEF Getc
<1>7. CASE Killed
  BY <1>7, KilledRefines, TornRefines, OutlivedRefines DEF Killed, Abstract!SpecNext
<1>9. ASSUME NEW n \in Names, LateRm(n)
      PROVE  Abstract!SpecNext
  BY <1>9, LateRmRefines DEF Abstract!SpecNext
<1>8. CASE UNCHANGED vars
  <2>1. Visible' = Visible
    BY <1>8 DEF vars, Visible, Disk, disk, Inside
  <2>2. \A u \in Threads : Phase(u)' = Phase(u)
    BY <1>8 DEF vars, Phase
  <2> QED
    BY <1>8, <2>1, <2>2, Stutters DEF vars, disk
<1> QED
  BY <1>1, <1>2, <1>3, <1>4, <1>5, <1>6, <1>7, <1>8, <1>9 DEF Next, Work

(* Every behaviour of f_exec and file_list is one of the abstract file     *)
(* store: each operation happens at one instant, a write is refused        *)
(* without an effect or torn by a disk that is too full for it, and the    *)
(* end of the process tears only the write it interrupts, or leaves only   *)
(* the deletion it interrupts to happen later.                             *)
THEOREM Implements == Spec => Atomic
<1>1. Spec => Init /\ [][Next]_vars
  BY PTL DEF Spec
<1> QED
  BY <1>1, InitRefines, NextRefines, Inductive, PTL
     DEF Atomic, Abstract!FileSpecSpec
=============================================================================
