---------------------------- MODULE Transmission ----------------------------
(***************************************************************************)
(* The library PP: lib/PP/transmission.c and lib/PP/pp.c over one          *)
(* connection of comm.c.  Near has made the connection with client_init    *)
(* and reads with its timeout; Far has accepted it and waits for ever.     *)
(*                                                                         *)
(* transmit cuts its message into pieces of chunk_size less the size of a  *)
(* serialized header, pads the last one, and writes chunk_size bytes from  *)
(* each piece: the piece and what the heap has behind it.  (What           *)
(* transmission_serialize makes is not sent.)  receive reads slots of      *)
(* chunk_size until a slot ends with the padding character, the other end  *)
(* closes, or the timeout; a read that does not fill its slot leaves the   *)
(* rest of it as malloc gave it.                                           *)
(***************************************************************************)
EXTENDS Integers, Sequences, SequencesExt

CONSTANTS
  Near, Far,  (* the two ends                                              *)
  Bytes,      (* the values of a byte                                      *)
  Pad,        (* PAD, one of them                                          *)
  Overhead,   (* SERIALIZED_SIZE_WITHOUT_DATA                              *)
  ChunkSizes, (* what set_transmission_chunk_size is given                 *)
  Messages,   (* the messages that are sent                                *)
  Null,       (* the data of a transmission without data                   *)
  MaxCalls,   (* bound: the library calls of each end                      *)
  MaxSends    (* bound: the messages of each end                           *)

Ends == {Near, Far}

ASSUME TransmissionAssumption ==
  /\ Near # Far
  /\ Pad \in Bytes
  /\ Overhead \in Nat
  /\ ChunkSizes \subseteq Nat \ {0}
  /\ Messages \subseteq Seq(Bytes)
  /\ Null \notin Messages
  /\ {MaxCalls, MaxSends} \subseteq [Ends -> Nat]

VARIABLES
  conn,       (* each end's connection: open, broken or closed             *)
  pc,         (* where each end is                                         *)
  inst,       (* its transmission instance                                 *)
  next,       (* i, the number of the chunk                                *)
  got,        (* the slots receive has filled                              *)
  stream,     (* the bytes each end has given to conn_write                *)
  taken,      (* how many of the other end's bytes it has read             *)
  result,     (* what its last call returned                               *)
  calls,      (* the calls it has made                                     *)
  sent,       (* the messages it has sent; no code reads it                *)
  from        (* what it had read when receive was called; nor this        *)

io == <<next, got, stream, taken, from>>
vars == <<conn, pc, inst, io, result, calls, sent>>

Steps == {"idle", "transmit", "pp_send", "receive", "pp_read", "dead"}

NoInstance == [data |-> Null, open |-> FALSE, error |-> FALSE,
               err_msg |-> "null", read_used |-> FALSE, write_used |-> FALSE,
               chunk_size |-> 0]

TypeOK ==
  /\ conn \in [Ends -> {"open", "broken", "closed"}]
  /\ pc \in [Ends -> Steps]
  /\ \A e \in Ends :
       /\ inst[e].err_msg \in {"null", "live", "freed"}
       /\ inst[e].data \in Seq(Bytes) \cup {Null}
       /\ got[e] \in Seq(Bytes)
       /\ pc[e] \in {"receive", "pp_read"} =>
            Len(got[e]) % inst[e].chunk_size = 0
       /\ taken[e] <= Len(stream[IF e = Near THEN Far ELSE Near])

Init ==
  /\ conn \in [Ends -> {"open"}] \cup {[e \in Ends |-> IF e = Near
                                        THEN "broken" ELSE "closed"]}
  /\ pc = [e \in Ends |-> "idle"]
  /\ inst = [e \in Ends |-> NoInstance]
  /\ next = [e \in Ends |-> 0]
  /\ got = [e \in Ends |-> <<>>]
  /\ stream = [e \in Ends |-> <<>>]
  /\ taken = [e \in Ends |-> 0]
  /\ result = [e \in Ends |-> "none"]
  /\ calls = [e \in Ends |-> 0]
  /\ sent = [e \in Ends |-> <<>>]
  /\ from = [e \in Ends |-> 0]

Other(e) == IF e = Near THEN Far ELSE Near
Goto(e, step) == pc' = [pc EXCEPT ![e] = step]
Result(e, r) == result' = [result EXCEPT ![e] = r]

(* What has been written to e and not been read.                           *)
Pipe(e) == SubSeq(stream[Other(e)], taken[e] + 1, Len(stream[Other(e)]))

Gone(e) == conn[e] = "closed" \/ pc[e] = "dead"

(* A call of the program of end e.                                         *)
Calls(e) ==
  /\ pc[e] = "idle"
  /\ conn[e] # "closed"
  /\ calls[e] < MaxCalls[e]
  /\ calls' = [calls EXCEPT ![e] = @ + 1]

-----------------------------------------------------------------------------
(* The life of an instance.                                                *)

(* init_transmission.                                                      *)
Made(e, data, size) ==
  [NoInstance EXCEPT
     !.data = data, !.open = TRUE, !.chunk_size = size,
     !.error = conn[e] = "broken" \/ size <= Overhead,
     !.err_msg = IF size <= Overhead THEN "live" ELSE "null"]

(* close_transmission frees the error message and keeps the pointer.       *)
Closed(t) == [t EXCEPT !.data = Null, !.open = FALSE,
                       !.err_msg = IF t.error /\ @ # "null" THEN "freed"
                                   ELSE @]

FreesTwice(t) == t.error /\ t.err_msg = "freed"

(* Variant: the error is set and then the instance is closed.              *)
FailedThenClosed(t) == Closed([t EXCEPT !.error = TRUE, !.err_msg = "live"])

(* TRANS_ERR: close, then a message of its own.                            *)
Failed(t) == [Closed(t) EXCEPT !.error = TRUE, !.err_msg = "live"]

MayTransmit(t) == ~t.write_used /\ ~t.error /\ t.open /\ t.data # Null
MayReceive(t) == ~t.read_used /\ ~t.error /\ t.open

(* Nothing is left of what the process of end e had in its memory.         *)
Forget(e) ==
  /\ inst' = [inst EXCEPT ![e] = NoInstance]
  /\ next' = [next EXCEPT ![e] = 0]
  /\ got' = [got EXCEPT ![e] = <<>>]
  /\ from' = [from EXCEPT ![e] = 0]
  /\ Result(e, "none")

(* The process of end e ends: abort, a segmentation fault, SIGPIPE.        *)
Die(e) ==
  /\ Goto(e, "dead")
  /\ Forget(e)
  /\ UNCHANGED <<conn, stream, taken, sent>>

-----------------------------------------------------------------------------
(* transmit and pp_send.                                                   *)

(* fill_buffer: at most n bytes of the message m from byte k, padded.      *)
Piece(m, k, n) ==
  [j \in 1..n |-> IF k + j <= Len(m) THEN m[k + j] ELSE Pad]

PieceSize(t) == t.chunk_size - Overhead

(* Variant: ceil.                                                          *)
IterationsUp(t) == (Len(t.data) + PieceSize(t) - 1) \div PieceSize(t)

(* iterations, with floor.                                                 *)
Iterations(t) == Len(t.data) \div PieceSize(t)

(* i * data_size.                                                          *)
Offset(t, i) == i * PieceSize(t)

(* What a message was, in pieces of which size, and where it begins.       *)
SentMessage(e, t) ==
  [data |-> t.data, size |-> PieceSize(t), at |-> Len(stream[e])]

StartSending(e, t, step) ==
  /\ Len(sent[e]) < MaxSends[e]
  /\ inst' = [inst EXCEPT ![e] = [t EXCEPT !.write_used = TRUE]]
  /\ next' = [next EXCEPT ![e] = 0]
  /\ Goto(e, step)
  /\ Result(e, "none")
  /\ sent' = [sent EXCEPT ![e] = Append(@, SentMessage(e, t))]
  /\ UNCHANGED <<conn, got, stream, taken, from>>

InitTransmission(e) ==
  /\ Calls(e)
  /\ \E m \in Messages \cup {Null}, size \in ChunkSizes :
       inst' = [inst EXCEPT ![e] = Made(e, m, size)]
  /\ Result(e, "none")
  /\ UNCHANGED <<conn, pc, io, sent>>

CloseTransmission(e) ==
  /\ Calls(e)
  /\ inst[e].chunk_size > 0
  /\ IF FreesTwice(inst[e]) THEN Die(e)
     ELSE /\ inst' = [inst EXCEPT ![e] = Closed(@)]
          /\ Result(e, "none")
          /\ UNCHANGED <<conn, pc, io, sent>>

(* The call of transmit or receive fails before it does anything.          *)
Rejected(e) ==
  IF FreesTwice(inst[e]) THEN Die(e)
  ELSE /\ inst' = [inst EXCEPT ![e] = Failed(@)]
       /\ Result(e, "0")
       /\ UNCHANGED <<conn, pc, io, sent>>

Transmit(e) ==
  /\ Calls(e)
  /\ inst[e].chunk_size > 0
  /\ IF MayTransmit(inst[e]) THEN StartSending(e, inst[e], "transmit")
                             ELSE Rejected(e)

(* pp_send.  When the transmission has an error, either the message of the *)
(* error is NULL and its length is taken, or the instance is closed twice. *)
PpSend(e) ==
  /\ Calls(e)
  /\ \E m \in Messages \cup {Null}, size \in ChunkSizes :
       LET t == Made(e, m, size) IN
       IF MayTransmit(t) THEN StartSending(e, t, "pp_send") ELSE Die(e)

(* One round of the loop of transmit, or the last chunk.  conn_write's     *)
(* result is not looked at: after the other end has closed, the chunk goes *)
(* nowhere, or SIGPIPE ends the process.                                   *)
WriteChunk(e) ==
  LET t == inst[e] IN
  /\ pc[e] \in {"transmit", "pp_send"}
  /\ UNCHANGED calls
  /\ \/ Gone(Other(e)) /\ Die(e)
     \/ /\ \E behind \in [1..Overhead -> Bytes] :
             stream' = [stream EXCEPT ![e] =
               @ \o Piece(t.data, Offset(t, next[e]), PieceSize(t))
                 \o behind]
        /\ IF next[e] < Iterations(t)
           THEN /\ next' = [next EXCEPT ![e] = @ + 1]
                /\ UNCHANGED <<pc, inst, result>>
           ELSE /\ next' = [next EXCEPT ![e] = 0]
                /\ Goto(e, "idle")
                /\ Result(e, "1")
                /\ inst' = [inst EXCEPT ![e] = IF pc[e] = "pp_send"
                                               THEN NoInstance ELSE t]
        /\ UNCHANGED <<conn, got, taken, from, sent>>

-----------------------------------------------------------------------------
(* receive and pp_read.                                                    *)

StartReading(e, t, step) ==
  /\ inst' = [inst EXCEPT ![e] = [t EXCEPT !.read_used = TRUE]]
  /\ got' = [got EXCEPT ![e] = <<>>]
  /\ from' = [from EXCEPT ![e] = taken[e]]
  /\ Goto(e, step)
  /\ Result(e, "none")
  /\ UNCHANGED <<conn, next, stream, taken, sent>>

Receive(e) ==
  /\ Calls(e)
  /\ inst[e].chunk_size > 0
  /\ IF MayReceive(inst[e]) THEN StartReading(e, inst[e], "receive")
                            ELSE Rejected(e)

(* pp_read reports the errors of its instance.                             *)
PpRead(e) ==
  /\ Calls(e)
  /\ \E size \in ChunkSizes :
       LET t == Made(e, Null, size) IN
       IF MayReceive(t) THEN StartReading(e, t, "pp_read")
       ELSE /\ inst' = [inst EXCEPT ![e] = Failed(t)]
            /\ Result(e, "0")
            /\ UNCHANGED <<conn, pc, io, sent>>

(* Variant: the length up to the first padding character.                  *)
ContentBeforePad(s) ==
  SelectLastInSeq([k \in DOMAIN s |-> \A j \in 1..k : s[j] # Pad],
                  LAMBDA b : b)

(* trim_padding: the length without the padding at the end.                *)
Content(s) == SelectLastInSeq(s, LAMBDA b : b # Pad)

(* The end of the loop with the slots s.  Of padding alone trim_padding    *)
(* counts an unsigned number down past zero and reads from there.          *)
EndReceive(e, s) ==
  IF Content(s) = 0 THEN Goto(e, "dead") /\ Forget(e)
  ELSE /\ inst' = [inst EXCEPT ![e].data = SubSeq(s, 1, Content(s))]
       /\ got' = [got EXCEPT ![e] = s]
       /\ Goto(e, "idle")
       /\ Result(e, "1")
       /\ UNCHANGED <<next, from>>

(* Variant: a read goes on where the last one has ended.                   *)
SlotOfPart(part, size) == {part}

(* A slot of the buffer with a part read into it.                          *)
Slot(part, size) == {part \o rest : rest \in [1..(size - Len(part)) -> Bytes]}

(* contains_padding.                                                       *)
EndsPadded(s) == Last(s) = Pad

(* conn_read returns some bytes.                                           *)
ReadSlot(e) ==
  LET size == inst[e].chunk_size IN
  /\ pc[e] \in {"receive", "pp_read"}
  /\ \E n \in 1..Len(Pipe(e)) :
       /\ n <= size
       /\ taken' = [taken EXCEPT ![e] = @ + n]
       /\ \E s \in Slot(SubSeq(Pipe(e), 1, n), size) :
            IF EndsPadded(s) THEN EndReceive(e, got[e] \o s)
            ELSE /\ got' = [got EXCEPT ![e] = @ \o s]
                 /\ UNCHANGED <<pc, inst, next, from, result>>
  /\ UNCHANGED <<conn, calls, stream, sent>>


(* conn_read returns 0 or -1: the other end has closed or reset the        *)
(* connection, or Near's timeout has passed.                               *)
ReadsNothing(e) ==
  /\ pc[e] \in {"receive", "pp_read"}
  /\ \/ e = Near
     \/ Gone(Other(e)) /\ (Pipe(e) = <<>> \/ Pipe(Other(e)) # <<>>)
  /\ IF got[e] = <<>>
     THEN /\ Goto(e, "idle")
          /\ Result(e, "0")
          /\ UNCHANGED <<inst, next, got, from>>
     ELSE EndReceive(e, got[e])
  /\ UNCHANGED <<conn, calls, stream, taken, sent>>

-----------------------------------------------------------------------------

(* conn_close, after which the program is done with the library.           *)
Hangup(e) ==
  /\ pc[e] = "idle"
  /\ conn[e] # "closed"
  /\ conn' = [conn EXCEPT ![e] = "closed"]
  /\ Forget(e)
  /\ UNCHANGED <<pc, stream, taken, calls, sent>>

Work(e) == WriteChunk(e) \/ ReadSlot(e) \/ ReadsNothing(e)

Next ==
  \E e \in Ends :
    \/ InitTransmission(e) \/ CloseTransmission(e) \/ Transmit(e)
    \/ Receive(e) \/ PpSend(e) \/ PpRead(e) \/ Work(e) \/ Hangup(e)

(* The library runs and the timeout passes; when a program calls it is its *)
(* own affair.                                                             *)
Spec == Init /\ [][Next]_vars /\ \A e \in Ends : WF_vars(Work(e))

-----------------------------------------------------------------------------
(* Properties.                                                             *)

(* The bytes of the message m in pieces of n bytes, with what comes behind *)
(* each piece.                                                             *)
Written(m, n) == (Len(m) \div n + 1) * (n + Overhead)

(* Where what comes behind the first k messages of e begins.               *)
Behind(e, k) == IF k = Len(sent[e]) THEN Len(stream[e]) ELSE sent[e][k + 1].at

(* What transmit and pp_send have written when they return is each of      *)
(* their messages, whole and in order, in the pieces of its chunks.        *)
StreamHoldsMessages ==
  \A e \in Ends : pc[e] = "idle" =>
    /\ Behind(e, 0) = 0
    /\ \A k \in 1..Len(sent[e]) :
         LET m == sent[e][k] IN
         /\ Behind(e, k) = m.at + Written(m.data, m.size)
         /\ \A i \in 0..(Len(m.data) \div m.size) :
              LET start == m.at + i * (m.size + Overhead)
              IN  SubSeq(stream[e], start + 1, start + m.size)
                    = Piece(m.data, i * m.size, m.size)

(* What receive has returned begins with the first byte that was there to  *)
(* be read; and when every read has filled its slot it is all that was     *)
(* read, less nothing but padding at the end.                              *)
ReceivedAsWritten ==
  \A e \in Ends :
    LET d == inst[e].data
        s == SubSeq(stream[Other(e)], from[e] + 1, taken[e])
    IN  pc[e] = "idle" /\ inst[e].read_used /\ got[e] # <<>> /\ d # Null =>
          /\ Head(d) = Head(s)
          /\ Len(s) = Len(got[e]) =>
               /\ d = SubSeq(s, 1, Len(d))
               /\ \A k \in (Len(d) + 1)..Len(s) : s[k] = Pad

(* After a call that failed with an error, transmission_error returns a    *)
(* message that has not been freed.                                        *)
FailureHasMessage ==
  \A e \in Ends :
    pc[e] = "idle" /\ result[e] = "0" /\ inst[e].error =>
      inst[e].err_msg = "live"

Sending == {"transmit", "pp_send"}
Reading == {"receive", "pp_read"}
Over == {"idle", "dead"}

=============================================================================
