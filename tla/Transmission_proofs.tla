------------------------ MODULE Transmission_proofs -------------------------
(***************************************************************************)
(* Proofs about Transmission: what the library PP writes and what receive  *)
(* returns, for any bytes, messages, sizes of a chunk and of a header, and *)
(* any number of calls.                                                    *)
(***************************************************************************)
EXTENDS Transmission, SequenceTheorems, FiniteSetTheorems, TLAPS

Instances ==
  [data : Seq(Bytes) \cup {Null}, open : BOOLEAN, error : BOOLEAN,
   err_msg : {"null", "live", "freed"}, read_used : BOOLEAN,
   write_used : BOOLEAN, chunk_size : Nat]

SentMessages == [data : Seq(Bytes), size : Nat \ {0}, at : Nat]

Types ==
  /\ conn \in [Ends -> {"open", "broken", "closed"}]
  /\ pc \in [Ends -> Steps]
  /\ inst \in [Ends -> Instances]
  /\ next \in [Ends -> Nat]
  /\ got \in [Ends -> Seq(Bytes)]
  /\ stream \in [Ends -> Seq(Bytes)]
  /\ taken \in [Ends -> Nat]
  /\ from \in [Ends -> Nat]
  /\ result \in [Ends -> {"none", "0", "1"}]
  /\ sent \in [Ends -> Seq(SentMessages)]

(* An instance without an error has chunks with room for a message, and    *)
(* only such an instance sends and reads.                                  *)
Sound(e) ==
  LET t == inst[e] IN
  /\ t.chunk_size > 0 /\ ~t.error => t.chunk_size > Overhead
  /\ pc[e] \in Sending \cup Reading => t.chunk_size > 0 /\ ~t.error
  /\ pc[e] \in Sending => t.data \in Seq(Bytes)
  /\ pc[e] = "idle" /\ result[e] = "0" /\ t.error => t.err_msg = "live"

(* The piece i of the message m is in the stream s.                        *)
InPlace(s, m, i) ==
  LET start == m.at + i * (m.size + Overhead) IN
  /\ start + m.size <= Len(s)
  /\ SubSeq(s, start + 1, start + m.size) = Piece(m.data, i * m.size, m.size)

(* The message k of the messages q is in s, and ends where the next begins.*)
Complete(q, s, k) ==
  LET m == q[k] IN
  /\ (IF k = Len(q) THEN Len(s) ELSE q[k + 1].at)
       = m.at + Written(m.data, m.size)
  /\ \A i \in 0..(Len(m.data) \div m.size) : InPlace(s, m, i)

(* The last of q is what the instance t sends, and n pieces of it are in s.*)
Begun(t, n, q, s) ==
  LET m == q[Len(q)] IN
  /\ Len(q) > 0
  /\ m.data = t.data
  /\ m.size = PieceSize(t)
  /\ n <= Iterations(t)
  /\ Len(s) = m.at + n * (m.size + Overhead)
  /\ \A i \in 0..(n - 1) : InPlace(s, m, i)

Begins(q, s) == IF Len(q) = 0 THEN Len(s) = 0 ELSE q[1].at = 0

Writes(e) ==
  /\ Begins(sent[e], stream[e])
  /\ \A k \in 1..Len(sent[e]) :
       k < Len(sent[e]) \/ pc[e] \in {"idle"} \cup Reading =>
         Complete(sent[e], stream[e], k)
  /\ pc[e] \in Sending => Begun(inst[e], next[e], sent[e], stream[e])

(* The slots g with the bytes of s behind the first a of them and up to b. *)
Filled(g, s, a, b) ==
  /\ b - a <= Len(g)
  /\ g # <<>> => a < b /\ g[1] = s[a + 1]
  /\ b - a = Len(g) => \A j \in 1..Len(g) : g[j] = s[a + j]

(* What receive has made of them.                                          *)
Returned(t, g, s, a, b) ==
  LET d == t.data IN
  t.read_used /\ g # <<>> /\ d # Null =>
    /\ a < b
    /\ Len(d) \in 1..Len(g)
    /\ d[1] = s[a + 1]
    /\ b - a = Len(g) =>
         /\ \A j \in 1..Len(d) : d[j] = s[a + j]
         /\ \A j \in (Len(d) + 1)..Len(g) : s[a + j] = Pad

Receives(e) ==
  LET s == stream[Other(e)] IN
  /\ from[e] <= taken[e]
  /\ taken[e] <= Len(s)
  /\ pc[e] \in Reading =>
       /\ Len(got[e]) % inst[e].chunk_size = 0
       /\ Filled(got[e], s, from[e], taken[e])
  /\ pc[e] \in {"idle"} \cup Sending =>
       Returned(inst[e], got[e], s, from[e], taken[e])

IInv ==
  /\ Types
  /\ \A e \in Ends : Sound(e) /\ Writes(e) /\ Receives(e)

-----------------------------------------------------------------------------
(* Numbers.                                                                *)

LEMMA OneMore ==
  ASSUME NEW i \in Nat, NEW c \in Nat
  PROVE  i * c \in Nat /\ (i + 1) * c = i * c + c /\ 0 * c = 0
OBVIOUS

LEMMA Quotient ==
  ASSUME NEW a \in Nat, NEW c \in Nat \ {0}
  PROVE  a \div c \in Nat
OBVIOUS

(* A slot more is a multiple of the size of a slot still.                  *)
LEMMA Multiples ==
  ASSUME NEW a \in Nat, NEW c \in Nat \ {0}, a % c = 0
  PROVE  (a + c) % c = 0
<1> DEFINE q == a \div c
           d == (a + c) \div c
           r == (a + c) % c
<1>1. q \in Int /\ a = c * q
  BY SMT
<1>2. d \in Int /\ r \in 0..(c - 1) /\ a + c = c * d + r
  BY SMT
<1> HIDE DEF q, d, r
<1>3. r = c * (q + 1 - d)
  BY <1>1, <1>2, SMT
<1>4. CASE q + 1 - d >= 1
  <2>1. PICK j \in Nat : q + 1 - d = 1 + j
    BY <1>1, <1>2, <1>4, SMT
  <2>2. c * (1 + j) = c + c * j /\ c * j >= 0
    BY SMT
  <2> QED
    BY <1>2, <1>3, <2>1, <2>2, SMT
<1>5. CASE q + 1 - d <= -1
  <2>1. PICK j \in Nat : q + 1 - d = -1 - j
    BY <1>1, <1>2, <1>5, SMT
  <2>2. c * (-1 - j) = -c - c * j /\ c * j >= 0
    BY SMT
  <2> QED
    BY <1>2, <1>3, <2>1, <2>2, SMT
<1>6. CASE q + 1 - d = 0
  BY <1>3, <1>6, SMT DEF r
<1> QED
  BY <1>1, <1>2, <1>4, <1>5, <1>6, SMT

(* There is a last one of some numbers that have a bound.                  *)
LEMMA Largest ==
  ASSUME NEW n \in Nat, NEW S \in SUBSET (1..n), S # {}
  PROVE  \E x \in S : \A y \in S : x >= y
<1> DEFINE Above(i) == {j \in S : j > i}
           T == {Above(i) : i \in S}
           R == StrictSubsetOrdering(1..n)
<1>1. IsWellFoundedOn(R, FiniteSubsetsOf(1..n))
  BY FS_StrictSubsetOrderingWellFounded
<1>2. IsFiniteSet(1..n)
  BY FS_Interval
<1>3. FiniteSubsetsOf(1..n) = SUBSET (1..n)
  BY <1>2, FS_FiniteSubsetsOfFinite
<1>4. T \subseteq FiniteSubsetsOf(1..n) /\ T # {}
  <2>1. \A i \in S : Above(i) \in SUBSET (1..n)
    OBVIOUS
  <2>2. T \subseteq SUBSET (1..n)
    <3> HIDE DEF Above
    <3> QED
      BY <2>1
  <2>3. T # {}
    OBVIOUS
  <2> QED
    BY <1>3, <2>2, <2>3
<1>5. PICK A \in T : \A B \in T : ~(<<B, A>> \in R)
  <2> HIDE DEF T, R
  <2> QED
    BY <1>1, <1>4, WFMin
<1>6. PICK x \in S : A = Above(x)
  OBVIOUS
<1>7. ASSUME NEW y \in S, ~(x >= y) PROVE FALSE
  <2>1. y > x /\ y \in Above(x) /\ y \notin Above(y)
    BY <1>7
  <2>2. Above(y) \subseteq Above(x) /\ Above(y) # Above(x)
    <3>1. \A j \in S : j > y => j > x
      BY <2>1
    <3> QED
      BY <2>1, <3>1
  <2>3. <<Above(y), Above(x)>> \in R
    BY <2>2 DEF StrictSubsetOrdering
  <2> QED
    BY <1>5, <1>6, <2>3
<1> QED
  BY <1>7

-----------------------------------------------------------------------------
(* Sequences of bytes.                                                     *)

(* trim_padding: what it keeps ends with another character, and all behind *)
(* it is padding.                                                          *)
LEMMA Trimmed ==
  ASSUME NEW s \in Seq(Bytes)
  PROVE  /\ Content(s) \in 0..Len(s)
         /\ Content(s) # 0 => s[Content(s)] # Pad
         /\ \A k \in (Content(s) + 1)..Len(s) : s[k] = Pad
<1> DEFINE I == {i \in 1..Len(s) : s[i] # Pad}
<1>1. Len(s) \in Nat
  BY LenProperties
<1>2. Content(s) = IF I # {} THEN Max(I) ELSE 0
  BY DEF Content, SelectLastInSeq
<1>3. CASE I = {}
  BY <1>1, <1>2, <1>3
<1>4. CASE I # {}
  <2>1. \E x \in I : \A y \in I : x >= y
    <3> HIDE DEF I
    <3>1. I \in SUBSET (1..Len(s))
      BY DEF I
    <3> QED
      BY <1>1, <1>4, <3>1, Largest
  <2>2. Max(I) \in I /\ \A y \in I : Max(I) >= y
    BY <2>1 DEF Max
  <2>3. \A k \in 1..Len(s) : k > Max(I) => s[k] = Pad
    <3> HIDE DEF I
    <3>1. \A k \in 1..Len(s) : k \in I <=> s[k] # Pad
      BY DEF I
    <3> QED
      BY <1>1, <2>2, <3>1 DEF I
  <2>4. Content(s) = Max(I) /\ Max(I) \in 1..Len(s) /\ s[Max(I)] # Pad
    BY <1>2, <1>4, <2>2
  <2> HIDE DEF I
  <2> DEFINE c == Content(s)
  <2>5. c \in 1..Len(s) /\ s[c] # Pad /\ \A k \in 1..Len(s) : k > c => s[k] = Pad
    BY <2>3, <2>4
  <2> HIDE DEF c
  <2>6. c \in 0..Len(s) /\ \A k \in (c + 1)..Len(s) : s[k] = Pad
    BY <1>1, <2>5
  <2> QED
    BY <2>5, <2>6 DEF c
<1> QED
  BY <1>3, <1>4

LEMMA Functions ==
  ASSUME NEW n \in Nat, NEW p \in [1..n -> Bytes]
  PROVE  p \in Seq(Bytes) /\ Len(p) = n
<1>1. p \in Seq(Bytes)
  BY SeqDef
<1>2. Len(p) \in Nat /\ 1..Len(p) = 1..n
  BY <1>1, LenProperties
<1> QED
  BY <1>1, <1>2

(* What comes behind a stream leaves what is in it.                        *)
LEMMA Longer ==
  ASSUME NEW s \in Seq(Bytes), NEW u \in Seq(Bytes)
  PROVE  /\ s \o u \in Seq(Bytes)
         /\ Len(s \o u) = Len(s) + Len(u)
         /\ \A j \in 1..Len(s) : (s \o u)[j] = s[j]
         /\ \A j \in 1..Len(u) : (s \o u)[Len(s) + j] = u[j]
<1>1. Len(s) \in Nat /\ Len(u) \in Nat
  BY LenProperties
<1> DEFINE c == s \o u
<1>2. /\ c \in Seq(Bytes)
      /\ Len(c) = Len(s) + Len(u)
      /\ \A i \in 1..(Len(s) + Len(u)) :
           c[i] = IF i <= Len(s) THEN s[i] ELSE u[i - Len(s)]
  BY ConcatProperties
<1> HIDE DEF c
<1>3. \A j \in 1..Len(s) : c[j] = s[j]
  BY <1>1, <1>2
<1>4. ASSUME NEW j \in 1..Len(u) PROVE c[Len(s) + j] = u[j]
  <2>1. Len(s) + j \in 1..(Len(s) + Len(u)) /\ ~(Len(s) + j <= Len(s))
        /\ (Len(s) + j) - Len(s) = j
    BY <1>1
  <2> QED
    BY <1>2, <2>1
<1> QED
  BY <1>2, <1>3, <1>4 DEF c

LEMMA SameSubSeq ==
  ASSUME NEW s \in Seq(Bytes), NEW c \in Seq(Bytes), NEW a \in Nat, NEW n \in Nat,
         a + n <= Len(s), Len(s) <= Len(c), \A j \in 1..Len(s) : c[j] = s[j]
  PROVE  SubSeq(c, a + 1, a + n) = SubSeq(s, a + 1, a + n)
<1>1. /\ Len(s) \in Nat /\ Len(c) \in Nat
      /\ \A j \in 1..Len(s) : s[j] \in Bytes
      /\ \A j \in 1..Len(c) : c[j] \in Bytes
  BY LenProperties, ElementOfSeq
<1>2. \A j \in (a + 1)..(a + n) : s[j] \in Bytes /\ c[j] \in Bytes /\ c[j] = s[j]
  BY <1>1
<1> DEFINE S == SubSeq(s, a + 1, a + n)
           C == SubSeq(c, a + 1, a + n)
<1>3. /\ S \in Seq(Bytes)
      /\ Len(S) = IF a + 1 <= a + n THEN (a + n) - (a + 1) + 1 ELSE 0
      /\ \A i \in 1..((a + n) - (a + 1) + 1) : S[i] = s[(a + 1) + i - 1]
  BY <1>2, SubSeqProperties
<1>4. /\ C \in Seq(Bytes)
      /\ Len(C) = IF a + 1 <= a + n THEN (a + n) - (a + 1) + 1 ELSE 0
      /\ \A i \in 1..((a + n) - (a + 1) + 1) : C[i] = c[(a + 1) + i - 1]
  BY <1>2, SubSeqProperties
<1> HIDE DEF S, C
<1>5. Len(S) = n /\ Len(C) = n /\ (a + n) - (a + 1) + 1 = n
  BY <1>3, <1>4
<1>6. ASSUME NEW i \in 1..n PROVE S[i] = C[i]
  <2>1. (a + 1) + i - 1 \in (a + 1)..(a + n)
    OBVIOUS
  <2> QED
    BY <1>2, <1>3, <1>4, <1>5, <2>1
<1>7. S = C
  BY <1>3, <1>4, <1>5, <1>6, SeqEqual
<1> QED
  BY <1>7 DEF S, C

(* fill_buffer gives as many bytes as it is asked for.                     *)
LEMMA Pieces ==
  ASSUME NEW m \in Seq(Bytes), NEW k \in Nat, NEW n \in Nat
  PROVE  Piece(m, k, n) \in Seq(Bytes) /\ Len(Piece(m, k, n)) = n
<1>1. Len(m) \in Nat /\ \A j \in 1..Len(m) : m[j] \in Bytes
  BY LenProperties, ElementOfSeq
<1>2. ASSUME NEW j \in 1..n
      PROVE  (IF k + j <= Len(m) THEN m[k + j] ELSE Pad) \in Bytes
  BY <1>1, TransmissionAssumption
<1>3. Piece(m, k, n) \in [1..n -> Bytes]
  BY <1>2 DEF Piece
<1> QED
  BY <1>3, Functions

LEMMA StaysInPlace ==
  ASSUME NEW s \in Seq(Bytes), NEW c \in Seq(Bytes),
         Len(s) <= Len(c), \A j \in 1..Len(s) : c[j] = s[j],
         NEW m \in SentMessages, NEW i \in Nat, InPlace(s, m, i)
  PROVE  InPlace(c, m, i)
<1> DEFINE start == m.at + i * (m.size + Overhead)
<1>1. m.at \in Nat /\ m.size \in Nat /\ m.size + Overhead \in Nat
  BY TransmissionAssumption DEF SentMessages
<1>2. start \in Nat
  <2> DEFINE w == m.size + Overhead
  <2>1. w \in Nat
    BY <1>1
  <2> HIDE DEF w
  <2>2. i * w \in Nat
    BY <2>1, OneMore
  <2>3. m.at + i * w \in Nat
    BY <1>1, <2>2
  <2> QED
    BY <2>3 DEF w
<1>3. /\ start + m.size <= Len(s)
      /\ SubSeq(s, start + 1, start + m.size) = Piece(m.data, i * m.size, m.size)
  BY DEF InPlace
<1>4. Len(s) \in Nat /\ Len(c) \in Nat
  BY LenProperties
<1> HIDE DEF start
<1>5. SubSeq(c, start + 1, start + m.size) = SubSeq(s, start + 1, start + m.size)
  BY ZenonT(60), <1>1, <1>2, <1>3, SameSubSeq
<1>6. start + m.size <= Len(c)
  BY <1>1, <1>2, <1>3, <1>4
<1> QED
  BY <1>3, <1>5, <1>6 DEF InPlace, start

(* A round of the loop of transmit puts the next piece behind the others.  *)
LEMMA PutInPlace ==
  ASSUME NEW s \in Seq(Bytes), NEW m \in SentMessages, NEW i \in Nat,
         NEW behind \in [1..Overhead -> Bytes],
         Len(s) = m.at + i * (m.size + Overhead)
  PROVE  LET c == s \o Piece(m.data, i * m.size, m.size) \o behind IN
         /\ c \in Seq(Bytes)
         /\ Len(c) = m.at + (i + 1) * (m.size + Overhead)
         /\ \A j \in 1..Len(s) : c[j] = s[j]
         /\ InPlace(c, m, i)
<1> DEFINE p == Piece(m.data, i * m.size, m.size)
           u == s \o p
           c == u \o behind
           n == m.size
           w == n + Overhead
           x == i * w
           y == (i + 1) * w
<1>1. /\ m.at \in Nat /\ n \in Nat /\ n + Overhead \in Nat /\ Overhead \in Nat
      /\ m.data \in Seq(Bytes)
  BY TransmissionAssumption DEF SentMessages
<1> HIDE DEF n
<1>2. i * n \in Nat /\ w = n + Overhead /\ w \in Nat
  BY <1>1, OneMore
<1> HIDE DEF w
<1>3. x \in Nat /\ y = x + w
  BY <1>2, OneMore
<1>4. Len(s) = m.at + x
  BY DEF w, x, n
<1> HIDE DEF x, y
<1>5. p \in Seq(Bytes) /\ Len(p) = n
  BY <1>1, <1>2, Pieces DEF n
<1>6. behind \in Seq(Bytes) /\ Len(behind) = Overhead
  BY <1>1, Functions
<1> HIDE DEF p
<1>7. /\ u \in Seq(Bytes) /\ Len(u) = Len(s) + Len(p)
      /\ \A j \in 1..Len(s) : u[j] = s[j]
      /\ \A j \in 1..Len(p) : u[Len(s) + j] = p[j]
  BY <1>5, Longer
<1> HIDE DEF u
<1>8. /\ c \in Seq(Bytes) /\ Len(c) = Len(u) + Len(behind)
      /\ \A j \in 1..Len(u) : c[j] = u[j]
  BY <1>6, <1>7, Longer
<1> HIDE DEF c
<1>9. Len(s) \in Nat /\ Len(c) = Len(s) + n + Overhead
  BY <1>1, <1>5, <1>6, <1>7, <1>8, LenProperties
<1>10. Len(c) = m.at + y
  BY SMTT(30), <1>1, <1>2, <1>9, <1>3, <1>4
<1>11. \A j \in 1..Len(s) : c[j] = s[j]
  BY <1>1, <1>5, <1>7, <1>8, <1>9
<1>12. SubSeq(u, Len(s) + 1, Len(s) + n) = p
  <2>1. \A j \in (Len(s) + 1)..(Len(s) + n) : u[j] \in Bytes
    BY <1>1, <1>5, <1>7, <1>9, ElementOfSeq
  <2> DEFINE S == SubSeq(u, Len(s) + 1, Len(s) + n)
  <2>2. /\ S \in Seq(Bytes)
        /\ Len(S) = IF Len(s) + 1 <= Len(s) + n
                     THEN (Len(s) + n) - (Len(s) + 1) + 1 ELSE 0
        /\ \A k \in 1..((Len(s) + n) - (Len(s) + 1) + 1) :
             S[k] = u[(Len(s) + 1) + k - 1]
    <3>1. Len(s) + 1 \in Int /\ Len(s) + n \in Int
      BY <1>1, <1>9
    <3> QED
      BY <2>1, <3>1, SubSeqProperties
  <2> HIDE DEF S
  <2>3. Len(S) = n
    BY <1>1, <1>9, <2>2
  <2>4. ASSUME NEW k \in 1..n PROVE S[k] = p[k]
    <3>1. (Len(s) + 1) + k - 1 = Len(s) + k
          /\ k \in 1..((Len(s) + n) - (Len(s) + 1) + 1)
      BY <1>1, <1>9
    <3> QED
      BY <1>5, <1>7, <2>2, <3>1
  <2>5. S = p
    BY <1>5, <2>2, <2>3, <2>4, SeqEqual
  <2> QED
    BY <2>5 DEF S
<1>13. SubSeq(c, Len(s) + 1, Len(s) + n) = SubSeq(u, Len(s) + 1, Len(s) + n)
  <2>1. Len(s) + n <= Len(u) /\ Len(u) <= Len(c)
    BY <1>1, <1>5, <1>6, <1>7, <1>8, <1>9
  <2> DEFINE a == Len(s)
  <2>2. a \in Nat /\ a + n <= Len(u)
    BY <1>9, <2>1
  <2> HIDE DEF a
  <2>3. SubSeq(c, a + 1, a + n) = SubSeq(u, a + 1, a + n)
    <3>1. \A j \in 1..Len(u) : u[j] = c[j]
      BY <1>8
    <3> QED
      BY SMTT(30), <1>1, <1>7, <1>8, <2>1, <2>2, <3>1, SameSubSeq
  <2> QED
    BY <2>3 DEF a
<1>14. Len(s) + n <= Len(c)
  BY <1>1, <1>9
<1>15. InPlace(c, m, i)
  BY <1>12, <1>13, <1>14, <1>4 DEF InPlace, p, x, w, n
<1> QED
  BY <1>8, <1>10, <1>11, <1>15 DEF c, u, p, y, w, n

-----------------------------------------------------------------------------
(* The messages of an end and its stream.                                  *)

LEMMA StaysComplete ==
  ASSUME NEW s \in Seq(Bytes), NEW c \in Seq(Bytes),
         Len(s) <= Len(c), \A j \in 1..Len(s) : c[j] = s[j],
         NEW q \in Seq(SentMessages), NEW k \in 1..Len(q), k < Len(q),
         Complete(q, s, k)
  PROVE  Complete(q, c, k)
<1> DEFINE m == q[k]
<1>1. k \in Nat /\ Len(q) \in Nat /\ k # Len(q) /\ m \in SentMessages
  BY LenProperties, ElementOfSeq
<1>2. ASSUME NEW i \in 0..(Len(m.data) \div m.size) PROVE InPlace(c, m, i)
  <2>1. InPlace(s, m, i) /\ i \in Nat
    BY DEF Complete
  <2> HIDE DEF m
  <2> QED
    BY <1>1, <2>1, StaysInPlace
<1>3. q[k + 1].at = m.at + Written(m.data, m.size)
  BY <1>1 DEF Complete
<1> QED
  BY <1>1, <1>2, <1>3 DEF Complete

(* A message begins where all that has been sent before it ends.           *)
LEMMA MessageBegins ==
  ASSUME NEW q \in Seq(SentMessages), NEW s \in Seq(Bytes),
         Begins(q, s), \A k \in 1..Len(q) : Complete(q, s, k),
         NEW t \in Instances, NEW u \in Instances,
         t.data \in Seq(Bytes), t.chunk_size > Overhead,
         u.data = t.data, u.chunk_size = t.chunk_size
  PROVE  LET m == [data |-> t.data, size |-> PieceSize(t), at |-> Len(s)]
             r == Append(q, m)
         IN  /\ r \in Seq(SentMessages)
             /\ Begins(r, s)
             /\ \A k \in 1..Len(r) : k < Len(r) => Complete(r, s, k)
             /\ Begun(u, 0, r, s)
<1> DEFINE m == [data |-> t.data, size |-> PieceSize(t), at |-> Len(s)]
           r == Append(q, m)
<1>1. Len(s) \in Nat /\ Len(q) \in Nat /\ Len(t.data) \in Nat
  BY LenProperties
<1>2. PieceSize(t) \in Nat \ {0} /\ PieceSize(u) = PieceSize(t)
  BY TransmissionAssumption DEF PieceSize, Instances
<1>3. m \in SentMessages
  BY <1>1, <1>2 DEF SentMessages
<1>4. m.data = t.data /\ m.size = PieceSize(t) /\ m.at = Len(s)
  OBVIOUS
<1> HIDE DEF m
<1>5. /\ r \in Seq(SentMessages)
      /\ Len(r) = Len(q) + 1
      /\ \A k \in 1..Len(q) : r[k] = q[k]
      /\ r[Len(q) + 1] = m
  BY <1>3, AppendProperties
<1> HIDE DEF r
<1>6. Begins(r, s)
  <2>1. CASE Len(q) = 0
    BY <1>1, <1>4, <1>5, <2>1 DEF Begins
  <2>2. CASE Len(q) # 0
    BY <1>1, <1>5, <2>2 DEF Begins
  <2> QED
    BY <2>1, <2>2
<1>7. ASSUME NEW k \in 1..Len(r), k < Len(r) PROVE Complete(r, s, k)
  <2>1. k \in 1..Len(q) /\ k # Len(r) /\ r[k] = q[k]
    BY <1>1, <1>5, <1>7
  <2>2. Complete(q, s, k)
    BY <2>1
  <2>3. CASE k = Len(q)
    <3>1. r[k + 1].at = Len(s)
      BY <1>4, <1>5, <2>3
    <3> QED
      BY <2>1, <2>2, <2>3, <3>1 DEF Complete
  <2>4. CASE k # Len(q)
    <3>1. r[k + 1] = q[k + 1]
      BY <1>1, <1>5, <2>1, <2>4
    <3> QED
      BY <2>1, <2>2, <2>4, <3>1 DEF Complete
  <2> QED
    BY <2>3, <2>4
<1>8. Begun(u, 0, r, s)
  <2>1. Len(r) > 0 /\ r[Len(r)] = m
    BY <1>1, <1>5
  <2>2. Iterations(u) \in Nat
    BY <1>1, <1>2, Quotient DEF Iterations
  <2>3. 0 * (m.size + Overhead) = 0
    <3> DEFINE w == m.size + Overhead
    <3>1. w \in Nat
      BY <1>2, <1>4, TransmissionAssumption
    <3> HIDE DEF w
    <3>2. 0 * w = 0
      BY <3>1, OneMore
    <3> QED
      BY <3>2 DEF w
  <2>4. Len(s) = m.at + 0 * (m.size + Overhead)
    BY <1>1, <1>4, <2>3
  <2>5. 0..(0 - 1) = {} /\ 0 <= Iterations(u)
    BY <2>2
  <2> QED
    BY <1>2, <1>4, <2>1, <2>4, <2>5 DEF Begun
<1> QED
  BY <1>5, <1>6, <1>7, <1>8 DEF r, m

(* With its last chunk a message is complete.                              *)
LEMMA MessageGoesOn ==
  ASSUME NEW q \in Seq(SentMessages), NEW s \in Seq(Bytes),
         NEW t \in Instances, NEW n \in Nat,
         t.data \in Seq(Bytes), t.chunk_size > Overhead,
         Begins(q, s), \A k \in 1..Len(q) : k < Len(q) => Complete(q, s, k),
         Begun(t, n, q, s), NEW behind \in [1..Overhead -> Bytes]
  PROVE  LET c == s \o Piece(t.data, Offset(t, n), PieceSize(t)) \o behind IN
         /\ c \in Seq(Bytes)
         /\ Len(s) <= Len(c)
         /\ \A j \in 1..Len(s) : c[j] = s[j]
         /\ Begins(q, c)
         /\ \A k \in 1..Len(q) : k < Len(q) => Complete(q, c, k)
         /\ n < Iterations(t) => Begun(t, n + 1, q, c)
         /\ ~(n < Iterations(t)) => Complete(q, c, Len(q))
<1> DEFINE m == q[Len(q)]
           c == s \o Piece(t.data, Offset(t, n), PieceSize(t)) \o behind
<1>1. /\ Len(q) \in Nat /\ Len(q) > 0 /\ m \in SentMessages
      /\ m.data = t.data /\ m.size = PieceSize(t)
      /\ n <= Iterations(t)
      /\ Len(s) = m.at + n * (m.size + Overhead)
      /\ \A i \in 0..(n - 1) : InPlace(s, m, i)
  BY LenProperties, ElementOfSeq DEF Begun
<1> HIDE DEF m
<1>2. c = s \o Piece(m.data, n * m.size, m.size) \o behind
  BY <1>1 DEF Offset
<1>3. /\ c \in Seq(Bytes)
      /\ Len(c) = m.at + (n + 1) * (m.size + Overhead)
      /\ \A j \in 1..Len(s) : c[j] = s[j]
      /\ InPlace(c, m, n)
  <2> HIDE DEF c
  <2> QED
    BY <1>1, <1>2, PutInPlace
<1>4. Len(s) <= Len(c)
  <2> DEFINE w == m.size + Overhead
             x == n * w
             y == (n + 1) * w
  <2>1. w \in Nat /\ m.at \in Nat
    BY SMTT(30), <1>1, TransmissionAssumption DEF SentMessages
  <2>2. x \in Nat /\ y = x + w
    <3> HIDE DEF w
    <3> QED
      BY <2>1, OneMore
  <2>3. Len(s) = m.at + x /\ Len(c) = m.at + y
    BY <1>1, <1>3
  <2> HIDE DEF w, x, y, c
  <2> QED
    BY <2>1, <2>2, <2>3
<1> HIDE DEF c
<1>5. Begins(q, c)
  BY <1>1 DEF Begins
<1>6. \A k \in 1..Len(q) : k < Len(q) => Complete(q, c, k)
  BY <1>3, <1>4, StaysComplete
<1>7. \A i \in 0..n : InPlace(c, m, i)
  <2>1. ASSUME NEW i \in 0..(n - 1) PROVE InPlace(c, m, i)
    <3>1. InPlace(s, m, i) /\ i \in Nat
      BY <1>1
    <3> QED
      BY <1>1, <1>3, <1>4, <3>1, StaysInPlace
  <2>2. \A i \in 0..n : i \in 0..(n - 1) \/ i = n
    OBVIOUS
  <2> QED
    BY <1>3, <2>1, <2>2
<1>8. Iterations(t) \in Nat
  <2>1. PieceSize(t) \in Nat \ {0}
    BY TransmissionAssumption DEF PieceSize, Instances
  <2> QED
    BY <2>1, LenProperties, Quotient DEF Iterations
<1>9. ASSUME n < Iterations(t) PROVE Begun(t, n + 1, q, c)
  <2>1. n + 1 <= Iterations(t) /\ (n + 1) - 1 = n
    BY <1>8, <1>9
  <2> QED
    BY <1>1, <1>3, <1>7, <2>1 DEF Begun, m
<1>10. ASSUME ~(n < Iterations(t)) PROVE Complete(q, c, Len(q))
  <2>1. n = Iterations(t)
    BY <1>1, <1>8, <1>10
  <2>2. n = Len(m.data) \div m.size
    BY <1>1, <2>1 DEF Iterations
  <2>3. Len(c) = m.at + Written(m.data, m.size)
    BY <1>3, <2>2 DEF Written
  <2> QED
    BY <1>7, <2>2, <2>3 DEF Complete, m
<1> QED
  BY <1>3, <1>4, <1>5, <1>6, <1>9, <1>10 DEF c

-----------------------------------------------------------------------------
(* The slots of a reader and the stream it reads from.                     *)

LEMMA StaysRead ==
  ASSUME NEW s \in Seq(Bytes), NEW c \in Seq(Bytes),
         Len(s) <= Len(c), \A j \in 1..Len(s) : c[j] = s[j],
         NEW g \in Seq(Bytes), NEW t \in Instances,
         NEW a \in Nat, NEW b \in Nat, a <= b, b <= Len(s)
  PROVE  /\ b <= Len(c)
         /\ Filled(g, s, a, b) => Filled(g, c, a, b)
         /\ Returned(t, g, s, a, b) => Returned(t, g, c, a, b)
<1>1. Len(s) \in Nat /\ Len(c) \in Nat /\ Len(g) \in Nat
  BY LenProperties
<1>2. a < b => c[a + 1] = s[a + 1]
  BY <1>1
<1>3. b - a = Len(g) => \A j \in 1..Len(g) : c[a + j] = s[a + j]
  BY <1>1
<1>4. ASSUME Filled(g, s, a, b) PROVE Filled(g, c, a, b)
  BY <1>2, <1>3, <1>4 DEF Filled
<1>5. ASSUME Returned(t, g, s, a, b), t.read_used, g # <<>>, t.data # Null
      PROVE  Returned(t, g, c, a, b)
  <2> DEFINE d == t.data
  <2>1. /\ a < b
        /\ Len(d) \in 1..Len(g)
        /\ d[1] = s[a + 1]
        /\ b - a = Len(g) =>
             /\ \A j \in 1..Len(d) : d[j] = s[a + j]
             /\ \A j \in (Len(d) + 1)..Len(g) : s[a + j] = Pad
    BY <1>5 DEF Returned
  <2> HIDE DEF d
  <2>2. ASSUME b - a = Len(g)
        PROVE  /\ \A j \in 1..Len(d) : d[j] = c[a + j]
               /\ \A j \in (Len(d) + 1)..Len(g) : c[a + j] = Pad
    <3>1. \A j \in 1..Len(d) : j \in 1..Len(g)
      BY <1>1, <2>1
    <3>2. \A j \in (Len(d) + 1)..Len(g) : j \in 1..Len(g)
      BY <1>1, <2>1
    <3> QED
      BY <1>3, <2>1, <2>2, <3>1, <3>2
  <2> QED
    BY <1>2, <2>1, <2>2 DEF Returned, d
<1>6. b <= Len(c)
  BY <1>1
<1>7. Returned(t, g, s, a, b) => Returned(t, g, c, a, b)
  BY <1>5 DEF Returned
<1> QED
  BY <1>4, <1>6, <1>7

(* conn_read puts what was there behind what has been read.                *)
LEMMA SlotFills ==
  ASSUME NEW g \in Seq(Bytes), NEW s \in Seq(Bytes), NEW a \in Nat, NEW b \in Nat,
         a <= b, b <= Len(s), NEW size \in Nat \ {0},
         NEW n \in 1..Len(SubSeq(s, b + 1, Len(s))), n <= size,
         NEW slot \in Slot(SubSeq(SubSeq(s, b + 1, Len(s)), 1, n), size),
         Filled(g, s, a, b), Len(g) % size = 0
  PROVE  /\ g \o slot \in Seq(Bytes)
         /\ g \o slot # <<>>
         /\ Len(g \o slot) % size = 0
         /\ b + n <= Len(s)
         /\ Filled(g \o slot, s, a, b + n)
<1>1. /\ Len(s) \in Nat /\ Len(g) \in Nat /\ b + 1 \in Int
      /\ \A j \in (b + 1)..Len(s) : s[j] \in Bytes
  BY LenProperties, ElementOfSeq
<1> DEFINE p == SubSeq(s, b + 1, Len(s))
           part == SubSeq(p, 1, n)
<1>2. /\ p \in Seq(Bytes)
      /\ Len(p) = IF b + 1 <= Len(s) THEN Len(s) - (b + 1) + 1 ELSE 0
      /\ \A i \in 1..(Len(s) - (b + 1) + 1) : p[i] = s[(b + 1) + i - 1]
  BY <1>1, SubSeqProperties
<1>3. n \in 1..Len(p) /\ slot \in Slot(part, size)
  OBVIOUS
<1> HIDE DEF p
<1>4. Len(p) = Len(s) - b /\ \A i \in 1..Len(p) : p[i] = s[b + i]
  <2>1. Len(p) = Len(s) - b /\ Len(s) - (b + 1) + 1 = Len(s) - b
    BY <1>1, <1>2
  <2>2. \A i \in 1..Len(p) : (b + 1) + i - 1 = b + i
    BY <1>1, <1>2
  <2> QED
    BY ZenonT(60), <1>2, <2>1, <2>2
<1>5. n \in Nat /\ n >= 1 /\ n <= Len(p) /\ b + n <= Len(s)
  BY <1>1, <1>3, <1>4
<1>6. /\ part \in Seq(Bytes) /\ Len(part) = n
      /\ \A i \in 1..n : part[i] = s[b + i]
  <2>1. \A i \in 1..n : p[i] \in Bytes
    BY <1>2, <1>3, <1>5, ElementOfSeq
  <2>2. /\ part \in Seq(Bytes)
        /\ Len(part) = IF 1 <= n THEN n - 1 + 1 ELSE 0
        /\ \A i \in 1..(n - 1 + 1) : part[i] = p[1 + i - 1]
    BY <1>5, <2>1, SubSeqProperties
  <2> HIDE DEF part
  <2>3. Len(part) = n /\ n - 1 + 1 = n
    BY <1>5, <2>2
  <2>4. \A i \in 1..n : part[i] = p[i]
    BY <1>5, <2>2, <2>3
  <2>5. ASSUME NEW i \in 1..n
        PROVE  part[i] = s[b + i]
    <3>1. i \in 1..Len(p)
      BY <1>5, <1>3
    <3> QED
      BY <1>4, <2>4, <3>1
  <2> QED
    BY <2>2, <2>3, <2>5
<1> HIDE DEF part
<1>7. PICK rest \in [1..(size - n) -> Bytes] : slot = part \o rest
  BY <1>3, <1>6 DEF Slot
<1>8. rest \in Seq(Bytes) /\ Len(rest) = size - n
  <2>1. size - n \in Nat
    BY <1>5
  <2> QED
    BY <2>1, Functions
<1>9. /\ slot \in Seq(Bytes) /\ Len(slot) = Len(part) + Len(rest)
      /\ \A j \in 1..Len(part) : slot[j] = part[j]
  <2>1. /\ part \o rest \in Seq(Bytes)
        /\ Len(part \o rest) = Len(part) + Len(rest)
        /\ \A j \in 1..Len(part) : (part \o rest)[j] = part[j]
    BY <1>6, <1>8, Longer
  <2> QED
    BY <1>7, <2>1
<1>10. Len(slot) = size /\ \A j \in 1..n : slot[j] = s[b + j]
  <2>1. Len(slot) = size
    BY <1>5, <1>6, <1>8, <1>9
  <2>2. \A j \in 1..n : slot[j] = part[j]
    BY <1>6, <1>9
  <2> QED
    BY <1>6, <2>1, <2>2
<1> DEFINE h == g \o slot
<1>11. /\ h \in Seq(Bytes) /\ Len(h) = Len(g) + Len(slot)
       /\ \A j \in 1..Len(g) : h[j] = g[j]
       /\ \A j \in 1..Len(slot) : h[Len(g) + j] = slot[j]
  BY <1>9, Longer
<1> HIDE DEF h
<1>12. Len(h) % size = 0 /\ Len(h) > 0 /\ Len(h) = Len(g) + size
  <2>1. (Len(g) + size) % size = 0
    BY <1>1, Multiples
  <2> QED
    BY <1>1, <1>10, <1>11, <2>1
<1>13. h # <<>>
  BY <1>12, EmptySeq
<1>14. Filled(h, s, a, b + n)
  <2>1. (b + n) - a <= Len(h)
    BY <1>1, <1>5, <1>12 DEF Filled
  <2>2. a < b + n
    BY <1>5
  <2>3. h[1] = s[a + 1]
    <3>1. CASE Len(g) = 0
      <4>1. a = b
        BY <3>1 DEF Filled
      <4>2. h[1] = slot[1]
        <5>1. 1 \in 1..Len(slot) /\ Len(g) + 1 = 1
          BY <1>10, <3>1
        <5> QED
          BY <1>11, <5>1
      <4> QED
        BY <1>5, <1>10, <4>1, <4>2
    <3>2. CASE Len(g) # 0
      <4>1. g # <<>> /\ 1 \in 1..Len(g)
        BY <1>1, <3>2, EmptySeq
      <4> QED
        BY <1>11, <4>1 DEF Filled
    <3> QED
      BY <3>1, <3>2
  <2>4. ASSUME (b + n) - a = Len(h), NEW j \in 1..Len(h)
        PROVE  h[j] = s[a + j]
    <3>1. b - a = Len(g) /\ n = size
      <4>1. b - a <= Len(g)
        BY DEF Filled
      <4>2. b + n - a = Len(g) + size
        BY <1>12, <2>4
      <4>3. Len(g) \in Nat /\ n \in Nat /\ n <= size
        BY <1>1, <1>5
      <4> QED
        BY <4>1, <4>2, <4>3
    <3>2. CASE j <= Len(g)
      <4>1. j \in 1..Len(g)
        BY <1>1, <3>2
      <4>2. g[j] = s[a + j]
        BY <3>1, <4>1 DEF Filled
      <4> QED
        BY <1>11, <4>1, <4>2
    <3>3. CASE ~(j <= Len(g))
      <4>1. PICK i \in 1..size : j = Len(g) + i
        <5>1. j - Len(g) \in 1..size /\ j = Len(g) + (j - Len(g))
          BY <1>1, <1>12, <3>3
        <5> QED
          BY <5>1
      <4>2. h[j] = slot[i] /\ slot[i] = s[b + i]
        BY <1>10, <1>11, <3>1, <4>1
      <4>3. b + i = a + j
        BY <1>1, <3>1, <4>1
      <4> QED
        BY <4>2, <4>3
    <3> QED
      BY <3>2, <3>3
  <2> QED
    BY <2>1, <2>2, <2>3, <2>4 DEF Filled
<1> QED
  BY <1>5, <1>11, <1>12, <1>13, <1>14 DEF h

LEMMA Trims ==
  ASSUME NEW g \in Seq(Bytes), NEW s \in Seq(Bytes), NEW a \in Nat, NEW b \in Nat,
         a <= b, b <= Len(s), g # <<>>, Content(g) # 0, Filled(g, s, a, b),
         NEW t \in Instances
  PROVE  LET u == [t EXCEPT !.data = SubSeq(g, 1, Content(g))] IN
         /\ u \in Instances
         /\ u.chunk_size = t.chunk_size /\ u.error = t.error
         /\ Returned(u, g, s, a, b)
<1> DEFINE k == Content(g)
           d == SubSeq(g, 1, k)
           u == [t EXCEPT !.data = d]
<1>1. /\ k \in 0..Len(g) /\ k # 0
      /\ \A j \in (k + 1)..Len(g) : g[j] = Pad
  BY Trimmed
<1> HIDE DEF k
<1>2. Len(g) \in Nat /\ \A i \in 1..Len(g) : g[i] \in Bytes
  BY LenProperties, ElementOfSeq
<1>3. k \in 1..Len(g)
  BY <1>1, <1>2
<1>4. /\ d \in Seq(Bytes)
      /\ Len(d) = k
      /\ \A i \in 1..k : d[i] = g[i]
  <2>1. /\ d \in Seq(Bytes)
        /\ Len(d) = IF 1 <= k THEN k - 1 + 1 ELSE 0
        /\ \A i \in 1..(k - 1 + 1) : d[i] = g[1 + i - 1]
    BY <1>2, <1>3, SubSeqProperties
  <2> HIDE DEF d
  <2>2. Len(d) = k /\ k - 1 + 1 = k
    BY <1>3, <2>1
  <2> QED
    BY <1>3, <2>1, <2>2
<1> HIDE DEF d
<1>5. u \in Instances /\ u.data = d /\ u.chunk_size = t.chunk_size /\ u.error = t.error
  BY <1>4 DEF Instances
<1> HIDE DEF u
<1>6. /\ a < b /\ g[1] = s[a + 1]
      /\ b - a = Len(g) => \A j \in 1..Len(g) : g[j] = s[a + j]
  BY DEF Filled
<1>7. d[1] = s[a + 1]
  BY <1>3, <1>4, <1>6
<1>8. ASSUME b - a = Len(g)
      PROVE  /\ \A j \in 1..Len(d) : d[j] = s[a + j]
             /\ \A j \in (Len(d) + 1)..Len(g) : s[a + j] = Pad
  <2>1. \A j \in 1..Len(d) : j \in 1..Len(g) /\ d[j] = g[j]
    BY <1>2, <1>3, <1>4
  <2>2. \A j \in (Len(d) + 1)..Len(g) : j \in 1..Len(g) /\ g[j] = Pad
    BY <1>1, <1>2, <1>3, <1>4
  <2>3. \A j \in 1..Len(g) : g[j] = s[a + j]
    BY <1>6, <1>8
  <2> QED
    BY <2>1, <2>2, <2>3
<1>9. Returned(u, g, s, a, b)
  <2>1. Len(d) \in 1..Len(g)
    BY <1>3, <1>4
  <2> QED
    BY <1>5, <1>6, <1>7, <1>8, <2>1 DEF Returned
<1> QED
  BY <1>5, <1>9 DEF u, d, k

-----------------------------------------------------------------------------
(* The instances.                                                          *)

LEMMA NoneIs == NoInstance \in Instances /\ NoInstance.chunk_size = 0
                /\ NoInstance.error = FALSE
BY DEF NoInstance, Instances

LEMMA MadeIs ==
  ASSUME Types, NEW e \in Ends, NEW m \in Messages \cup {Null},
         NEW size \in ChunkSizes
  PROVE  LET t == Made(e, m, size) IN
         /\ t \in Instances
         /\ t.read_used = FALSE
         /\ t.chunk_size > 0
         /\ t.chunk_size > 0 /\ ~t.error => t.chunk_size > Overhead
<1>1. size \in Nat \ {0} /\ Overhead \in Nat /\ m \in Seq(Bytes) \cup {Null}
  BY TransmissionAssumption
<1> DEFINE error == conn[e] = "broken" \/ size <= Overhead
           msg == IF size <= Overhead THEN "live" ELSE "null"
           t == [NoInstance EXCEPT
                  !.data = m, !.open = TRUE, !.chunk_size = size,
                  !.error = error, !.err_msg = msg]
<1>2. Made(e, m, size) = t
  BY DEF Made
<1>3. /\ msg \in {"null", "live", "freed"} /\ error \in BOOLEAN
      /\ ~error => size > Overhead
  BY <1>1
<1> HIDE DEF error, msg
<1>4. /\ t \in Instances
      /\ t.chunk_size = size /\ t.read_used = FALSE
      /\ t.error = error
  BY <1>1, <1>3 DEF Instances, NoInstance
<1> HIDE DEF t
<1> QED
  BY <1>1, <1>2, <1>3, <1>4

LEMMA ClosedIs ==
  ASSUME NEW t \in Instances
  PROVE  /\ Closed(t) \in Instances
         /\ Closed(t).data = Null
         /\ Closed(t).error = t.error
         /\ Closed(t).chunk_size = t.chunk_size
BY DEF Closed, Instances

LEMMA FailedIs ==
  ASSUME NEW t \in Instances
  PROVE  /\ Failed(t) \in Instances
         /\ Failed(t).data = Null
         /\ Failed(t).error = TRUE
         /\ Failed(t).err_msg = "live"
<1> DEFINE u == Closed(t)
<1>1. u \in Instances /\ u.data = Null
  BY ClosedIs
<1>2. Failed(t) = [u EXCEPT !.error = TRUE, !.err_msg = "live"]
  BY DEF Failed
<1> HIDE DEF u
<1> QED
  BY <1>1, <1>2 DEF Instances

-----------------------------------------------------------------------------
(* The steps.                                                              *)

Others ==
  /\ \A e \in Ends : Other(e) \in Ends /\ Other(e) # e
  /\ \A e \in Ends : Other(e) = IF e = Near THEN Far ELSE Near

LEMMA TwoEnds == Others
BY TransmissionAssumption DEF Others, Other, Ends

Untouched(d) ==
  /\ pc'[d] = pc[d]
  /\ inst'[d] = inst[d]
  /\ next'[d] = next[d]
  /\ got'[d] = got[d]
  /\ stream'[d] = stream[d]
  /\ taken'[d] = taken[d]
  /\ from'[d] = from[d]
  /\ result'[d] = result[d]
  /\ sent'[d] = sent[d]

Grows ==
  \A d \in Ends :
    /\ Len(stream[d]) <= Len(stream'[d])
    /\ \A j \in 1..Len(stream[d]) : stream'[d][j] = stream[d][j]

(* What a step of e does to the invariant.                                 *)
StepOf(e) ==
  /\ Types'
  /\ Grows
  /\ \A d \in Ends \ {e} : Untouched(d)
  /\ Sound(e)' /\ Writes(e)' /\ Receives(e)'

(* The other end is where it was, and all it has to read is still there.   *)
LEMMA OtherStays ==
  ASSUME IInv, Types', Grows, NEW d \in Ends, Untouched(d)
  PROVE  Sound(d)' /\ Writes(d)' /\ Receives(d)'
<1>1. Sound(d) /\ Writes(d) /\ Receives(d)
  BY DEF IInv
<1>2. Sound(d)'
  BY <1>1 DEF Sound, Untouched
<1>3. Writes(d)'
  BY <1>1 DEF Writes, Untouched
<1>4. Receives(d)'
  <2> DEFINE s == stream[Other(d)]
             c == stream'[Other(d)]
  <2>1. /\ s \in Seq(Bytes) /\ c \in Seq(Bytes)
        /\ Len(s) <= Len(c) /\ \A j \in 1..Len(s) : c[j] = s[j]
    BY TwoEnds DEF Others, IInv, Types, Grows
  <2>2. /\ got[d] \in Seq(Bytes) /\ inst[d] \in Instances
        /\ from[d] \in Nat /\ taken[d] \in Nat
    BY DEF IInv, Types
  <2>3. /\ from[d] <= taken[d]
        /\ taken[d] <= Len(s)
        /\ pc[d] \in Reading =>
             /\ Len(got[d]) % inst[d].chunk_size = 0
             /\ Filled(got[d], s, from[d], taken[d])
        /\ pc[d] \in {"idle"} \cup Sending =>
             Returned(inst[d], got[d], s, from[d], taken[d])
    BY <1>1 DEF Receives
  <2> HIDE DEF s, c
  <2>4. /\ taken[d] <= Len(c)
        /\ Filled(got[d], s, from[d], taken[d]) => Filled(got[d], c, from[d], taken[d])
        /\ Returned(inst[d], got[d], s, from[d], taken[d]) =>
             Returned(inst[d], got[d], c, from[d], taken[d])
    BY <2>1, <2>2, <2>3, StaysRead
  <2>5. /\ from'[d] <= taken'[d]
        /\ taken'[d] <= Len(c)
        /\ pc'[d] \in Reading =>
             /\ Len(got'[d]) % inst'[d].chunk_size = 0
             /\ Filled(got'[d], c, from'[d], taken'[d])
        /\ pc'[d] \in {"idle"} \cup Sending =>
             Returned(inst'[d], got'[d], c, from'[d], taken'[d])
    BY <2>3, <2>4 DEF Untouched
  <2> QED
    BY <2>5 DEF Receives, c
<1> QED
  BY <1>2, <1>3, <1>4

LEMMA SameStreams ==
  ASSUME Types, UNCHANGED stream
  PROVE  Grows
<1>1. \A d \in Ends : Len(stream[d]) \in Nat
  BY LenProperties DEF Types
<1> QED
  BY <1>1 DEF Grows

(* A step of e that does not write.                                        *)
LEMMA WritesStay ==
  ASSUME NEW e \in Ends, Writes(e), sent'[e] = sent[e], stream'[e] = stream[e],
         \/ pc'[e] = "dead"
         \/ pc[e] \in {"idle"} \cup Reading /\ pc'[e] \in {"idle"} \cup Reading
  PROVE  Writes(e)'
<1>1. pc'[e] \notin Sending
  BY DEF Sending, Reading
<1>2. pc'[e] \in {"idle"} \cup Reading => pc[e] \in {"idle"} \cup Reading
  BY DEF Reading
<1> QED
  BY <1>1, <1>2 DEF Writes

LEMMA DieStep ==
  ASSUME IInv, NEW e \in Ends, Die(e)
  PROVE  StepOf(e)
<1>1. Types /\ Sound(e) /\ Writes(e) /\ Receives(e)
  BY DEF IInv
<1>2. /\ pc' = [pc EXCEPT ![e] = "dead"]
      /\ inst' = [inst EXCEPT ![e] = NoInstance]
      /\ next' = [next EXCEPT ![e] = 0]
      /\ got' = [got EXCEPT ![e] = <<>>]
      /\ from' = [from EXCEPT ![e] = 0]
      /\ result' = [result EXCEPT ![e] = "none"]
      /\ UNCHANGED <<conn, stream, taken, sent>>
  BY DEF Die, Forget, Goto, Result
<1>3. Types'
  BY <1>1, <1>2, NoneIs, EmptySeq DEF Types, Steps
<1>4. \A d \in Ends \ {e} : Untouched(d)
  BY <1>1, <1>2 DEF Types, Untouched
<1>5. /\ pc'[e] = "dead" /\ inst'[e] = NoInstance /\ from'[e] = 0
      /\ taken'[e] = taken[e] /\ taken[e] \in Nat
  BY <1>1, <1>2 DEF Types
<1>6. Sound(e)'
  BY <1>5, NoneIs DEF Sound, Sending, Reading
<1>7. Writes(e)'
  BY <1>1, <1>2, <1>5, WritesStay
<1>8. Receives(e)'
  BY <1>1, <1>2, <1>5 DEF Receives, Sending, Reading
<1> QED
  BY <1>1, <1>2, <1>3, <1>4, <1>6, <1>7, <1>8, SameStreams DEF StepOf

(* A call that only changes the instance.                                  *)
LEMMA QuietStep ==
  ASSUME IInv, NEW e \in Ends, pc[e] = "idle",
         NEW u \in Instances, inst' = [inst EXCEPT ![e] = u],
         NEW r \in {"none", "0"}, result' = [result EXCEPT ![e] = r],
         UNCHANGED <<conn, pc, io, sent>>,
         u.chunk_size > 0 /\ ~u.error => u.chunk_size > Overhead,
         r = "0" /\ u.error => u.err_msg = "live",
         u.data = Null \/ u.read_used = FALSE
  PROVE  StepOf(e)
<1>1. Types /\ Sound(e) /\ Writes(e) /\ Receives(e)
  BY DEF IInv
<1>2. UNCHANGED <<conn, pc, next, got, stream, taken, from, sent>>
  BY DEF io
<1>3. Types'
  BY <1>1, <1>2 DEF Types
<1>4. \A d \in Ends \ {e} : Untouched(d)
  BY <1>1, <1>2 DEF Types, Untouched
<1>5. inst'[e] = u /\ result'[e] = r /\ pc'[e] = "idle"
  BY <1>1, <1>2 DEF Types
<1>6. Sound(e)'
  BY <1>5 DEF Sound, Sending, Reading
<1>7. Writes(e)'
  BY <1>1, <1>2, <1>5, WritesStay
<1>8. Receives(e)'
  BY <1>1, <1>2, <1>5 DEF Receives, Returned, Sending, Reading
<1> QED
  BY <1>1, <1>2, <1>3, <1>4, <1>6, <1>7, <1>8, SameStreams DEF StepOf

LEMMA StartSendingStep ==
  ASSUME IInv, NEW e \in Ends, pc[e] = "idle", NEW t \in Instances,
         t.chunk_size > Overhead, t.data # Null, ~t.error,
         t = inst[e] \/ t.read_used = FALSE,
         NEW step \in Sending, StartSending(e, t, step)
  PROVE  StepOf(e)
<1> DEFINE u == [t EXCEPT !.write_used = TRUE]
           m == [data |-> t.data, size |-> PieceSize(t), at |-> Len(stream[e])]
           q == Append(sent[e], m)
<1>1. /\ Types /\ Sound(e) /\ Writes(e) /\ Receives(e)
      /\ stream[e] \in Seq(Bytes) /\ sent[e] \in Seq(SentMessages)
      /\ Overhead \in Nat
  BY TransmissionAssumption DEF IInv, Types
<1>2. /\ u \in Instances /\ u.data = t.data /\ u.chunk_size = t.chunk_size
      /\ u.error = t.error /\ u.read_used = t.read_used
      /\ t.data \in Seq(Bytes) /\ t.chunk_size \in Nat
  BY DEF Instances
<1>3. /\ inst' = [inst EXCEPT ![e] = u]
      /\ next' = [next EXCEPT ![e] = 0]
      /\ pc' = [pc EXCEPT ![e] = step]
      /\ result' = [result EXCEPT ![e] = "none"]
      /\ sent' = [sent EXCEPT ![e] = q]
      /\ UNCHANGED <<conn, got, stream, taken, from>>
  BY <1>1 DEF StartSending, Goto, Result, SentMessage, Types
<1>4. /\ q \in Seq(SentMessages)
      /\ Begins(q, stream[e])
      /\ \A k \in 1..Len(q) : k < Len(q) => Complete(q, stream[e], k)
      /\ Begun(u, 0, q, stream[e])
  <2>1. /\ Begins(sent[e], stream[e])
        /\ \A k \in 1..Len(sent[e]) : Complete(sent[e], stream[e], k)
    BY <1>1 DEF Writes
  <2> HIDE DEF u
  <2> QED
    BY <1>1, <1>2, <2>1, MessageBegins
<1> HIDE DEF u, q
<1>5. Types'
  BY <1>1, <1>2, <1>3, <1>4 DEF Types, Steps, Sending
<1>6. \A d \in Ends \ {e} : Untouched(d)
  BY <1>1, <1>3 DEF Types, Untouched
<1>7. /\ inst'[e] = u /\ next'[e] = 0 /\ pc'[e] = step /\ result'[e] = "none"
      /\ sent'[e] = q /\ stream'[e] = stream[e]
  BY <1>1, <1>3 DEF Types
<1>8. Sound(e)'
  BY <1>1, <1>2, <1>7 DEF Sound, Sending
<1>9. Writes(e)'
  BY <1>4, <1>7 DEF Writes, Sending, Reading
<1>10. Receives(e)'
  <2>1. Returned(inst[e], got[e], stream[Other(e)], from[e], taken[e])
    BY <1>1 DEF Receives
  <2>2. Returned(u, got[e], stream[Other(e)], from[e], taken[e])
    BY <1>2, <2>1 DEF Returned
  <2> QED
    BY <1>1, <1>3, <1>7, <2>2 DEF Receives, Sending, Reading
<1> QED
  BY <1>1, <1>3, <1>5, <1>6, <1>8, <1>9, <1>10, SameStreams DEF StepOf

LEMMA WriteStep ==
  ASSUME IInv, NEW e \in Ends, WriteChunk(e)
  PROVE  StepOf(e)
<1> DEFINE t == inst[e]
           s == stream[e]
           q == sent[e]
           n == next[e]
<1>1. /\ Types /\ Sound(e) /\ Writes(e) /\ Receives(e)
      /\ s \in Seq(Bytes) /\ q \in Seq(SentMessages) /\ t \in Instances
      /\ n \in Nat /\ Overhead \in Nat
  BY TransmissionAssumption DEF IInv, Types
<1>2. CASE Die(e)
  BY <1>2, DieStep
<1>3. CASE ~Die(e)
  <2>1. /\ pc[e] \in Sending
        /\ UNCHANGED <<conn, got, taken, from, sent>>
        /\ IF n < Iterations(t)
           THEN /\ next' = [next EXCEPT ![e] = @ + 1]
                /\ UNCHANGED <<pc, inst, result>>
           ELSE /\ next' = [next EXCEPT ![e] = 0]
                /\ Goto(e, "idle")
                /\ Result(e, "1")
                /\ inst' = [inst EXCEPT ![e] = IF pc[e] = "pp_send"
                                               THEN NoInstance ELSE t]
    BY <1>3 DEF WriteChunk, Sending
  <2>2. PICK behind \in [1..Overhead -> Bytes] :
          stream' = [stream EXCEPT ![e] =
            @ \o Piece(t.data, Offset(t, n), PieceSize(t)) \o behind]
    BY <1>3 DEF WriteChunk
  <2> DEFINE c == s \o Piece(t.data, Offset(t, n), PieceSize(t)) \o behind
  <2>3. stream' = [stream EXCEPT ![e] = c]
    BY <1>1, <2>2 DEF Types
  <2>4. t.data \in Seq(Bytes) /\ t.chunk_size > Overhead
        /\ t.chunk_size > 0 /\ ~t.error
    BY <1>1, <2>1 DEF Sound
  <2>5. /\ c \in Seq(Bytes)
        /\ Len(s) <= Len(c)
        /\ \A j \in 1..Len(s) : c[j] = s[j]
        /\ Begins(q, c)
        /\ \A k \in 1..Len(q) : k < Len(q) => Complete(q, c, k)
        /\ n < Iterations(t) => Begun(t, n + 1, q, c)
        /\ ~(n < Iterations(t)) => Complete(q, c, Len(q))
    <3>1. /\ Begins(q, s)
          /\ \A k \in 1..Len(q) : k < Len(q) => Complete(q, s, k)
          /\ Begun(t, n, q, s)
      BY <1>1, <2>1 DEF Writes
    <3> HIDE DEF t, s, q, n
    <3> QED
      BY <1>1, <2>4, <3>1, MessageGoesOn
  <2> HIDE DEF c
  <2>6. Grows
    <3>1. \A d \in Ends : Len(stream[d]) \in Nat
      BY <1>1, LenProperties DEF Types
    <3>2. \A d \in Ends : stream'[d] = IF d = e THEN c ELSE stream[d]
      BY <1>1, <2>3 DEF Types
    <3>3. ASSUME NEW d \in Ends
          PROVE  /\ Len(stream[d]) <= Len(stream'[d])
                 /\ \A j \in 1..Len(stream[d]) : stream'[d][j] = stream[d][j]
      <4>1. CASE d = e
        BY <2>5, <3>2, <4>1
      <4>2. CASE d # e
        BY <3>1, <3>2, <4>2
      <4> QED
        BY <4>1, <4>2
    <3> QED
      BY <3>3 DEF Grows
  <2>7. /\ stream'[e] = c /\ sent'[e] = q
        /\ stream'[Other(e)] = stream[Other(e)]
    BY <1>1, <2>1, <2>3, TwoEnds DEF Types, Others
  <2>8. Returned(t, got[e], stream[Other(e)], from[e], taken[e])
    BY <1>1, <2>1 DEF Receives
  <2>9. CASE n < Iterations(t)
    <3>1. /\ next' = [next EXCEPT ![e] = @ + 1]
          /\ UNCHANGED <<pc, inst, result>>
      BY <2>1, <2>9
    <3>2. next'[e] = n + 1
      BY <1>1, <3>1 DEF Types
    <3>3. Types'
      <4>1. stream' \in [Ends -> Seq(Bytes)] /\ next' \in [Ends -> Nat]
        BY <1>1, <2>3, <2>5, <3>1 DEF Types
      <4> QED
        BY <1>1, <2>1, <3>1, <4>1 DEF Types
    <3>4. \A d \in Ends \ {e} : Untouched(d)
      BY <1>1, <2>1, <2>3, <3>1 DEF Types, Untouched
    <3>5. Sound(e)'
      BY <1>1, <3>1 DEF Sound
    <3>6. Writes(e)'
      BY <2>1, <2>5, <2>7, <2>9, <3>1, <3>2 DEF Writes, Sending, Reading
    <3>7. Receives(e)'
      BY <1>1, <2>1, <2>7, <3>1 DEF Receives
    <3> QED
      BY <2>6, <3>3, <3>4, <3>5, <3>6, <3>7 DEF StepOf
  <2>10. CASE ~(n < Iterations(t))
    <3> DEFINE u == IF pc[e] = "pp_send" THEN NoInstance ELSE t
    <3>1. u \in Instances /\ (u = NoInstance \/ u = t)
      BY <1>1, NoneIs
    <3>2. /\ next' = [next EXCEPT ![e] = 0]
          /\ pc' = [pc EXCEPT ![e] = "idle"]
          /\ result' = [result EXCEPT ![e] = "1"]
          /\ inst' = [inst EXCEPT ![e] = u]
      BY <2>1, <2>10 DEF Goto, Result
    <3> HIDE DEF u
    <3>3. Types'
      BY <1>1, <2>1, <2>3, <2>5, <3>1, <3>2 DEF Types, Steps
    <3>4. \A d \in Ends \ {e} : Untouched(d)
      BY <1>1, <2>1, <2>3, <3>2 DEF Types, Untouched
    <3>5. pc'[e] = "idle" /\ result'[e] = "1" /\ inst'[e] = u
      BY <1>1, <3>2 DEF Types
    <3>6. Sound(e)'
      BY <2>4, <3>1, <3>5, NoneIs DEF Sound, Sending, Reading
    <3>7. \A k \in 1..Len(q) : Complete(q, c, k)
      <4>1. \A k \in 1..Len(q) : k < Len(q) \/ k = Len(q)
        BY <1>1, LenProperties
      <4> QED
        BY <2>5, <2>10, <4>1
    <3>8. Writes(e)'
      BY <2>5, <2>7, <3>5, <3>7 DEF Writes, Sending
    <3>9. Receives(e)'
      <4>1. Returned(u, got[e], stream[Other(e)], from[e], taken[e])
        <5>1. NoInstance.read_used = FALSE
          BY DEF NoInstance
        <5> QED
          BY <2>8, <3>1, <5>1 DEF Returned
      <4> QED
        BY <1>1, <2>1, <2>7, <3>5, <4>1 DEF Receives, Reading
    <3> QED
      BY <2>6, <3>3, <3>4, <3>6, <3>8, <3>9 DEF StepOf
  <2> QED
    BY <2>9, <2>10
<1> QED
  BY <1>2, <1>3

LEMMA StartReadingStep ==
  ASSUME IInv, NEW e \in Ends, pc[e] = "idle", NEW t \in Instances,
         t.chunk_size > 0, ~t.error, t.chunk_size > Overhead,
         NEW step \in Reading, StartReading(e, t, step)
  PROVE  StepOf(e)
<1> DEFINE u == [t EXCEPT !.read_used = TRUE]
           s == stream[Other(e)]
<1>1. /\ Types /\ Sound(e) /\ Writes(e) /\ Receives(e)
      /\ taken[e] \in Nat
  BY DEF IInv, Types
<1>2. /\ u \in Instances /\ u.chunk_size = t.chunk_size /\ u.error = t.error
      /\ t.chunk_size \in Nat \ {0}
  <2>1. t.chunk_size \in Nat
    BY DEF Instances
  <2>2. /\ u \in Instances /\ u.chunk_size = t.chunk_size
        /\ u.error = t.error
    BY DEF Instances
  <2> QED
    BY <2>1, <2>2
<1>3. /\ inst' = [inst EXCEPT ![e] = u]
      /\ got' = [got EXCEPT ![e] = <<>>]
      /\ from' = [from EXCEPT ![e] = taken[e]]
      /\ pc' = [pc EXCEPT ![e] = step]
      /\ result' = [result EXCEPT ![e] = "none"]
      /\ UNCHANGED <<conn, next, stream, taken, sent>>
  BY DEF StartReading, Goto, Result
<1> HIDE DEF u
<1>4. Types'
  BY <1>1, <1>2, <1>3, EmptySeq DEF Types, Steps, Reading
<1>5. \A d \in Ends \ {e} : Untouched(d)
  BY <1>1, <1>3 DEF Types, Untouched
<1>6. /\ inst'[e] = u /\ got'[e] = <<>> /\ from'[e] = taken[e] /\ pc'[e] = step
      /\ result'[e] = "none"
  BY <1>1, <1>3 DEF Types
<1>7. Sound(e)'
  BY <1>2, <1>6 DEF Sound, Sending, Reading
<1>8. Writes(e)'
  BY <1>1, <1>3, <1>6, WritesStay
<1>9. Receives(e)'
  <2>1. Len(<<>>) % t.chunk_size = 0
    <3>1. 0 % t.chunk_size = 0
      BY <1>2
    <3> QED
      BY <3>1, EmptySeq
  <2>2. Filled(<<>>, s, taken[e], taken[e])
    <3>1. Len(<<>>) = 0 /\ taken[e] - taken[e] = 0
      BY <1>1, EmptySeq
    <3> QED
      BY <3>1 DEF Filled
  <2>3. taken[e] <= taken[e] /\ taken[e] <= Len(s)
    BY <1>1 DEF Receives
  <2> QED
    BY <1>2, <1>3, <1>6, <2>1, <2>2, <2>3 DEF Receives, Sending, Reading
<1> QED
  BY <1>1, <1>3, <1>4, <1>5, <1>7, <1>8, <1>9, SameStreams DEF StepOf

(* The end of the loop of receive, with the slots g.                       *)
LEMMA EndStep ==
  ASSUME IInv, NEW e \in Ends, pc[e] \in Reading,
         NEW g \in Seq(Bytes), g # <<>>, NEW b \in Nat,
         from[e] <= b, b <= Len(stream[Other(e)]),
         Filled(g, stream[Other(e)], from[e], b),
         taken' = [taken EXCEPT ![e] = b], EndReceive(e, g),
         UNCHANGED <<conn, stream, sent>>
  PROVE  StepOf(e)
<1> DEFINE s == stream[Other(e)]
           t == inst[e]
<1>1. /\ Types /\ Sound(e) /\ Writes(e) /\ Receives(e)
      /\ t \in Instances /\ s \in Seq(Bytes) /\ from[e] \in Nat
  BY TwoEnds DEF IInv, Types, Others
<1>2. CASE Content(g) = 0
  <2>1. /\ pc' = [pc EXCEPT ![e] = "dead"]
        /\ inst' = [inst EXCEPT ![e] = NoInstance]
        /\ next' = [next EXCEPT ![e] = 0]
        /\ got' = [got EXCEPT ![e] = <<>>]
        /\ from' = [from EXCEPT ![e] = 0]
        /\ result' = [result EXCEPT ![e] = "none"]
    BY <1>2 DEF EndReceive, Forget, Goto, Result
  <2>2. Types'
    BY <1>1, <2>1, NoneIs, EmptySeq DEF Types, Steps
  <2>3. \A d \in Ends \ {e} : Untouched(d)
    BY <1>1, <2>1 DEF Types, Untouched
  <2>4. /\ pc'[e] = "dead" /\ inst'[e] = NoInstance /\ from'[e] = 0
        /\ taken'[e] = b
    BY <1>1, <2>1 DEF Types
  <2>5. Sound(e)'
    BY <2>4, NoneIs DEF Sound, Sending, Reading
  <2>6. Writes(e)'
    BY <1>1, <2>4, WritesStay
  <2>7. Receives(e)'
    BY <2>4 DEF Receives, Sending, Reading
  <2> QED
    BY <1>1, <2>2, <2>3, <2>5, <2>6, <2>7, SameStreams DEF StepOf
<1>3. CASE Content(g) # 0
  <2> DEFINE u == [t EXCEPT !.data = SubSeq(g, 1, Content(g))]
  <2>1. /\ u \in Instances
        /\ u.chunk_size = t.chunk_size /\ u.error = t.error
        /\ Returned(u, g, s, from[e], b)
    <3> HIDE DEF s, t
    <3> QED
      BY <1>1, <1>3, Trims DEF s
  <2>2. /\ inst' = [inst EXCEPT ![e] = u]
        /\ got' = [got EXCEPT ![e] = g]
        /\ pc' = [pc EXCEPT ![e] = "idle"]
        /\ result' = [result EXCEPT ![e] = "1"]
        /\ UNCHANGED <<next, from>>
    <3>1. inst' = [inst EXCEPT ![e].data = SubSeq(g, 1, Content(g))]
          /\ got' = [got EXCEPT ![e] = g]
          /\ pc' = [pc EXCEPT ![e] = "idle"]
          /\ result' = [result EXCEPT ![e] = "1"]
          /\ UNCHANGED <<next, from>>
      BY <1>3 DEF EndReceive, Goto, Result
    <3> QED
      BY <1>1, <3>1 DEF Types
  <2> HIDE DEF u
  <2>3. Types'
    BY <1>1, <2>1, <2>2 DEF Types, Steps
  <2>4. \A d \in Ends \ {e} : Untouched(d)
    BY <1>1, <2>2 DEF Types, Untouched
  <2>5. /\ pc'[e] = "idle" /\ inst'[e] = u /\ from'[e] = from[e]
        /\ taken'[e] = b /\ got'[e] = g /\ result'[e] = "1"
    BY <1>1, <2>2 DEF Types
  <2>6. t.chunk_size > 0 /\ ~t.error => t.chunk_size > Overhead
    BY <1>1 DEF Sound
  <2>7. Sound(e)'
    BY <2>1, <2>5, <2>6 DEF Sound, Sending, Reading
  <2>8. Writes(e)'
    BY <1>1, <2>5, WritesStay
  <2>9. Receives(e)'
    BY <2>1, <2>5 DEF Receives, Sending, Reading
  <2> QED
    BY <1>1, <2>3, <2>4, <2>7, <2>8, <2>9, SameStreams DEF StepOf
<1> QED
  BY <1>2, <1>3

LEMMA ReadStep ==
  ASSUME IInv, NEW e \in Ends, ReadSlot(e)
  PROVE  StepOf(e)
<1> DEFINE s == stream[Other(e)]
           g == got[e]
           a == from[e]
           size == inst[e].chunk_size
<1>1. /\ Types /\ Sound(e) /\ Writes(e) /\ Receives(e)
      /\ s \in Seq(Bytes) /\ g \in Seq(Bytes) /\ a \in Nat /\ taken[e] \in Nat
  BY TwoEnds DEF IInv, Types, Others
<1>2. pc[e] \in Reading
  BY DEF ReadSlot, Reading
<1>3. size \in Nat \ {0}
  BY <1>1, <1>2 DEF Sound, Types, Instances
<1>4. PICK n \in 1..Len(Pipe(e)) :
        /\ n <= size
        /\ taken' = [taken EXCEPT ![e] = @ + n]
        /\ \E slot \in Slot(SubSeq(Pipe(e), 1, n), size) :
             IF EndsPadded(slot) THEN EndReceive(e, g \o slot)
             ELSE /\ got' = [got EXCEPT ![e] = @ \o slot]
                  /\ UNCHANGED <<pc, inst, next, from, result>>
  BY DEF ReadSlot
<1>5. PICK slot \in Slot(SubSeq(Pipe(e), 1, n), size) :
        IF EndsPadded(slot) THEN EndReceive(e, g \o slot)
        ELSE /\ got' = [got EXCEPT ![e] = @ \o slot]
             /\ UNCHANGED <<pc, inst, next, from, result>>
  BY <1>4
<1>6. UNCHANGED <<conn, stream, sent>>
  BY DEF ReadSlot
<1>7. Pipe(e) = SubSeq(s, taken[e] + 1, Len(s))
  BY DEF Pipe
<1>8. /\ a <= taken[e] /\ taken[e] <= Len(s)
      /\ Filled(g, s, a, taken[e]) /\ Len(g) % size = 0
  BY <1>1, <1>2 DEF Receives
<1> DEFINE h == g \o slot
           b == taken[e] + n
<1>9. /\ h \in Seq(Bytes)
      /\ h # <<>>
      /\ Len(h) % size = 0
      /\ b <= Len(s)
      /\ Filled(h, s, a, b)
  <2>1. n \in 1..Len(SubSeq(s, taken[e] + 1, Len(s)))
        /\ slot \in Slot(SubSeq(SubSeq(s, taken[e] + 1, Len(s)), 1, n), size)
    BY <1>7
  <2> HIDE DEF s, g, a, size
  <2> QED
    BY <1>1, <1>3, <1>4, <1>8, <2>1, SlotFills
<1>10. n \in Nat /\ b \in Nat /\ a <= b
  <2>1. Pipe(e) \in Seq(Bytes)
    <3>1. Len(s) \in Nat /\ \A j \in (taken[e] + 1)..Len(s) : s[j] \in Bytes
      BY <1>1, LenProperties, ElementOfSeq
    <3>2. taken[e] + 1 \in Int
      BY <1>1
    <3> HIDE DEF s
    <3> QED
      BY <1>7, <3>1, <3>2, SubSeqProperties
  <2>2. n \in Nat
    BY <2>1, LenProperties
  <2> QED
    BY <1>1, <1>8, <2>2
<1>11. taken' = [taken EXCEPT ![e] = b]
  BY <1>1, <1>4 DEF Types
<1> HIDE DEF b
<1>12. CASE EndsPadded(slot)
  <2>1. EndReceive(e, h)
    BY <1>5, <1>12
  <2> HIDE DEF h
  <2> QED
    BY <1>2, <1>6, <1>9, <1>10, <1>11, <2>1, EndStep
<1>13. CASE ~EndsPadded(slot)
  <2>1. /\ got' = [got EXCEPT ![e] = h]
        /\ UNCHANGED <<pc, inst, next, from, result>>
    BY <1>1, <1>5, <1>13 DEF Types
  <2> HIDE DEF h
  <2>2. Types'
    BY <1>1, <1>6, <1>9, <1>10, <1>11, <2>1 DEF Types
  <2>3. \A d \in Ends \ {e} : Untouched(d)
    BY <1>1, <1>6, <1>11, <2>1 DEF Types, Untouched
  <2>4. got'[e] = h /\ taken'[e] = b
    BY <1>1, <1>11, <2>1 DEF Types
  <2>5. Sound(e)'
    BY <1>1, <2>1 DEF Sound
  <2>6. Writes(e)'
    BY <1>1, <1>2, <1>6, <2>1, WritesStay
  <2>7. Receives(e)'
    BY <1>2, <1>6, <1>9, <1>10, <2>1, <2>4 DEF Receives, Sending, Reading
  <2> QED
    BY <1>1, <1>6, <2>2, <2>3, <2>5, <2>6, <2>7, SameStreams DEF StepOf
<1> QED
  BY <1>12, <1>13

LEMMA NothingStep ==
  ASSUME IInv, NEW e \in Ends, ReadsNothing(e)
  PROVE  StepOf(e)
<1> DEFINE s == stream[Other(e)]
<1>1. /\ Types /\ Sound(e) /\ Writes(e) /\ Receives(e)
      /\ got[e] \in Seq(Bytes) /\ taken[e] \in Nat
  BY DEF IInv, Types
<1>2. /\ pc[e] \in Reading /\ UNCHANGED <<conn, stream, taken, sent>>
      /\ IF got[e] = <<>>
         THEN /\ Goto(e, "idle")
              /\ Result(e, "0")
              /\ UNCHANGED <<inst, next, got, from>>
         ELSE EndReceive(e, got[e])
  BY DEF ReadsNothing, Reading
<1>3. CASE got[e] = <<>>
  <2>1. /\ pc' = [pc EXCEPT ![e] = "idle"]
        /\ result' = [result EXCEPT ![e] = "0"]
        /\ UNCHANGED <<inst, next, got, from>>
    BY <1>2, <1>3 DEF Goto, Result
  <2>2. Types'
    BY <1>1, <1>2, <2>1 DEF Types, Steps
  <2>3. \A d \in Ends \ {e} : Untouched(d)
    BY <1>1, <1>2, <2>1 DEF Types, Untouched
  <2>4. pc'[e] = "idle"
    BY <1>1, <2>1 DEF Types
  <2>5. Sound(e)'
    BY <1>1, <1>2, <2>1, <2>4 DEF Sound, Sending, Reading
  <2>6. Writes(e)'
    BY <1>1, <1>2, <2>4, WritesStay
  <2>7. Receives(e)'
    BY <1>1, <1>2, <1>3, <2>1, <2>4 DEF Receives, Returned, Sending, Reading
  <2> QED
    BY <1>1, <1>2, <2>2, <2>3, <2>5, <2>6, <2>7, SameStreams DEF StepOf
<1>4. CASE got[e] # <<>>
  <2>1. EndReceive(e, got[e])
    BY <1>2, <1>4
  <2>2. taken' = [taken EXCEPT ![e] = taken[e]]
    BY <1>1, <1>2 DEF Types
  <2>3. /\ from[e] <= taken[e] /\ taken[e] <= Len(s)
        /\ Filled(got[e], s, from[e], taken[e])
    BY <1>1, <1>2 DEF Receives
  <2> QED
    BY <1>1, <1>2, <1>4, <2>1, <2>2, <2>3, EndStep
<1> QED
  BY <1>3, <1>4

LEMMA RejectedStep ==
  ASSUME IInv, NEW e \in Ends, pc[e] = "idle", Rejected(e)
  PROVE  StepOf(e)
<1>1. CASE Die(e)
  BY <1>1, DieStep
<1>2. CASE ~Die(e)
  <2>1. inst[e] \in Instances
    BY DEF IInv, Types
  <2>2. /\ inst' = [inst EXCEPT ![e] = Failed(@)]
        /\ result' = [result EXCEPT ![e] = "0"]
        /\ UNCHANGED <<conn, pc, io, sent>>
    BY <1>2 DEF Rejected, Result
  <2> DEFINE u == Failed(inst[e])
  <2>3. /\ u \in Instances /\ u.data = Null /\ u.error = TRUE
        /\ u.err_msg = "live"
    BY <2>1, FailedIs
  <2>4. inst' = [inst EXCEPT ![e] = u]
    BY <2>2 DEF IInv, Types
  <2> HIDE DEF u
  <2> QED
    BY <2>2, <2>3, <2>4, QuietStep
<1> QED
  BY <1>1, <1>2

LEMMA HangupStep ==
  ASSUME IInv, NEW e \in Ends, Hangup(e)
  PROVE  StepOf(e)
<1>1. Types /\ Sound(e) /\ Writes(e) /\ Receives(e)
  BY DEF IInv
<1>2. /\ pc[e] = "idle"
      /\ conn' = [conn EXCEPT ![e] = "closed"]
      /\ inst' = [inst EXCEPT ![e] = NoInstance]
      /\ next' = [next EXCEPT ![e] = 0]
      /\ got' = [got EXCEPT ![e] = <<>>]
      /\ from' = [from EXCEPT ![e] = 0]
      /\ result' = [result EXCEPT ![e] = "none"]
      /\ UNCHANGED <<pc, stream, taken, sent>>
  BY DEF Hangup, Forget, Result
<1>3. Types'
  BY <1>1, <1>2, NoneIs, EmptySeq DEF Types
<1>4. \A d \in Ends \ {e} : Untouched(d)
  BY <1>1, <1>2 DEF Types, Untouched
<1>5. /\ pc'[e] = "idle" /\ inst'[e] = NoInstance /\ from'[e] = 0
      /\ got'[e] = <<>> /\ result'[e] = "none"
      /\ taken'[e] = taken[e] /\ taken[e] \in Nat
  BY <1>1, <1>2 DEF Types
<1>6. Sound(e)'
  BY <1>5, NoneIs DEF Sound, Sending, Reading
<1>7. Writes(e)'
  BY <1>1, <1>2, <1>5, WritesStay
<1>8. Receives(e)'
  BY <1>1, <1>2, <1>5 DEF Receives, Returned, Sending, Reading
<1> QED
  BY <1>1, <1>2, <1>3, <1>4, <1>6, <1>7, <1>8, SameStreams DEF StepOf

LEMMA CallStep ==
  ASSUME IInv, NEW e \in Ends,
         \/ InitTransmission(e) \/ CloseTransmission(e) \/ Transmit(e)
         \/ Receive(e) \/ PpSend(e) \/ PpRead(e)
  PROVE  StepOf(e)
<1>1. /\ Types /\ Sound(e) /\ inst[e] \in Instances
      /\ inst[e].chunk_size > 0 /\ ~inst[e].error =>
           inst[e].chunk_size > Overhead
  BY DEF IInv, Types, Sound
<1>2. pc[e] = "idle"
  BY DEF InitTransmission, CloseTransmission, Transmit, Receive, PpSend,
         PpRead, Calls
<1>3. CASE InitTransmission(e)
  <2>1. PICK m \in Messages \cup {Null}, size \in ChunkSizes :
          inst' = [inst EXCEPT ![e] = Made(e, m, size)]
    BY <1>3 DEF InitTransmission
  <2>2. result' = [result EXCEPT ![e] = "none"] /\ UNCHANGED <<conn, pc, io, sent>>
    BY <1>3 DEF InitTransmission, Result
  <2> DEFINE u == Made(e, m, size)
  <2>3. /\ u \in Instances /\ u.read_used = FALSE
        /\ u.chunk_size > 0 /\ ~u.error => u.chunk_size > Overhead
    BY <1>1, MadeIs
  <2> HIDE DEF u
  <2> QED
    BY <1>2, <2>1, <2>2, <2>3, QuietStep DEF u
<1>4. CASE CloseTransmission(e)
  <2>1. CASE Die(e)
    BY <2>1, DieStep
  <2>2. CASE ~Die(e)
    <3> DEFINE u == Closed(inst[e])
    <3>1. /\ inst' = [inst EXCEPT ![e] = u]
          /\ result' = [result EXCEPT ![e] = "none"]
          /\ UNCHANGED <<conn, pc, io, sent>>
      BY <1>1, <1>4, <2>2 DEF CloseTransmission, Result, Types
    <3>2. /\ u \in Instances /\ u.data = Null
          /\ u.chunk_size > 0 /\ ~u.error => u.chunk_size > Overhead
      BY <1>1, ClosedIs
    <3> HIDE DEF u
    <3> QED
      BY <1>2, <3>1, <3>2, QuietStep
  <2> QED
    BY <2>1, <2>2
<1>5. CASE Transmit(e)
  <2>1. CASE MayTransmit(inst[e])
    <3>1. StartSending(e, inst[e], "transmit") /\ inst[e].chunk_size > 0
      BY <1>5, <2>1 DEF Transmit
    <3>2. inst[e].data # Null /\ ~inst[e].error
      BY <2>1 DEF MayTransmit
    <3>3. "transmit" \in Sending
      BY DEF Sending
    <3> QED
      BY <1>1, <1>2, <3>1, <3>2, <3>3, StartSendingStep
  <2>2. CASE ~MayTransmit(inst[e])
    BY <1>2, <1>5, <2>2, RejectedStep DEF Transmit
  <2> QED
    BY <2>1, <2>2
<1>6. CASE Receive(e)
  <2>1. CASE MayReceive(inst[e])
    <3>1. StartReading(e, inst[e], "receive") /\ inst[e].chunk_size > 0
      BY <1>6, <2>1 DEF Receive
    <3>2. ~inst[e].error
      BY <2>1 DEF MayReceive
    <3>3. "receive" \in Reading
      BY DEF Reading
    <3> QED
      BY <1>1, <1>2, <3>1, <3>2, <3>3, StartReadingStep
  <2>2. CASE ~MayReceive(inst[e])
    BY <1>2, <1>6, <2>2, RejectedStep DEF Receive
  <2> QED
    BY <2>1, <2>2
<1>7. CASE PpSend(e)
  <2>1. PICK m \in Messages \cup {Null}, size \in ChunkSizes :
          LET t == Made(e, m, size) IN
          IF MayTransmit(t) THEN StartSending(e, t, "pp_send") ELSE Die(e)
    BY <1>7 DEF PpSend
  <2> DEFINE t == Made(e, m, size)
  <2>2. /\ t \in Instances /\ t.read_used = FALSE
        /\ t.chunk_size > 0
        /\ t.chunk_size > 0 /\ ~t.error => t.chunk_size > Overhead
    BY <1>1, MadeIs
  <2>3. IF MayTransmit(t) THEN StartSending(e, t, "pp_send") ELSE Die(e)
    BY <2>1
  <2> HIDE DEF t
  <2>4. CASE MayTransmit(t)
    <3>1. t.data # Null /\ ~t.error /\ t.chunk_size > Overhead
      BY <2>2, <2>4 DEF MayTransmit
    <3>2. "pp_send" \in Sending
      BY DEF Sending
    <3> QED
      BY <1>2, <2>2, <2>3, <2>4, <3>1, <3>2, StartSendingStep
  <2>5. CASE ~MayTransmit(t)
    BY <2>3, <2>5, DieStep
  <2> QED
    BY <2>4, <2>5
<1>8. CASE PpRead(e)
  <2>1. PICK size \in ChunkSizes :
          LET t == Made(e, Null, size) IN
          IF MayReceive(t) THEN StartReading(e, t, "pp_read")
          ELSE /\ inst' = [inst EXCEPT ![e] = Failed(t)]
               /\ Result(e, "0")
               /\ UNCHANGED <<conn, pc, io, sent>>
    BY <1>8 DEF PpRead
  <2> DEFINE t == Made(e, Null, size)
  <2>2. /\ t \in Instances
        /\ t.chunk_size > 0
        /\ t.chunk_size > 0 /\ ~t.error => t.chunk_size > Overhead
    <3>1. Null \in Messages \cup {Null}
      OBVIOUS
    <3> QED
      BY <1>1, <3>1, MadeIs
  <2>3. IF MayReceive(t) THEN StartReading(e, t, "pp_read")
        ELSE /\ inst' = [inst EXCEPT ![e] = Failed(t)]
             /\ Result(e, "0")
             /\ UNCHANGED <<conn, pc, io, sent>>
    BY <2>1
  <2> HIDE DEF t
  <2>4. CASE MayReceive(t)
    <3>1. t.chunk_size > 0 /\ ~t.error /\ t.chunk_size > Overhead
      BY <2>2, <2>4 DEF MayReceive
    <3>2. "pp_read" \in Reading
      BY DEF Reading
    <3> QED
      BY <1>2, <2>2, <2>3, <2>4, <3>1, <3>2, StartReadingStep
  <2>5. CASE ~MayReceive(t)
    <3> DEFINE u == Failed(t)
    <3>1. /\ u \in Instances /\ u.data = Null /\ u.error = TRUE
          /\ u.err_msg = "live"
      BY <2>2, FailedIs
    <3>2. /\ inst' = [inst EXCEPT ![e] = u]
          /\ result' = [result EXCEPT ![e] = "0"]
          /\ UNCHANGED <<conn, pc, io, sent>>
      BY <2>3, <2>5 DEF Result
    <3> HIDE DEF u
    <3> QED
      BY <1>2, <3>1, <3>2, QuietStep
  <2> QED
    BY <2>4, <2>5
<1> QED
  BY <1>3, <1>4, <1>5, <1>6, <1>7, <1>8

-----------------------------------------------------------------------------
(* The invariant.                                                          *)

LEMMA InvariantHolds == Spec => []IInv
<1>1. Init => IInv
  <2> SUFFICES ASSUME Init PROVE IInv
    OBVIOUS
  <2>1. Types
    BY NoneIs, EmptySeq DEF Init, Types, Steps, Ends
  <2>2. ASSUME NEW e \in Ends PROVE Sound(e) /\ Writes(e) /\ Receives(e)
    <3>1. /\ pc[e] = "idle" /\ inst[e] = NoInstance /\ got[e] = <<>>
          /\ taken[e] = 0 /\ from[e] = 0 /\ result[e] = "none"
          /\ sent[e] = <<>> /\ stream[e] = <<>> /\ stream[Other(e)] = <<>>
      BY TwoEnds DEF Init, Others
    <3>2. Len(<<>>) = 0
      OBVIOUS
    <3>3. Sound(e)
      BY <3>1, NoneIs DEF Sound, Sending, Reading
    <3>4. Writes(e)
      BY <3>1, <3>2 DEF Writes, Begins, Sending
    <3>5. Receives(e)
      BY <3>1, <3>2 DEF Receives, Returned, Reading, Sending
    <3> QED
      BY <3>3, <3>4, <3>5
  <2> QED
    BY <2>1, <2>2 DEF IInv
<1>2. IInv /\ [Next]_vars => IInv'
  <2> SUFFICES ASSUME IInv, [Next]_vars PROVE IInv'
    OBVIOUS
  <2>1. CASE UNCHANGED vars
    BY <2>1 DEF vars, io, IInv, Types, Sound, Writes, Receives
  <2>2. CASE Next
    <3>1. PICK e \in Ends :
            \/ InitTransmission(e) \/ CloseTransmission(e) \/ Transmit(e)
            \/ Receive(e) \/ PpSend(e) \/ PpRead(e) \/ Work(e) \/ Hangup(e)
      BY <2>2 DEF Next
    <3>2. StepOf(e)
      BY <3>1, CallStep, WriteStep, ReadStep, NothingStep, HangupStep DEF Work
    <3>3. ASSUME NEW d \in Ends PROVE Sound(d)' /\ Writes(d)' /\ Receives(d)'
      <4>1. CASE d = e
        BY <3>2, <4>1 DEF StepOf
      <4>2. CASE d # e
        BY <3>2, <4>2, OtherStays DEF StepOf
      <4> QED
        BY <4>1, <4>2
    <3> QED
      BY <3>2, <3>3 DEF IInv, StepOf
  <2> QED
    BY <2>1, <2>2
<1> QED
  BY <1>1, <1>2, PTL DEF Spec

(* The types, of the read part of the slots too: receive and pp_read have  *)
(* filled whole slots, and nobody has read more than has been written.     *)
THEOREM TypeCorrect == Spec => []TypeOK
<1>1. IInv => TypeOK
  <2> SUFFICES ASSUME IInv PROVE TypeOK
    OBVIOUS
  <2>1. ASSUME NEW e \in Ends
        PROVE  /\ inst[e].err_msg \in {"null", "live", "freed"}
               /\ inst[e].data \in Seq(Bytes) \cup {Null}
               /\ got[e] \in Seq(Bytes)
               /\ pc[e] \in {"receive", "pp_read"} =>
                    Len(got[e]) % inst[e].chunk_size = 0
               /\ taken[e] <= Len(stream[IF e = Near THEN Far ELSE Near])
    <3>1. inst[e] \in Instances /\ got[e] \in Seq(Bytes)
      BY DEF IInv, Types
    <3>2. Receives(e)
      BY DEF IInv
    <3> QED
      BY <3>1, <3>2, TwoEnds DEF Instances, Receives, Reading, Others
  <2> QED
    BY <2>1 DEF TypeOK, IInv, Types
<1> QED
  BY <1>1, InvariantHolds, PTL

(* After a call of transmit or receive that failed with an error,          *)
(* transmission_error has a message that close_transmission has not freed. *)
THEOREM Failures == Spec => []FailureHasMessage
<1>1. IInv => FailureHasMessage
  BY DEF IInv, Sound, FailureHasMessage
<1> QED
  BY <1>1, InvariantHolds, PTL

(* What transmit and pp_send have written when they return is each of      *)
(* their messages, whole, in order, in pieces, with nothing between them.  *)
THEOREM Transmitted == Spec => []StreamHoldsMessages
<1>1. IInv => StreamHoldsMessages
  <2> SUFFICES ASSUME IInv, NEW e \in Ends, pc[e] = "idle"
               PROVE  /\ Behind(e, 0) = 0
                      /\ \A k \in 1..Len(sent[e]) :
                           LET m == sent[e][k] IN
                           /\ Behind(e, k) = m.at + Written(m.data, m.size)
                           /\ \A i \in 0..(Len(m.data) \div m.size) :
                                LET start == m.at + i * (m.size + Overhead)
                                IN  SubSeq(stream[e], start + 1, start + m.size)
                                      = Piece(m.data, i * m.size, m.size)
    BY DEF StreamHoldsMessages
  <2>1. Writes(e) /\ Len(sent[e]) \in Nat
    BY LenProperties DEF IInv, Types
  <2>2. Behind(e, 0) = 0
    BY <2>1 DEF Behind, Writes, Begins
  <2>3. \A k \in 1..Len(sent[e]) : Complete(sent[e], stream[e], k)
    BY <2>1 DEF Writes
  <2> QED
    BY <2>2, <2>3 DEF Complete, InPlace, Behind
<1> QED
  BY <1>1, InvariantHolds, PTL

(* What receive returns begins with the first byte there was to read; and  *)
(* when every read has filled its slot, it is all that was read, less the  *)
(* padding at its end.                                                     *)
THEOREM Received == Spec => []ReceivedAsWritten
<1>1. IInv => ReceivedAsWritten
  <2> SUFFICES ASSUME IInv, NEW e \in Ends, pc[e] = "idle",
                      inst[e].read_used, got[e] # <<>>, inst[e].data # Null
               PROVE  LET d == inst[e].data
                          s == SubSeq(stream[Other(e)], from[e] + 1, taken[e])
                      IN  /\ Head(d) = Head(s)
                          /\ Len(s) = Len(got[e]) =>
                               /\ d = SubSeq(s, 1, Len(d))
                               /\ \A k \in (Len(d) + 1)..Len(s) : s[k] = Pad
    BY DEF ReceivedAsWritten
  <2> DEFINE o == stream[Other(e)]
             g == got[e]
             a == from[e]
             b == taken[e]
             d == inst[e].data
             s == SubSeq(o, a + 1, b)
  <2>1. /\ o \in Seq(Bytes) /\ g \in Seq(Bytes) /\ a \in Nat /\ b \in Nat
        /\ d \in Seq(Bytes)
    BY TwoEnds DEF IInv, Types, Others, Instances
  <2>2. a <= b /\ b <= Len(o) /\ Returned(inst[e], g, o, a, b)
    BY DEF IInv, Receives
  <2>3. /\ a < b
        /\ Len(d) \in 1..Len(g)
        /\ d[1] = o[a + 1]
        /\ b - a = Len(g) =>
             /\ \A j \in 1..Len(d) : d[j] = o[a + j]
             /\ \A j \in (Len(d) + 1)..Len(g) : o[a + j] = Pad
    BY <2>2 DEF Returned
  <2> HIDE DEF o, g, a, b, d
  <2>4. Len(o) \in Nat /\ Len(g) \in Nat /\ \A j \in (a + 1)..b : o[j] \in Bytes
    BY <2>1, <2>2, LenProperties, ElementOfSeq
  <2>5. /\ s \in Seq(Bytes)
        /\ Len(s) = b - a
        /\ \A i \in 1..(b - a) : s[i] = o[a + i]
    <3>1. a + 1 \in Int
      BY <2>1
    <3>2. /\ s \in Seq(Bytes)
          /\ Len(s) = IF a + 1 <= b THEN b - (a + 1) + 1 ELSE 0
          /\ \A i \in 1..(b - (a + 1) + 1) : s[i] = o[(a + 1) + i - 1]
      BY <2>1, <2>4, <3>1, SubSeqProperties
    <3> HIDE DEF s
    <3>3. Len(s) = b - a /\ b - (a + 1) + 1 = b - a
      BY <2>1, <2>3, <3>2
    <3>4. \A i \in 1..(b - a) : (a + 1) + i - 1 = a + i
      BY <2>1
    <3> QED
      BY <3>2, <3>3, <3>4
  <2> HIDE DEF s
  <2>6. Head(d) = Head(s)
    <3>1. Head(d) = d[1] /\ Head(s) = s[1]
      BY <2>1, <2>5
    <3>2. s[1] = o[a + 1]
      BY <2>1, <2>3, <2>5
    <3> QED
      BY <2>3, <3>1, <3>2
  <2>7. ASSUME Len(s) = Len(g)
        PROVE  /\ d = SubSeq(s, 1, Len(d))
               /\ \A k \in (Len(d) + 1)..Len(s) : s[k] = Pad
    <3>1. b - a = Len(g)
      BY <2>5, <2>7
    <3>2. \A j \in 1..Len(d) : j \in 1..Len(g)
      BY <2>3, <2>4
    <3>3. \A j \in (Len(d) + 1)..Len(g) : j \in 1..Len(g)
      BY <2>3, <2>4
    <3>4. \A j \in 1..Len(d) : s[j] = d[j] /\ s[j] \in Bytes
      BY <2>1, <2>3, <2>5, <3>1, <3>2, ElementOfSeq
    <3>5. \A k \in (Len(d) + 1)..Len(s) : s[k] = Pad
      BY <2>3, <2>5, <2>7, <3>1, <3>3
    <3>6. d = SubSeq(s, 1, Len(d))
      <4> DEFINE c == SubSeq(s, 1, Len(d))
      <4>1. Len(d) \in Nat /\ Len(d) >= 1
        BY <2>3, <2>4
      <4>2. /\ c \in Seq(Bytes)
            /\ Len(c) = IF 1 <= Len(d) THEN Len(d) - 1 + 1 ELSE 0
            /\ \A i \in 1..(Len(d) - 1 + 1) : c[i] = s[1 + i - 1]
        BY <3>4, <4>1, SubSeqProperties
      <4> HIDE DEF c
      <4>3. Len(c) = Len(d) /\ Len(d) - 1 + 1 = Len(d)
        BY <4>1, <4>2
      <4>4. \A i \in 1..Len(d) : 1 + i - 1 = i
        BY <4>1
      <4>5. \A i \in 1..Len(d) : c[i] = d[i]
        BY <3>4, <4>2, <4>3, <4>4
      <4>6. c = d
        BY <2>1, <4>2, <4>3, <4>5, SeqEqual
      <4> QED
        BY <4>6 DEF c
    <3> QED
      BY <3>5, <3>6
  <2> QED
    BY <2>6, <2>7 DEF s, d, o, a, b, g
<1> QED
  BY <1>1, InvariantHolds, PTL
=============================================================================
