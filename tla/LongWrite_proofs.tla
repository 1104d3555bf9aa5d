-------------------------- MODULE LongWrite_proofs --------------------------
(***************************************************************************)
(* What is handed over is what the phone wrote, for every size of the      *)
(* buffer and of the pieces and every sequence of writes through it.       *)
(*                                                                         *)
(* The buffer is described by the set of its pieces.  Where one ends the   *)
(* next begins, or the tail is reached; so a walk that starts at the first *)
(* piece is always at a piece or at the tail, where there is a zero.       *)
(***************************************************************************)
EXTENDS LongWrite, SequenceTheorems, TLAPS

\* A piece: where its header is, and which bytes of the value it has.
Pieces == [pos : Nat, off : Nat, n : 1 .. ByteSize - 1]

\* A field of 16 bits.
Field(low, high) == low + ByteSize * high

\* Memory mem holds piece p of the value s.
Holds(mem, s, p) ==
    /\ mem[p.pos] = Handle
    /\ Field(mem[p.pos + 2], mem[p.pos + 3]) = p.off
    /\ Field(mem[p.pos + 4], mem[p.pos + 5]) = p.n
    /\ \A b \in 0 .. p.n - 1 : mem[p.pos + 6 + b] = s[p.off + b + 1]

\* A piece with the given offset is at pos, or nothing is left there.
At(P, s, t, pos, off) ==
    \/ pos = t /\ off = Len(s)
    \/ \E p \in P : p.pos = pos /\ p.off = off

\* The pieces P are the value s, in mem before position t.
Chain(P, mem, s, t) ==
    /\ At(P, s, t, 0, 0)
    /\ \A p \in P :
        /\ p.off <= p.pos /\ p.pos + 6 + p.n <= t /\ p.off + p.n <= Len(s)
        /\ Chunk % 2 = 0 => p.pos % 2 = 0
        /\ Holds(mem, s, p)
        /\ At(P, s, t, p.pos + 6 + p.n, p.off + p.n)

\* What the assumptions say of the sizes, without the product of two of them.
LEMMA Sizes ==
    /\ SIZE_HEADER = 6 /\ MEM_OFFSET = 2 /\ MEM_LEN = 4
    /\ ByteSize \in Nat /\ Chunk \in 1 .. ByteSize - 1 /\ Handle \in 1 .. ByteSize - 1
    /\ SIZE_QUEUED \in Nat /\ Chunk + 8 <= SIZE_QUEUED
  <1> DEFINE most == ByteSize * ByteSize
  <1>1. most \in Nat
    BY SizeAssumption
  <1>2. SIZE_QUEUED \in SIZE_HEADER + Chunk + 2 .. most
    BY SizeAssumption
  <1> HIDE DEF most
  <1>3. SIZE_QUEUED \in Nat /\ Chunk + 8 <= SIZE_QUEUED
    BY <1>1, <1>2, LayoutAssumption, SizeAssumption
  <1> QED BY <1>3, LayoutAssumption, SizeAssumption

\* Offsets in the buffer fit a field, and its two bytes give them back.
Offsets == 0 .. SIZE_QUEUED - 1

\* An offset in the buffer is what its two bytes say.
LEMMA OffsetField ==
    ASSUME NEW o \in Offsets
    PROVE  /\ o % ByteSize \in Byte /\ o \div ByteSize \in Byte
           /\ Field(o % ByteSize, o \div ByteSize) = o
  <1> DEFINE q == o \div ByteSize
             r == o % ByteSize
  <1>1. ByteSize \in Nat \ {0} /\ o \in Nat
    BY Sizes DEF Offsets
  <1>2. o = r + (ByteSize * q) /\ q \in Nat /\ r \in 0 .. ByteSize - 1
    BY <1>1
  <1>3. o < ByteSize * ByteSize
    <2> DEFINE most == ByteSize * ByteSize
    <2>1. most \in Nat
      BY <1>1
    <2>2. SIZE_QUEUED \in SIZE_HEADER + Chunk + 2 .. most
      BY SizeAssumption
    <2> HIDE DEF most
    <2>3. o < most
      BY <1>1, <2>1, <2>2, Sizes DEF Offsets
    <2> QED BY <2>3 DEF most
  <1> HIDE DEF q, r
  <1>4. q < ByteSize
    <2>1. SUFFICES ASSUME q >= ByteSize PROVE FALSE
      BY <1>1, <1>2
    <2>2. ByteSize * q >= ByteSize * ByteSize
      BY <1>1, <1>2, <2>1
    <2>3. ByteSize * q \in Nat /\ ByteSize * ByteSize \in Nat
      BY <1>1, <1>2
    <2> QED BY <1>2, <1>3, <2>2, <2>3
  <1>5. q \in Byte /\ r \in Byte
    BY <1>1, <1>2, <1>4 DEF Byte
  <1> QED BY <1>2, <1>5 DEF Field, q, r

-----------------------------------------------------------------------------
(* What the SoftDevice writes.                                             *)

Layout(o, b) == Header(o, Len(b)) \o b \o <<0, 0>>

\* A sequence behind one of known length.
LEMMA Concat2 ==
    ASSUME NEW x \in Seq(Byte), NEW y \in Seq(Byte), NEW m \in Nat, Len(x) = m
    PROVE  /\ x \o y \in Seq(Byte) /\ Len(x \o y) = m + Len(y)
           /\ \A k \in 1 .. m : (x \o y)[k] = x[k]
           /\ \A k \in 1 .. Len(y) : (x \o y)[m + k] = y[k]
  <1> DEFINE c == x \o y
  <1>1. Len(x) \in Nat /\ Len(y) \in Nat
    BY LenProperties
  <1>2. /\ c \in Seq(Byte) /\ Len(c) = Len(x) + Len(y)
        /\ \A k \in 1 .. Len(x) + Len(y) : c[k] = IF k <= Len(x) THEN x[k] ELSE y[k - Len(x)]
    BY ConcatProperties
  <1> HIDE DEF c
  <1>3. \A k \in 1 .. Len(x) : c[k] = x[k]
    BY <1>1, <1>2
  <1>4. ASSUME NEW k \in 1 .. Len(y) PROVE c[Len(x) + k] = y[k]
    <2>1. Len(x) + k \in 1 .. Len(x) + Len(y) /\ ~(Len(x) + k <= Len(x)) /\ (Len(x) + k) - Len(x) = k
      BY <1>1
    <2> QED BY <1>2, <2>1
  <1> QED BY <1>2, <1>3, <1>4 DEF c

\* The bytes of a header, of the piece and of the zero behind it.
LEMMA LayoutFacts ==
    ASSUME NEW o \in Offsets, NEW b \in Seq(Byte), Len(b) \in 1 .. ByteSize - 1
    PROVE  /\ Layout(o, b) \in Seq(Byte) /\ Len(Layout(o, b)) = 8 + Len(b)
           /\ Layout(o, b)[1] = Handle
           /\ Field(Layout(o, b)[3], Layout(o, b)[4]) = o
           /\ Field(Layout(o, b)[5], Layout(o, b)[6]) = Len(b)
           /\ \A k \in 1 .. Len(b) : Layout(o, b)[6 + k] = b[k]
           /\ Layout(o, b)[7 + Len(b)] = 0
  <1> DEFINE h == Header(o, Len(b))
             z == <<0, 0>>
             l == Layout(o, b)
  <1>1. o % ByteSize \in Byte /\ o \div ByteSize \in Byte
    BY OffsetField
  <1>2. h \in Seq(Byte) /\ Len(h) = 6
    BY <1>1, Sizes DEF Header, Byte
  <1>3. h[1] = Handle /\ h[3] = o % ByteSize /\ h[4] = o \div ByteSize /\ h[5] = Len(b) /\ h[6] = 0
    BY DEF Header
  <1>4. z \in Seq(Byte) /\ Len(z) = 2 /\ z[1] = 0
    BY Sizes DEF Byte
  <1>5. l = (h \o b) \o z
    BY DEF Layout
  <1> HIDE DEF h, z, l
  <1>6. /\ h \o b \in Seq(Byte) /\ Len(h \o b) = 6 + Len(b)
        /\ \A k \in 1 .. 6 : (h \o b)[k] = h[k]
        /\ \A k \in 1 .. Len(b) : (h \o b)[6 + k] = b[k]
    <2>1. h \in Seq(Byte) /\ Len(h) = 6 /\ 6 \in Nat
      BY <1>2
    <2>2. /\ h \o b \in Seq(Byte) /\ Len(h \o b) = 6 + Len(b)
          /\ \A k \in 1 .. 6 : (h \o b)[k] = h[k]
      BY <2>1, Concat2
    <2>3. ASSUME NEW k \in 1 .. Len(b) PROVE (h \o b)[6 + k] = b[k]
      BY <2>1, Concat2
    <2> QED BY <2>2, <2>3
  <1> DEFINE d == h \o b
  <1> HIDE DEF d
  <1>7. /\ l \in Seq(Byte) /\ Len(l) = (6 + Len(b)) + 2
        /\ \A k \in 1 .. 6 + Len(b) : l[k] = d[k]
        /\ \A k \in 1 .. 2 : l[(6 + Len(b)) + k] = z[k]
    <2> DEFINE m == 6 + Len(b)
    <2>1. l = d \o z /\ d \in Seq(Byte) /\ Len(d) = m /\ m \in Nat
      BY <1>5, <1>6 DEF d
    <2> HIDE DEF m
    <2>2. /\ d \o z \in Seq(Byte) /\ Len(d \o z) = m + Len(z)
          /\ \A k \in 1 .. m : (d \o z)[k] = d[k]
      BY <1>4, <2>1, Concat2
    <2>3. \A k \in 1 .. Len(z) : (d \o z)[m + k] = z[k]
      BY <1>4, <2>1, Concat2
    <2>4. /\ l \in Seq(Byte) /\ Len(l) = m + 2
          /\ \A k \in 1 .. m : l[k] = d[k]
          /\ \A k \in 1 .. 2 : l[m + k] = z[k]
      BY <1>4, <2>1, <2>2, <2>3
    <2> QED BY <2>4 DEF m
  <1>8. \A k \in 1 .. 6 : l[k] = h[k]
    BY <1>6, <1>7 DEF d
  <1>9. ASSUME NEW k \in 1 .. Len(b) PROVE l[6 + k] = b[k]
    <2>1. 6 + k \in 1 .. 6 + Len(b)
      OBVIOUS
    <2>2. l[6 + k] = d[6 + k]
      BY <1>7, <2>1
    <2> QED BY <1>6, <2>2 DEF d
  <1>10. l[7 + Len(b)] = 0
    <2>1. 7 + Len(b) = (6 + Len(b)) + 1 /\ 1 \in 1 .. 2
      OBVIOUS
    <2>2. l[(6 + Len(b)) + 1] = z[1]
      BY <1>7
    <2> QED BY <1>4, <2>1, <2>2
  <1>11. Len(l) = 8 + Len(b)
    BY <1>7
  <1>12. l[1] = Handle
    BY <1>3, <1>8
  <1>13. Field(l[3], l[4]) = o
    <2>1. l[3] = o % ByteSize /\ l[4] = o \div ByteSize
      BY <1>3, <1>8
    <2> QED BY <2>1, OffsetField
  <1>14. Field(l[5], l[6]) = Len(b)
    <2>1. l[5] = Len(b) /\ l[6] = 0
      BY <1>3, <1>8
    <2> QED BY <2>1, Sizes DEF Field
  <1>15. l \in Seq(Byte)
    BY <1>7
  <1> QED BY <1>9, <1>10, <1>11, <1>12, <1>13, <1>14, <1>15 DEF l

\* A piece written at t changes nothing before t.
LEMMA WriteFacts ==
    ASSUME NEW mem \in [Position -> Byte], NEW o \in Offsets, NEW t \in Nat,
           NEW b \in Seq(Byte), Len(b) \in 1 .. ByteSize - 1,
           t + 6 + Len(b) + 2 <= SIZE_QUEUED
    PROVE  /\ Write(mem, t, Layout(o, b)) \in [Position -> Byte]
           /\ \A p \in 0 .. t - 1 : Write(mem, t, Layout(o, b))[p] = mem[p]
           /\ \A k \in 1 .. 8 + Len(b) :
                Write(mem, t, Layout(o, b))[t + k - 1] = Layout(o, b)[k]
  <1> DEFINE l == Layout(o, b)
  <1>1. l \in Seq(Byte) /\ Len(l) = 8 + Len(b)
    <2>1. Layout(o, b) \in Seq(Byte) /\ Len(Layout(o, b)) = 8 + Len(b)
      BY LayoutFacts
    <2> QED BY <2>1
  <1> HIDE DEF l
  <1>2. \A k \in 1 .. 8 + Len(b) : l[k] \in Byte
    BY <1>1
  <1>3. Write(mem, t, l) = [p \in Position |->
            IF p \in t .. t + Len(l) - 1 THEN l[p - t + 1] ELSE mem[p]]
    BY DEF Write
  <1>4. \A p \in Position : p \in t .. t + Len(l) - 1 => p - t + 1 \in 1 .. 8 + Len(b)
    BY <1>1 DEF Position
  <1>5. Write(mem, t, l) \in [Position -> Byte]
    <2>1. \A p \in Position :
            (IF p \in t .. t + Len(l) - 1 THEN l[p - t + 1] ELSE mem[p]) \in Byte
      BY <1>2, <1>4
    <2> QED BY <1>3, <2>1
  <1>6. \A p \in 0 .. t - 1 : p \in Position /\ p \notin t .. t + Len(l) - 1
    BY <1>1, Sizes DEF Position
  <1>7. \A k \in 1 .. 8 + Len(b) :
            /\ t + k - 1 \in Position /\ t + k - 1 \in t .. t + Len(l) - 1
            /\ (t + k - 1) - t + 1 = k
    BY <1>1, Sizes DEF Position
  <1>8. \A p \in 0 .. t - 1 : Write(mem, t, l)[p] = mem[p]
    BY <1>3, <1>6
  <1>9. \A k \in 1 .. 8 + Len(b) : Write(mem, t, l)[t + k - 1] = l[k]
    BY <1>3, <1>7
  <1> QED BY <1>5, <1>8, <1>9 DEF l

-----------------------------------------------------------------------------
(* A piece put behind the others.                                          *)

\* A piece of the buffer stays what it is when the bytes from t on change and
\* the value grows.
LEMMA HoldsOn ==
    ASSUME NEW mem, NEW mem2, NEW s \in Seq(Byte), NEW b \in Seq(Byte),
           NEW t \in Nat, NEW p \in Pieces,
           \A q \in 0 .. t - 1 : mem2[q] = mem[q],
           p.pos + 6 + p.n <= t, p.off + p.n <= Len(s), Holds(mem, s, p)
    PROVE  Holds(mem2, s \o b, p)
  <1> DEFINE u == p.pos
             o == p.off
             n == p.n
  <1>1. u \in Nat /\ o \in Nat /\ n \in Nat /\ n > 0 /\ Len(s) \in Nat
    BY Sizes, LenProperties DEF Pieces
  <1>2. u + 6 + n <= t /\ o + n <= Len(s)
    OBVIOUS
  <1>3. /\ mem[u] = Handle /\ Field(mem[u + 2], mem[u + 3]) = o
        /\ Field(mem[u + 4], mem[u + 5]) = n
        /\ \A k \in 0 .. n - 1 : mem[u + 6 + k] = s[o + k + 1]
    BY DEF Holds
  <1> HIDE DEF u, o, n
  <1>4. /\ mem2[u] = mem[u]
        /\ mem2[u + 2] = mem[u + 2] /\ mem2[u + 3] = mem[u + 3]
        /\ mem2[u + 4] = mem[u + 4] /\ mem2[u + 5] = mem[u + 5]
    <2>1. /\ u \in 0 .. t - 1 /\ u + 2 \in 0 .. t - 1 /\ u + 3 \in 0 .. t - 1
          /\ u + 4 \in 0 .. t - 1 /\ u + 5 \in 0 .. t - 1
      BY <1>1, <1>2
    <2> QED BY <2>1
  <1>5. ASSUME NEW k \in 0 .. n - 1
        PROVE  mem2[u + 6 + k] = (s \o b)[o + k + 1]
    <2>1. u + 6 + k \in 0 .. t - 1 /\ o + k + 1 \in 1 .. Len(s)
      BY <1>1, <1>2
    <2>2. mem2[u + 6 + k] = mem[u + 6 + k]
      BY <2>1
    <2>3. mem[u + 6 + k] = s[o + k + 1]
      BY <1>3
    <2>4. (s \o b)[o + k + 1] = s[o + k + 1]
      BY <1>1, <2>1, Concat2
    <2> QED BY <2>2, <2>3, <2>4
  <1>6. /\ mem2[u] = Handle /\ Field(mem2[u + 2], mem2[u + 3]) = o
        /\ Field(mem2[u + 4], mem2[u + 5]) = n
    BY <1>3, <1>4
  <1> QED BY <1>5, <1>6 DEF Holds, u, o, n

Added(P, s, t, b) == P \cup {[pos |-> t, off |-> Len(s), n |-> Len(b)]}
Written(mem, s, t, b) == Write(mem, t, Layout(Len(s), b))

\* A piece queued at the tail makes a longer chain.
LEMMA QueueChain ==
    ASSUME NEW P \in SUBSET Pieces, NEW mem \in [Position -> Byte],
           NEW s \in Seq(Byte), NEW t \in Nat, NEW b \in Seq(Byte),
           Len(b) \in 1 .. ByteSize - 1, t + 6 + Len(b) + 2 <= SIZE_QUEUED,
           Len(s) <= t, Chain(P, mem, s, t), Chunk % 2 = 0 => t % 2 = 0
    PROVE  /\ Written(mem, s, t, b) \in [Position -> Byte] /\ s \o b \in Seq(Byte)
           /\ t + 6 + Len(b) \in Position /\ Len(s \o b) <= t + 6 + Len(b)
           /\ Written(mem, s, t, b)[t + 6 + Len(b)] = 0
           /\ Added(P, s, t, b) \in SUBSET Pieces
           /\ Chain(Added(P, s, t, b), Written(mem, s, t, b), s \o b, t + 6 + Len(b))
  <1> DEFINE mem2 == Written(mem, s, t, b)
             s2 == s \o b
             t2 == t + 6 + Len(b)
             l == Layout(Len(s), b)
             new == [pos |-> t, off |-> Len(s), n |-> Len(b)]
             P2 == Added(P, s, t, b)
  <1>1. Len(s) \in Nat /\ Len(b) \in Nat /\ ByteSize \in Nat /\ SIZE_QUEUED \in Nat
    BY Sizes, LenProperties
  <1>2. Len(s) \in Offsets
    BY <1>1 DEF Offsets
  <1>3. /\ s2 \in Seq(Byte) /\ Len(s2) = Len(s) + Len(b)
        /\ \A k \in 1 .. Len(b) : s2[Len(s) + k] = b[k]
    BY <1>1, Concat2
  <1>4. /\ mem2 \in [Position -> Byte]
        /\ \A q \in 0 .. t - 1 : mem2[q] = mem[q]
        /\ \A k \in 1 .. 8 + Len(b) : mem2[t + k - 1] = l[k]
    BY <1>2, WriteFacts DEF Written
  <1>5. /\ l[1] = Handle /\ Field(l[3], l[4]) = Len(s) /\ Field(l[5], l[6]) = Len(b)
        /\ \A k \in 1 .. Len(b) : l[6 + k] = b[k]
        /\ l[7 + Len(b)] = 0
    BY <1>2, LayoutFacts
  <1>6. t2 \in Position /\ Len(s2) <= t2
    BY <1>1, <1>3 DEF Position
  <1> HIDE DEF mem2, s2, l
  <1>7. mem2[t2] = 0
    <2>1. 7 + Len(b) \in 1 .. 8 + Len(b) /\ t + (7 + Len(b)) - 1 = t2
      BY <1>1
    <2> HIDE DEF t2
    <2> QED BY <1>4, <1>5, <2>1
  <1>8. new \in Pieces
    BY <1>1 DEF Pieces
  <1>9. Holds(mem2, s2, new)
    <2>1. /\ mem2[t] = Handle
          /\ mem2[t + 2] = l[3] /\ mem2[t + 3] = l[4]
          /\ mem2[t + 4] = l[5] /\ mem2[t + 5] = l[6]
      <3>1. /\ 1 \in 1 .. 8 + Len(b) /\ 3 \in 1 .. 8 + Len(b) /\ 4 \in 1 .. 8 + Len(b)
            /\ 5 \in 1 .. 8 + Len(b) /\ 6 \in 1 .. 8 + Len(b)
            /\ t + 1 - 1 = t /\ t + 3 - 1 = t + 2 /\ t + 4 - 1 = t + 3
            /\ t + 5 - 1 = t + 4 /\ t + 6 - 1 = t + 5
        BY <1>1
      <3> QED BY <1>4, <1>5, <3>1
    <2>2. ASSUME NEW k \in 0 .. Len(b) - 1
          PROVE  mem2[t + 6 + k] = s2[Len(s) + k + 1]
      <3>1. /\ 7 + k \in 1 .. 8 + Len(b) /\ t + (7 + k) - 1 = t + 6 + k
            /\ k + 1 \in 1 .. Len(b) /\ 6 + (k + 1) = 7 + k
            /\ Len(s) + k + 1 = Len(s) + (k + 1)
        BY <1>1
      <3>2. mem2[t + 6 + k] = l[7 + k]
        BY <1>4, <3>1
      <3>3. l[7 + k] = b[k + 1]
        BY <1>5, <3>1
      <3>4. s2[Len(s) + k + 1] = b[k + 1]
        BY <1>3, <3>1
      <3> QED BY <3>2, <3>3, <3>4
    <2>3. Field(mem2[t + 2], mem2[t + 3]) = Len(s) /\ Field(mem2[t + 4], mem2[t + 5]) = Len(b)
      BY <1>5, <2>1
    <2> QED BY <2>1, <2>2, <2>3 DEF Holds
  <1>10. ASSUME NEW pos, NEW off, At(P, s, t, pos, off) PROVE At(P2, s2, t2, pos, off)
    <2>1. CASE pos = t /\ off = Len(s)
      <3>1. new \in P2 /\ new.pos = pos /\ new.off = off
        BY <2>1 DEF Added
      <3> QED BY <3>1 DEF At
    <2>2. CASE \E p \in P : p.pos = pos /\ p.off = off
      <3>1. PICK p \in P : p.pos = pos /\ p.off = off
        BY <2>2
      <3>2. p \in P2
        BY DEF Added
      <3> QED BY <3>1, <3>2 DEF At
    <2> QED BY <1>10, <2>1, <2>2 DEF At
  <1>11. At(P2, s2, t2, 0, 0)
    BY <1>10 DEF Chain
  <1>12. ASSUME NEW p \in P2
         PROVE  /\ p.off <= p.pos /\ p.pos + 6 + p.n <= t2 /\ p.off + p.n <= Len(s2)
                /\ Chunk % 2 = 0 => p.pos % 2 = 0
                /\ Holds(mem2, s2, p)
                /\ At(P2, s2, t2, p.pos + 6 + p.n, p.off + p.n)
    <2>1. CASE p \in P
      <3>1. /\ p \in Pieces /\ p.off <= p.pos /\ p.pos + 6 + p.n <= t
            /\ p.off + p.n <= Len(s) /\ (Chunk % 2 = 0 => p.pos % 2 = 0)
            /\ Holds(mem, s, p) /\ At(P, s, t, p.pos + 6 + p.n, p.off + p.n)
        BY <2>1 DEF Chain
      <3>2. p.pos + 6 + p.n \in Int /\ p.off + p.n \in Int
        BY <1>1, <3>1 DEF Pieces
      <3>3. p.pos + 6 + p.n <= t2 /\ p.off + p.n <= Len(s2)
        <4> DEFINE end == p.pos + 6 + p.n
                   last == p.off + p.n
        <4>1. end \in Int /\ last \in Int /\ end <= t /\ last <= Len(s)
          BY <3>1, <3>2
        <4> HIDE DEF end, last
        <4>2. end <= t2 /\ last <= Len(s2)
          BY <1>1, <1>3, <4>1
        <4> QED BY <4>2 DEF end, last
      <3>4. Holds(mem2, s2, p)
        <4>1. p.pos + 6 + p.n <= t /\ p.off + p.n <= Len(s) /\ p \in Pieces
          BY <3>1
        <4>2. \A q \in 0 .. t - 1 : mem2[q] = mem[q]
          BY <1>4
        <4>3. Holds(mem2, s \o b, p)
          BY <3>1, <4>1, <4>2, HoldsOn
        <4> QED BY <4>3 DEF s2
      <3>5. At(P2, s2, t2, p.pos + 6 + p.n, p.off + p.n)
        BY <1>10, <3>1
      <3> QED BY <3>1, <3>3, <3>4, <3>5
    <2>2. CASE p = new
      <3>1. p.pos = t /\ p.off = Len(s) /\ p.n = Len(b)
        BY <2>2
      <3>2. p.pos + 6 + p.n = t2 /\ p.off + p.n = Len(s2)
        BY <1>3, <3>1
      <3>3. p.off <= p.pos /\ p.pos + 6 + p.n <= t2 /\ p.off + p.n <= Len(s2)
        BY <1>1, <1>3, <3>1
      <3>4. Holds(mem2, s2, p)
        BY <1>9, <2>2
      <3>5. At(P2, s2, t2, p.pos + 6 + p.n, p.off + p.n)
        BY <3>2 DEF At
      <3>6. Chunk % 2 = 0 => p.pos % 2 = 0
        BY <3>1
      <3> QED BY <3>3, <3>4, <3>5, <3>6
    <2> QED BY <2>1, <2>2 DEF Added
  <1>13. Chain(P2, mem2, s2, t2)
    BY <1>11, <1>12 DEF Chain
  <1>14. P2 \in SUBSET Pieces
    BY <1>8 DEF Added
  <1> QED BY <1>3, <1>4, <1>6, <1>7, <1>13, <1>14 DEF mem2, s2

-----------------------------------------------------------------------------
(* Who has the buffer.                                                     *)

\* No event about the buffer waits; none waits that asks for it; one does, and
\* no event about the buffer is behind it.
Quiet(q) == \A k \in 1 .. Len(q) : q[k] \notin MemEvents
NotAsked(q) == \A k \in 1 .. Len(q) : q[k] # "request"
Asked(q) ==
    \E k \in 1 .. Len(q) :
        /\ q[k] = "request"
        /\ \A j \in 1 .. Len(q) : j < k => q[j] # "request"
        /\ \A j \in 1 .. Len(q) : j > k => q[j] \notin MemEvents

\* What an event put behind the others changes.
LEMMA Appended ==
    ASSUME NEW q \in Seq(Events), NEW e \in Events
    PROVE  /\ Append(q, e) \in Seq(Events)
           /\ NotAsked(q) /\ e # "request" => NotAsked(Append(q, e))
           /\ NotAsked(q) /\ e = "request" => Asked(Append(q, e))
  <1> DEFINE r == Append(q, e)
  <1>1. /\ r \in Seq(Events) /\ Len(r) = Len(q) + 1 /\ Len(q) \in Nat
        /\ \A k \in 1 .. Len(q) : r[k] = q[k]
        /\ r[Len(q) + 1] = e
    BY AppendProperties, LenProperties
  <1> HIDE DEF r
  <1>2. ASSUME NotAsked(q), e # "request" PROVE NotAsked(r)
    <2>1. \A k \in 1 .. Len(r) : k \in 1 .. Len(q) \/ k = Len(q) + 1
      BY <1>1
    <2> QED BY <1>1, <1>2, <2>1 DEF NotAsked
  <1>3. ASSUME NotAsked(q), e = "request" PROVE Asked(r)
    <2>1. Len(q) + 1 \in 1 .. Len(r)
      BY <1>1
    <2>2. \A j \in 1 .. Len(r) : j < Len(q) + 1 => r[j] # "request"
      BY <1>1, <1>3 DEF NotAsked
    <2>3. \A j \in 1 .. Len(r) : ~(j > Len(q) + 1)
      BY <1>1
    <2> QED BY <1>1, <1>3, <2>1, <2>2, <2>3 DEF Asked
  <1> QED BY <1>1, <1>2, <1>3 DEF r

\* What taking the first event leaves.
LEMMA Taken ==
    ASSUME NEW q \in Seq(Events), q # <<>>
    PROVE  /\ Tail(q) \in Seq(Events)
           /\ Quiet(q) => Quiet(Tail(q))
           /\ NotAsked(q) => NotAsked(Tail(q))
           /\ Asked(q) /\ Head(q) = "request" => Quiet(Tail(q))
           /\ Asked(q) /\ Head(q) # "request" => Asked(Tail(q))
           /\ Quiet(q) => Head(q) \notin MemEvents
  <1> DEFINE r == Tail(q)
  <1>1. /\ r \in Seq(Events) /\ Len(r) = Len(q) - 1 /\ Len(q) \in Nat \ {0}
        /\ \A k \in 1 .. Len(r) : r[k] = q[k + 1]
        /\ Head(q) = q[1]
    BY HeadTailProperties, EmptySeq, LenProperties
  <1> HIDE DEF r
  <1>2. \A k \in 1 .. Len(r) : k + 1 \in 1 .. Len(q) /\ r[k] = q[k + 1]
    BY <1>1
  <1>3. 1 \in 1 .. Len(q)
    BY <1>1
  <1>4. ASSUME Quiet(q) PROVE Quiet(r) /\ Head(q) \notin MemEvents
    BY <1>1, <1>2, <1>3, <1>4 DEF Quiet
  <1>5. ASSUME NotAsked(q) PROVE NotAsked(r)
    BY <1>2, <1>5 DEF NotAsked
  <1>6. ASSUME Asked(q) PROVE IF Head(q) = "request" THEN Quiet(r) ELSE Asked(r)
    <2>1. PICK k \in 1 .. Len(q) :
            /\ q[k] = "request"
            /\ \A j \in 1 .. Len(q) : j < k => q[j] # "request"
            /\ \A j \in 1 .. Len(q) : j > k => q[j] \notin MemEvents
      BY <1>6 DEF Asked
    <2>2. CASE Head(q) = "request"
      <3>1. k = 1
        BY <1>1, <1>3, <2>1, <2>2
      <3>2. \A j \in 1 .. Len(r) : j + 1 > k
        BY <1>1, <3>1
      <3>3. Quiet(r)
        BY <1>2, <2>1, <3>2 DEF Quiet
      <3> QED BY <2>2, <3>3
    <2>3. CASE Head(q) # "request"
      <3>1. k # 1
        BY <1>1, <2>1, <2>3
      <3>2. k - 1 \in 1 .. Len(r) /\ (k - 1) + 1 = k
        BY <1>1, <3>1
      <3>3. r[k - 1] = "request"
        BY <1>2, <2>1, <3>2
      <3>4. \A j \in 1 .. Len(r) :
                /\ j < k - 1 => r[j] # "request"
                /\ j > k - 1 => r[j] \notin MemEvents
        <4> TAKE j \in 1 .. Len(r)
        <4>1. j + 1 \in 1 .. Len(q) /\ r[j] = q[j + 1]
          BY <1>2
        <4>2. (j < k - 1 => j + 1 < k) /\ (j > k - 1 => j + 1 > k)
          BY <1>1
        <4> QED BY <2>1, <4>1, <4>2
      <3>5. Asked(r)
        BY <3>2, <3>3, <3>4 DEF Asked
      <3> QED BY <2>3, <3>5
    <2> QED BY <2>2, <2>3
  <1> QED BY <1>1, <1>4, <1>5, <1>6 DEF r

\* The SoftDevice writes into the buffer only while the program neither reads
\* it nor has an event to handle that makes it read it.
LendInv ==
    /\ owner # "none" => link /\ value \in Values
    /\ owner = "given" => pc = "idle" /\ Quiet(evq)
    /\ owner = "requested" => Asked(evq)
    /\ owner = "none" /\ link => NotAsked(evq)

\* The variables LendInv is about.
LendType ==
    /\ owner \in {"none", "requested", "given"} /\ evq \in Seq(Events)
    /\ value \in Values \cup {<<>>}

\* An event is taken.
LEMMA TakenLend ==
    ASSUME LendType, LendInv, NEW e \in Events, Takes(e), UNCHANGED <<link, value>>,
           e = "request" => UNCHANGED pc,
           \/ e # "request" /\ UNCHANGED owner /\ (e = "disconnected" => UNCHANGED pc)
           \/ e = "request" /\ owner = "requested" /\ link /\ owner' = "given"
           \/ e = "request" /\ ~(owner = "requested" /\ link) /\ UNCHANGED owner
    PROVE  LendInv'
  <1> USE DEF LendType
  <1>1. /\ evq # <<>> /\ Head(evq) = e /\ evq' = Tail(evq) /\ pc = "idle"
    BY DEF Takes, Idle
  <1>2. /\ Quiet(evq) => Quiet(evq')
        /\ NotAsked(evq) => NotAsked(evq')
        /\ Asked(evq) /\ e = "request" => Quiet(evq')
        /\ Asked(evq) /\ e # "request" => Asked(evq')
        /\ Quiet(evq) => e \notin MemEvents
    BY <1>1, Taken
  <1>3. CASE e = "request"
    <2>1. owner # "given"
      BY <1>2, <1>3 DEF LendInv, MemEvents
    <2>2. CASE owner = "requested"
      BY <1>1, <1>2, <1>3, <2>2 DEF LendInv
    <2>3. CASE owner = "none"
      BY <1>1, <1>2, <1>3, <2>3 DEF LendInv
    <2> QED BY <2>1, <2>2, <2>3
  <1>4. CASE e = "release"
    <2>1. owner # "given" /\ UNCHANGED owner
      BY <1>2, <1>4 DEF LendInv, MemEvents
    <2> QED BY <1>1, <1>2, <1>4, <2>1 DEF LendInv
  <1>5. CASE e = "disconnected"
    BY <1>1, <1>2, <1>5 DEF LendInv
  <1> QED BY <1>3, <1>4, <1>5 DEF Events, MemEvents

\* Every step keeps the order of the lending.
LEMMA StepLend == LendType /\ LendInv /\ [Next]_vars => LendInv'
  <1> SUFFICES ASSUME LendType, LendInv, [Next]_vars PROVE LendInv'
    OBVIOUS
  <1>1. CASE PeerConnects
    <2>1. NotAsked(evq)
      BY <1>1 DEF PeerConnects, NotAsked
    <2> QED BY <1>1, <2>1 DEF PeerConnects, LendInv
  <1>2. CASE PhoneBegins
    <2>1. Asked(evq')
      BY <1>2, Appended DEF PhoneBegins, LendInv, LendType, Events, MemEvents
    <2> QED BY <1>2, <2>1 DEF PhoneBegins, LendInv
  <1>3. CASE PhonePrepares
    BY <1>3 DEF PhonePrepares, peer, LendInv
  <1>4. CASE PhoneEnds
    <2>1. NotAsked(evq)
      BY <1>4 DEF PhoneEnds, LendInv, Quiet, NotAsked, MemEvents
    <2>2. NotAsked(evq')
      BY <1>4, <2>1, Appended DEF PhoneEnds, LendType, Events, MemEvents
    <2> QED BY <1>4, <2>2 DEF PhoneEnds, LendInv
  <1>5. CASE LinkLost
    BY <1>5 DEF LinkLost, LendInv
  <1>6. CASE DispatchRequest
    BY <1>6, TakenLend DEF DispatchRequest, Reply, Events, MemEvents
  <1>7. CASE DispatchRelease
    BY <1>7, TakenLend DEF DispatchRelease, Events, MemEvents
  <1>8. CASE DispatchDisconnected
    BY <1>8, TakenLend DEF DispatchDisconnected, Events, MemEvents
  <1>9. CASE HandlerStep
    <2>1. UNCHANGED peer /\ pc # "idle"
      BY <1>9 DEF HandlerStep, Walk, WalkEnds, Return
    <2> QED BY <2>1 DEF peer, LendInv
  <1>10. CASE UNCHANGED vars
    BY <1>10 DEF vars, peer, LendInv
  <1> QED BY <1>1, <1>2, <1>3, <1>4, <1>5, <1>6, <1>7, <1>8, <1>9, <1>10
          DEF Next, Environment, Dispatch

-----------------------------------------------------------------------------
(* What is in the buffer, and what has been copied out of it.              *)

BufferInv ==
    /\ Len(sent) <= tail /\ m_queued[tail] = 0
    /\ \E P \in SUBSET Pieces :
        /\ Chain(P, m_queued, sent, tail)
        /\ pc = "walk" => At(P, sent, tail, i, len)

\* A piece that is not full is the last.
EvenInv ==
    owner = "given" /\ Len(sent) < Len(value) /\ Chunk % 2 = 0 => tail % 2 = 0

DataInv ==
    /\ pc = "walk" => \A k \in 0 .. len - 1 : data[k] = sent[k + 1]
    /\ HandedIsWritten

\* TypeOK without its Boolean.
TypeRest ==
    /\ LendType
    /\ sent \in Seq(Byte) /\ tail \in Position
    /\ m_queued \in [Position -> Byte]
    /\ pc \in {"idle", "walk", "data_handler"}
    /\ i \in Position /\ data \in [Position -> Byte] /\ len \in Position

Inv == TypeRest /\ LendInv /\ BufferInv /\ EvenInv /\ DataInv

\* TypeOK and its parts.
LEMMA TypeParts == TypeOK <=> TypeRest /\ link \in BOOLEAN
  BY DEF TypeOK, TypeRest, LendType

LinkType == link \in BOOLEAN

\* Every step keeps the type of the link.
LEMMA StepLink == LinkType /\ [Next]_vars => LinkType'
  BY DEF LinkType, Next, Environment, Dispatch, HandlerStep, PeerConnects, PhoneBegins,
         PhonePrepares, PhoneEnds, LinkLost, DispatchRequest, DispatchRelease,
         DispatchDisconnected, Walk, WalkEnds, Return, peer, vars

\* Positions are numbers.
LEMMA PositionFacts ==
    /\ 0 \in Position
    /\ \A p \in Position : p \in Nat /\ p < SIZE_QUEUED
    /\ \A p \in Nat : p < SIZE_QUEUED => p \in Position
    /\ 0 \in Byte
  BY Sizes DEF Position, Byte

\* A piece of a value is a value of at most Chunk bytes.
LEMMA PieceFacts ==
    ASSUME NEW v \in Seq(Byte), v # <<>>
    PROVE  /\ Piece(v) \in Seq(Byte) /\ Len(Piece(v)) \in 1 .. Chunk
           /\ Len(Piece(v)) = IF Len(v) < Chunk THEN Len(v) ELSE Chunk
  <1> DEFINE m == IF Len(v) < Chunk THEN Len(v) ELSE Chunk
  <1>1. Len(v) \in Nat \ {0}
    BY EmptySeq
  <1>2. m \in 1 .. Chunk /\ m <= Len(v) /\ m \in Int /\ 1 <= m
    BY <1>1, Sizes
  <1>3. Piece(v) = SubSeq(v, 1, m)
    BY DEF Piece
  <1> HIDE DEF m
  <1>4. \A k \in 1 .. m : v[k] \in Byte
    BY <1>1, <1>2
  <1>5. SubSeq(v, 1, m) \in Seq(Byte) /\ Len(SubSeq(v, 1, m)) = m - 1 + 1
    BY <1>2, <1>4, SubSeqProperties
  <1>6. m - 1 + 1 = m
    BY <1>2
  <1> QED BY <1>2, <1>3, <1>5, <1>6 DEF m

\* What is left of a value that is written is a value.
LEMMA RestFacts ==
    ASSUME value \in Seq(Byte), sent \in Seq(Byte), Rest # <<>>
    PROVE  /\ Rest \in Seq(Byte) /\ Len(sent) < Len(value)
           /\ Len(Rest) = Len(value) - Len(sent)
  <1> DEFINE m == Len(sent) + 1
             n == Len(value)
  <1>1. m \in Nat \ {0} /\ n \in Nat
    BY LenProperties
  <1>2. m <= n
    <2>1. n < m => Rest = <<>>
      BY <1>1, SubSeqEmpty DEF Rest
    <2> QED BY <1>1, <2>1
  <1>3. \A k \in m .. n : value[k] \in Byte
    BY <1>1
  <1>4. Rest = SubSeq(value, m, n)
    BY DEF Rest
  <1> HIDE DEF m, n
  <1>5. Rest \in Seq(Byte) /\ Len(Rest) = n - m + 1
    BY <1>1, <1>2, <1>3, <1>4, SubSeqProperties
  <1> QED BY <1>1, <1>2, <1>5, LenProperties DEF m, n

\* The SoftDevice queues a piece.
LEMMA QueueStep ==
    ASSUME NEW P \in SUBSET Pieces, m_queued \in [Position -> Byte],
           NEW s \in Seq(Byte), NEW t \in Nat, NEW b \in Seq(Byte),
           Len(b) \in 1 .. Chunk, t + 6 + Len(b) + 2 <= SIZE_QUEUED,
           Len(s) <= t, Chain(P, m_queued, s, t), Chunk % 2 = 0 => t % 2 = 0,
           Queue(s, t, b), pc' # "walk"
    PROVE  /\ sent' \in Seq(Byte) /\ tail' \in Position
           /\ m_queued' \in [Position -> Byte]
           /\ BufferInv'
           /\ sent' = s \o b /\ tail' = t + 6 + Len(b)
  <1>1. /\ sent' = s \o b /\ tail' = t + 6 + Len(b)
        /\ m_queued' = Written(m_queued, s, t, b)
    BY Sizes DEF Queue, Written, Layout
  <1>2. Len(b) \in 1 .. ByteSize - 1
    BY Sizes
  <1>3. /\ Written(m_queued, s, t, b) \in [Position -> Byte] /\ s \o b \in Seq(Byte)
        /\ t + 6 + Len(b) \in Position /\ Len(s \o b) <= t + 6 + Len(b)
        /\ Written(m_queued, s, t, b)[t + 6 + Len(b)] = 0
        /\ Added(P, s, t, b) \in SUBSET Pieces
        /\ Chain(Added(P, s, t, b), Written(m_queued, s, t, b), s \o b, t + 6 + Len(b))
    BY <1>2, QueueChain
  <1>4. \E P2 \in SUBSET Pieces : Chain(P2, m_queued', sent', tail')
    BY <1>1, <1>3
  <1> QED BY <1>1, <1>3, <1>4 DEF BufferInv

\* The buffer is lent, and the first piece put into it.
LEMMA StepReply ==
    ASSUME Inv, DispatchRequest
    PROVE  TypeRest' /\ BufferInv' /\ EvenInv' /\ DataInv'
  <1>1. /\ UNCHANGED <<link, value, pc, locals>> /\ evq' = Tail(evq) /\ evq # <<>>
        /\ pc = "idle"
    BY DEF DispatchRequest, Takes, Idle
  <1>2. evq' \in Seq(Events)
    BY <1>1, Taken DEF Inv, TypeRest, LendType
  <1>3. CASE owner = "requested" /\ link
    <2>1. owner' = "given" /\ Queue(<<>>, 0, Piece(value))
      BY <1>3 DEF DispatchRequest, Reply
    <2>2. value \in Seq(Byte) /\ value # <<>>
      BY <1>3, ValueAssumption DEF Inv, LendInv
    <2> DEFINE b == Piece(value)
    <2>3. /\ b \in Seq(Byte) /\ Len(b) \in 1 .. Chunk
          /\ Len(b) = IF Len(value) < Chunk THEN Len(value) ELSE Chunk
      BY <2>2, PieceFacts
    <2> HIDE DEF b
    <2>4. 0 + 6 + Len(b) + 2 <= SIZE_QUEUED
      BY <2>3, Sizes
    <2>5. <<>> \in Seq(Byte) /\ Len(<<>>) = 0
      BY EmptySeq
    <2>6. Chain({}, m_queued, <<>>, 0)
      BY <2>5 DEF Chain, At
    <2>7. m_queued \in [Position -> Byte] /\ {} \in SUBSET Pieces
      BY DEF Inv, TypeRest
    <2>8. pc' # "walk" /\ Queue(<<>>, 0, b) /\ 0 % 2 = 0 /\ 0 \in Nat /\ Len(<<>>) <= 0
      BY <1>1, <2>1, <2>5 DEF b
    <2>9. /\ sent' \in Seq(Byte) /\ tail' \in Position
          /\ m_queued' \in [Position -> Byte] /\ BufferInv'
          /\ sent' = <<>> \o b /\ tail' = 0 + 6 + Len(b)
      BY <2>3, <2>4, <2>5, <2>6, <2>7, <2>8, QueueStep
    <2>10. sent' = b /\ tail' = 6 + Len(b)
      BY <2>3, <2>9, ConcatEmptySeq
    <2>11. EvenInv'
      <3>1. SUFFICES ASSUME Len(b) < Len(value), Chunk % 2 = 0 PROVE (6 + Len(b)) % 2 = 0
        BY <1>1, <2>10 DEF EvenInv
      <3>2. Len(b) = Chunk
        BY <2>2, <2>3, <3>1, Sizes, LenProperties
      <3> QED BY <3>1, <3>2, Sizes
    <2>12. TypeRest'
      BY <1>1, <1>2, <2>1, <2>9 DEF Inv, TypeRest, LendType, locals
    <2>13. DataInv'
      BY <1>1 DEF DataInv, HandedIsWritten
    <2> QED BY <2>9, <2>11, <2>12, <2>13
  <1>4. CASE ~(owner = "requested" /\ link)
    <2>1. UNCHANGED <<owner, buffer>>
      BY <1>4 DEF DispatchRequest, Reply
    <2>2. TypeRest'
      BY <1>1, <1>2, <2>1 DEF Inv, TypeRest, LendType, locals, buffer
    <2>3. BufferInv' /\ EvenInv' /\ DataInv'
      BY <1>1, <2>1 DEF Inv, BufferInv, EvenInv, DataInv, HandedIsWritten, locals, buffer
    <2> QED BY <2>2, <2>3
  <1> QED BY <1>3, <1>4

\* A further piece.
LEMMA StepPrepares ==
    ASSUME Inv, PhonePrepares
    PROVE  TypeRest' /\ BufferInv' /\ EvenInv' /\ DataInv'
  <1> DEFINE b == Piece(Rest)
  <1>1. /\ owner = "given" /\ Rest # <<>> /\ Fits(tail, b) /\ Queue(sent, tail, b)
        /\ UNCHANGED <<peer, pc, locals>>
    BY DEF PhonePrepares
  <1>2. value \in Seq(Byte) /\ sent \in Seq(Byte) /\ tail \in Nat /\ pc = "idle"
    BY <1>1, ValueAssumption, PositionFacts DEF Inv, TypeRest, LendInv
  <1>3. Rest \in Seq(Byte) /\ Len(sent) < Len(value) /\ Len(Rest) = Len(value) - Len(sent)
    BY <1>1, <1>2, RestFacts
  <1>4. /\ b \in Seq(Byte) /\ Len(b) \in 1 .. Chunk
        /\ Len(b) = IF Len(Rest) < Chunk THEN Len(Rest) ELSE Chunk
    BY <1>1, <1>3, PieceFacts
  <1>5. tail + 6 + Len(b) + 2 <= SIZE_QUEUED
    BY <1>1, Sizes DEF Fits
  <1> HIDE DEF b
  <1>6. Chunk % 2 = 0 => tail % 2 = 0
    BY <1>1, <1>3 DEF Inv, EvenInv
  <1>7. PICK P \in SUBSET Pieces : Chain(P, m_queued, sent, tail)
    BY DEF Inv, BufferInv
  <1>8. Len(sent) <= tail /\ m_queued \in [Position -> Byte] /\ pc' # "walk"
    BY <1>1, <1>2 DEF Inv, BufferInv, TypeRest
  <1>9. /\ sent' \in Seq(Byte) /\ tail' \in Position
        /\ m_queued' \in [Position -> Byte] /\ BufferInv'
        /\ sent' = sent \o b /\ tail' = tail + 6 + Len(b)
    BY <1>1, <1>2, <1>4, <1>5, <1>6, <1>7, <1>8, QueueStep
  <1>10. EvenInv'
    <2>1. Len(sent') = Len(sent) + Len(b)
      BY <1>2, <1>4, <1>9, ConcatProperties
    <2>2. SUFFICES ASSUME Len(sent) + Len(b) < Len(value), Chunk % 2 = 0
                   PROVE  (tail + 6 + Len(b)) % 2 = 0
      BY <1>1, <1>9, <2>1 DEF EvenInv, peer
    <2>3. Len(b) = Chunk
      BY <1>2, <1>3, <1>4, <2>2, Sizes, LenProperties
    <2> QED BY <1>2, <1>6, <2>2, <2>3, Sizes
  <1>11. TypeRest'
    BY <1>1, <1>9 DEF Inv, TypeRest, LendType, peer, locals
  <1>12. DataInv'
    BY <1>1, <1>2 DEF DataInv, HandedIsWritten
  <1> QED BY <1>9, <1>10, <1>11, <1>12

-----------------------------------------------------------------------------
(* The walk.                                                               *)

\* Where no zero is, a piece begins; where a zero is, nothing is left.
LEMMA WalkAt ==
    ASSUME Inv, pc = "walk"
    PROVE  \E P \in SUBSET Pieces :
             /\ Chain(P, m_queued, sent, tail)
             /\ m_queued[i] # 0 => \E p \in P : p.pos = i /\ p.off = len
             /\ m_queued[i] = 0 => i = tail /\ len = Len(sent)
  <1>1. PICK P \in SUBSET Pieces :
            Chain(P, m_queued, sent, tail) /\ At(P, sent, tail, i, len)
    BY DEF Inv, BufferInv
  <1>2. m_queued[tail] = 0
    BY DEF Inv, BufferInv
  <1>3. \A p \in P : m_queued[p.pos] # 0
    BY <1>1, Sizes DEF Chain, Holds
  <1> QED BY <1>1, <1>2, <1>3 DEF At

\* The piece the walk is at is read as it was written.
LEMMA ReadPiece ==
    ASSUME Inv, pc = "walk", m_queued[i] # 0
    PROVE  \E P \in SUBSET Pieces : \E p \in P :
             /\ Chain(P, m_queued, sent, tail)
             /\ p.pos = i /\ p.off = len /\ ValueOffset = len /\ ValueLen = p.n
  <1>1. PICK P \in SUBSET Pieces :
            /\ Chain(P, m_queued, sent, tail)
            /\ \E p \in P : p.pos = i /\ p.off = len
    BY WalkAt
  <1>2. PICK p \in P : p.pos = i /\ p.off = len
    BY <1>1
  <1>3. i \in Nat
    BY Sizes, PositionFacts DEF Inv, TypeRest
  <1>4. Holds(m_queued, sent, p)
    BY <1>1 DEF Chain
  <1>5. /\ Field(m_queued[i + 2], m_queued[i + 3]) = len
        /\ Field(m_queued[i + 4], m_queued[i + 5]) = p.n
    BY <1>2, <1>4 DEF Holds
  <1>6. i + 2 + 1 = i + 3 /\ i + 4 + 1 = i + 5
    BY <1>3
  <1>7. ValueOffset = Field(m_queued[i + 2], m_queued[i + 3])
    BY <1>6, Sizes DEF ValueOffset, Read16, Field
  <1>8. ValueLen = Field(m_queued[i + 4], m_queued[i + 5])
    BY <1>6, Sizes DEF ValueLen, Read16, Field
  <1> QED BY <1>1, <1>2, <1>5, <1>7, <1>8

\* One turn of the loop.
LEMMA StepWalk ==
    ASSUME Inv, Walk
    PROVE  TypeRest' /\ BufferInv' /\ EvenInv' /\ DataInv'
  <1>1. /\ pc = "walk" /\ m_queued[i] # 0 /\ UNCHANGED <<peer, buffer, pc>>
        /\ data' = Copied(ValueOffset) /\ len' = len + ValueLen
        /\ i' = i + 6 + ValueLen
    BY Sizes DEF Walk
  <1>2. PICK P \in SUBSET Pieces : \E p \in P :
            /\ Chain(P, m_queued, sent, tail)
            /\ p.pos = i /\ p.off = len /\ ValueOffset = len /\ ValueLen = p.n
    BY <1>1, ReadPiece
  <1>3. PICK p \in P :
            /\ Chain(P, m_queued, sent, tail)
            /\ p.pos = i /\ p.off = len /\ ValueOffset = len /\ ValueLen = p.n
    BY <1>2
  <1> DEFINE n == p.n
  <1>4. n \in Nat /\ i \in Nat /\ len \in Nat /\ tail \in Nat /\ tail < SIZE_QUEUED
        /\ SIZE_QUEUED \in Nat
    BY Sizes, PositionFacts DEF Pieces, Inv, TypeRest
  <1>5. /\ i + 6 + n <= tail /\ len + n <= Len(sent) /\ Len(sent) <= tail
        /\ Holds(m_queued, sent, p) /\ At(P, sent, tail, i + 6 + n, len + n)
    BY <1>3 DEF Chain, Inv, BufferInv
  <1>6. ValueOffset = len /\ ValueLen = n
    BY <1>3
  <1>7. \A b \in 0 .. n - 1 : m_queued[i + 6 + b] = sent[len + b + 1]
    BY <1>3, <1>5 DEF Holds
  <1> HIDE DEF n
  <1>8. i' = i + 6 + n /\ len' = len + n
    BY <1>1, <1>6
  <1>9. Len(sent) \in Nat
    BY LenProperties DEF Inv, TypeRest
  <1>10. i' \in Position /\ len' \in Position
    BY <1>4, <1>5, <1>8, <1>9, PositionFacts
  <1>11. data' = [q \in Position |-> IF q \in len .. len + n - 1
                                     THEN m_queued[i + 6 + q - len] ELSE data[q]]
    BY <1>1, <1>6, Sizes DEF Copied
  <1>12. data' \in [Position -> Byte]
    <2>1. ASSUME NEW q \in Position, q \in len .. len + n - 1
          PROVE  m_queued[i + 6 + q - len] \in Byte
      <3>1. i + 6 + q - len \in Position
        BY <1>4, <1>5, <2>1, PositionFacts
      <3> QED BY <3>1 DEF Inv, TypeRest
    <2>2. \A q \in Position : data[q] \in Byte
      BY DEF Inv, TypeRest
    <2> QED BY <1>11, <2>1, <2>2
  <1>13. ASSUME NEW k \in 0 .. len + n - 1 PROVE data'[k] = sent[k + 1]
    <2>1. k \in Position
      BY <1>4, <1>5, <1>9, PositionFacts
    <2>2. CASE k < len
      <3>1. k \in 0 .. len - 1 /\ k \notin len .. len + n - 1
        BY <1>4, <2>2
      <3>2. data'[k] = data[k]
        BY <1>11, <2>1, <3>1
      <3> QED BY <1>1, <3>1, <3>2 DEF Inv, DataInv
    <2>3. CASE k >= len
      <3> DEFINE b == k - len
      <3>1. /\ k \in len .. len + n - 1 /\ b \in 0 .. n - 1
            /\ i + 6 + k - len = i + 6 + b /\ len + b + 1 = k + 1
        BY <1>4, <2>3
      <3>2. data'[k] = m_queued[i + 6 + k - len]
        BY <1>11, <2>1, <3>1
      <3> HIDE DEF b
      <3> QED BY <1>7, <3>1, <3>2
    <2> QED BY <1>4, <2>2, <2>3
  <1>14. BufferInv'
    <2>1. At(P, sent', tail', i', len')
      BY <1>1, <1>5, <1>8 DEF buffer
    <2>2. Chain(P, m_queued', sent', tail')
      BY <1>1, <1>3 DEF buffer
    <2>3. Len(sent') <= tail' /\ m_queued'[tail'] = 0
      BY <1>1 DEF Inv, BufferInv, buffer
    <2> QED BY <2>1, <2>2, <2>3 DEF BufferInv
  <1>15. TypeRest'
    BY <1>1, <1>10, <1>12 DEF Inv, TypeRest, LendType, peer, buffer
  <1>16. DataInv'
    <2>1. sent' = sent
      BY <1>1 DEF buffer
    <2>2. ASSUME NEW k \in 0 .. len' - 1 PROVE data'[k] = sent'[k + 1]
      <3>1. k \in 0 .. len + n - 1
        BY <1>4, <1>8
      <3> QED BY <1>13, <2>1, <3>1
    <2> QED BY <1>1, <2>2 DEF DataInv, HandedIsWritten
  <1>17. EvenInv'
    BY <1>1 DEF Inv, EvenInv, peer, buffer
  <1> QED BY <1>14, <1>15, <1>16, <1>17

\* The walk has come to the zero: the value is complete.
LEMMA StepWalkEnds ==
    ASSUME Inv, WalkEnds
    PROVE  TypeRest' /\ BufferInv' /\ EvenInv' /\ DataInv'
  <1>1. /\ pc = "walk" /\ m_queued[i] = 0 /\ pc' = "data_handler"
        /\ UNCHANGED <<peer, buffer, locals>>
    BY DEF WalkEnds
  <1>2. len = Len(sent)
    BY <1>1, WalkAt
  <1>3. sent \in Seq(Byte) /\ Len(sent) \in Nat
    BY LenProperties DEF Inv, TypeRest
  <1>4. \A k \in 1 .. len : k - 1 \in 0 .. len - 1 /\ (k - 1) + 1 = k
    BY <1>2, <1>3
  <1>5. \A k \in 1 .. len : data[k - 1] = sent[k]
    BY <1>1, <1>4 DEF Inv, DataInv
  <1>6. [k \in 1 .. len |-> data[k - 1]] = [k \in 1 .. Len(sent) |-> sent[k]]
    BY <1>2, <1>5
  <1>7. sent = [k \in 1 .. Len(sent) |-> sent[k]]
    BY <1>3
  <1>8. DataInv'
    BY <1>1, <1>6, <1>7 DEF DataInv, HandedIsWritten, buffer, locals
  <1>9. BufferInv'
    BY <1>1 DEF Inv, BufferInv, buffer
  <1>10. TypeRest' /\ EvenInv'
    BY <1>1 DEF Inv, TypeRest, LendType, EvenInv, peer, buffer, locals
  <1> QED BY <1>8, <1>9, <1>10

\* The buffer comes back, and the walk begins.
LEMMA StepRelease ==
    ASSUME Inv, DispatchRelease
    PROVE  TypeRest' /\ BufferInv' /\ EvenInv' /\ DataInv'
  <1>1. /\ pc' = "walk" /\ data' = Zeros /\ i' = 0 /\ len' = 0
        /\ evq' = Tail(evq) /\ evq # <<>>
        /\ UNCHANGED <<link, owner, value, buffer>>
    BY DEF DispatchRelease, BeginWalk, Takes
  <1>2. evq' \in Seq(Events)
    BY <1>1, Taken DEF Inv, TypeRest, LendType
  <1>3. Zeros \in [Position -> Byte]
    BY PositionFacts DEF Zeros
  <1>4. TypeRest'
    BY <1>1, <1>2, <1>3, PositionFacts DEF Inv, TypeRest, LendType, buffer
  <1>5. BufferInv'
    <2>1. PICK P \in SUBSET Pieces : Chain(P, m_queued, sent, tail)
      BY DEF Inv, BufferInv
    <2>2. At(P, sent, tail, 0, 0)
      BY <2>1 DEF Chain
    <2>3. Chain(P, m_queued', sent', tail') /\ At(P, sent', tail', i', len')
      BY <1>1, <2>1, <2>2 DEF buffer
    <2> QED BY <1>1, <2>3 DEF Inv, BufferInv, buffer
  <1>6. EvenInv'
    BY <1>1 DEF Inv, EvenInv, buffer
  <1>7. DataInv'
    <2>1. \A k \in 0 .. len' - 1 : FALSE
      BY <1>1
    <2> QED BY <1>1, <2>1 DEF DataInv, HandedIsWritten
  <1> QED BY <1>4, <1>5, <1>6, <1>7

\* The steps that touch neither the buffer nor the handler's locals.
LEMMA StepOther ==
    ASSUME Inv, UNCHANGED <<buffer, locals>>,
           UNCHANGED pc \/ (pc = "data_handler" /\ pc' = "idle"),
           LendType', owner' # "given" \/ UNCHANGED <<owner, value>>
    PROVE  TypeRest' /\ BufferInv' /\ EvenInv' /\ DataInv'
  <1>1. TypeRest'
    BY DEF Inv, TypeRest, buffer, locals
  <1>2. BufferInv'
    BY DEF Inv, BufferInv, buffer, locals
  <1>3. EvenInv'
    BY DEF Inv, EvenInv, buffer
  <1>4. DataInv'
    BY DEF Inv, DataInv, HandedIsWritten, buffer, locals
  <1> QED BY <1>1, <1>2, <1>3, <1>4

\* Every step keeps the invariant.
LEMMA StepInv == Inv /\ [Next]_vars => Inv'
  <1> SUFFICES ASSUME Inv, [Next]_vars
               PROVE  TypeRest' /\ BufferInv' /\ EvenInv' /\ DataInv'
    BY StepLend DEF Inv, TypeRest
  <1> USE DEF LendType
  <1>0. LendType
    BY DEF Inv, TypeRest
  <1>1. CASE PeerConnects
    BY <1>0, <1>1, StepOther DEF PeerConnects
  <1>2. CASE PhoneBegins
    <2>1. evq' \in Seq(Events)
      BY <1>0, <1>2, Appended DEF PhoneBegins, Events, MemEvents
    <2> QED BY <1>0, <1>2, <2>1, StepOther DEF PhoneBegins
  <1>3. CASE PhonePrepares
    BY <1>3, StepPrepares
  <1>4. CASE PhoneEnds
    <2>1. evq' \in Seq(Events)
      BY <1>0, <1>4, Appended DEF PhoneEnds, Events, MemEvents
    <2> QED BY <1>0, <1>4, <2>1, StepOther DEF PhoneEnds
  <1>5. CASE LinkLost
    <2>1. /\ <<"release", "disconnected">> \in Seq(Events)
          /\ <<"disconnected", "release">> \in Seq(Events)
          /\ "disconnected" \in Events
      BY DEF Events, MemEvents
    <2>2. /\ evq \o <<"release", "disconnected">> \in Seq(Events)
          /\ evq \o <<"disconnected", "release">> \in Seq(Events)
          /\ Append(evq, "disconnected") \in Seq(Events)
      BY <1>0, <2>1, ConcatProperties, AppendProperties
    <2>3. evq' \in Seq(Events)
      BY <1>5, <2>2 DEF LinkLost
    <2> QED BY <1>0, <1>5, <2>3, StepOther DEF LinkLost
  <1>6. CASE DispatchRequest
    BY <1>6, StepReply
  <1>7. CASE DispatchRelease
    BY <1>7, StepRelease
  <1>8. CASE DispatchDisconnected
    <2>1. evq' \in Seq(Events)
      BY <1>0, <1>8, Taken DEF DispatchDisconnected, Takes
    <2> QED BY <1>0, <1>8, <2>1, StepOther DEF DispatchDisconnected
  <1>9. CASE Walk
    BY <1>9, StepWalk
  <1>10. CASE WalkEnds
    BY <1>10, StepWalkEnds
  <1>11. CASE Return
    BY <1>0, <1>11, StepOther DEF Return, peer
  <1>12. CASE UNCHANGED vars
    BY <1>0, <1>12, StepOther DEF vars, peer
  <1> QED BY <1>1, <1>2, <1>3, <1>4, <1>5, <1>6, <1>7, <1>8, <1>9, <1>10, <1>11, <1>12
          DEF Next, Environment, Dispatch, HandlerStep

\* It holds in the beginning.
LEMMA InitInv == Init => Inv
  <1> SUFFICES ASSUME Init PROVE Inv
    OBVIOUS
  <1>1. Zeros \in [Position -> Byte] /\ Zeros[0] = 0
    BY PositionFacts DEF Zeros
  <1>2. <<>> \in Seq(Byte) /\ <<>> \in Seq(Events) /\ Len(<<>>) = 0
    BY EmptySeq
  <1>3. TypeRest
    BY <1>1, <1>2, PositionFacts DEF Init, TypeRest, LendType
  <1>4. LendInv
    BY DEF Init, LendInv
  <1>5. BufferInv
    <2>1. Chain({}, m_queued, sent, tail)
      BY <1>2 DEF Init, Chain, At
    <2>2. {} \in SUBSET Pieces
      OBVIOUS
    <2> QED BY <1>1, <1>2, <2>1, <2>2 DEF Init, BufferInv
  <1>6. EvenInv /\ DataInv
    BY DEF Init, EvenInv, DataInv, HandedIsWritten
  <1> QED BY <1>3, <1>4, <1>5, <1>6 DEF Inv

\* The inductive invariant.
THEOREM Invariance == Spec => []Inv
  BY InitInv, StepInv, PTL DEF Spec

\* Every variable keeps its type; the walk stays in the buffer.
THEOREM TypeCorrect == Spec => []TypeOK
  <1>1. Init => LinkType
    BY DEF Init, LinkType
  <1>2. Inv /\ LinkType => TypeOK
    BY TypeParts DEF Inv, LinkType
  <1>3. Spec => []LinkType
    BY <1>1, StepLink, PTL DEF Spec
  <1> QED BY <1>2, <1>3, Invariance, PTL

\* The program never reads the buffer while the SoftDevice may write into it.
THEOREM LendingSafe == Spec => []ReadWhenGivenBack
  <1>1. Inv => ReadWhenGivenBack
    BY DEF Inv, LendInv, ReadWhenGivenBack
  <1> QED BY <1>1, Invariance, PTL

\* The command handed over is what the phone wrote in this write.
THEOREM HandedRight == Spec => []HandedIsWritten
  <1>1. Inv => HandedIsWritten
    BY DEF Inv, DataInv
  <1> QED BY <1>1, Invariance, PTL

\* With full pieces of an even size no header is read at an odd address.
THEOREM Aligned == ASSUME Chunk % 2 = 0 PROVE Spec => []HeadersAligned
  <1>1. Inv => HeadersAligned
    <2>1. SUFFICES ASSUME Inv, pc = "walk", m_queued[i] # 0 PROVE i % 2 = 0
      BY DEF HeadersAligned
    <2>2. PICK P \in SUBSET Pieces :
            Chain(P, m_queued, sent, tail) /\ \E p \in P : p.pos = i /\ p.off = len
      BY <2>1, WalkAt
    <2> QED BY <2>2 DEF Chain
  <1> QED BY <1>1, Invariance, PTL

\* Each turn of the walk takes it forward by a piece, over no byte that is not
\* part of this write, and it ends at the zero behind the last piece: neither a
\* length left over from an earlier write nor a zero within a piece misleads it.
WalkForward ==
    [][pc = "walk" /\ <<pc, locals>>' # <<pc, locals>> =>
        IF pc' = "walk" THEN i' \in i + SIZE_HEADER + 1 .. tail /\ len' <= Len(sent)
        ELSE i = tail]_vars

\* Every turn of the walk takes a piece of this write, and the walk ends behind
\* the last one.
THEOREM WalksForward == Spec => WalkForward
  <1>1. ASSUME Inv, Next, pc = "walk", <<pc, locals>>' # <<pc, locals>>
        PROVE  IF pc' = "walk" THEN i' \in i + SIZE_HEADER + 1 .. tail /\ len' <= Len(sent)
               ELSE i = tail
    <2>1. Walk \/ WalkEnds
      BY <1>1 DEF Next, Environment, PeerConnects, PhoneBegins, PhonePrepares, PhoneEnds,
                  LinkLost, Dispatch, DispatchRequest, DispatchRelease, DispatchDisconnected,
                  Takes, Idle, HandlerStep, Return, locals
    <2>2. CASE Walk
      <3>1. /\ m_queued[i] # 0 /\ pc' = "walk"
            /\ i' = i + SIZE_HEADER + ValueLen /\ len' = len + ValueLen
        BY <1>1, <2>2 DEF Walk
      <3>2. PICK P \in SUBSET Pieces : \E p \in P :
                /\ Chain(P, m_queued, sent, tail)
                /\ p.pos = i /\ p.off = len /\ ValueOffset = len /\ ValueLen = p.n
        BY <1>1, <3>1, ReadPiece
      <3>3. PICK p \in P :
                /\ Chain(P, m_queued, sent, tail)
                /\ p.pos = i /\ p.off = len /\ ValueOffset = len /\ ValueLen = p.n
        BY <3>2
      <3>4. i + 6 + p.n <= tail /\ len + p.n <= Len(sent)
        BY <3>3 DEF Chain
      <3>5. p.n \in Nat /\ p.n > 0 /\ i \in Nat /\ tail \in Nat /\ SIZE_HEADER = 6
        BY <1>1, Sizes, PositionFacts DEF Pieces, Inv, TypeRest
      <3> QED BY <3>1, <3>3, <3>4, <3>5
    <2>3. CASE WalkEnds
      <3>1. m_queued[i] = 0 /\ pc' # "walk"
        BY <2>3 DEF WalkEnds
      <3> QED BY <1>1, <3>1, WalkAt
    <2> QED BY <2>1, <2>2, <2>3
  <1>2. Inv /\ [Next]_vars =>
          [pc = "walk" /\ <<pc, locals>>' # <<pc, locals>> =>
            IF pc' = "walk" THEN i' \in i + SIZE_HEADER + 1 .. tail /\ len' <= Len(sent)
            ELSE i = tail]_vars
    BY <1>1
  <1> QED BY <1>2, Invariance, PTL DEF Spec, WalkForward
=============================================================================
