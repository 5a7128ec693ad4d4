------------------------- MODULE StreamBuffer_proofs -------------------------
(***************************************************************************)
(* Theorems about StreamBuffer, for every stream, every division of it     *)
(* into messages and every buffer size.                                    *)
(***************************************************************************)
EXTENDS StreamBuffer, NumberFacts, SequenceTheorems, TLAPS

-----------------------------------------------------------------------------
(* Numbers.                                                                *)

\* The smaller and the larger of two numbers.
LEMMA MinMaxPair ==
    ASSUME NEW a \in Int, NEW b \in Int
    PROVE  /\ Min({a, b}) = IF a <= b THEN a ELSE b
           /\ Max({a, b}) = IF a >= b THEN a ELSE b
<1>1. Min({a, b}) = IF a <= b THEN a ELSE b
  <2> DEFINE P(x) == x \in {a, b} /\ \A y \in {a, b} : x <= y
  <2>1. \E x : P(x)
    <3>1. CASE a <= b
      BY <3>1
    <3>2. CASE ~(a <= b)
      <4>1. P(b)
        BY <3>2
      <4>2. QED
        BY <4>1
    <3>3. QED
      BY <3>1, <3>2
  <2>2. P(CHOOSE x : P(x))
    BY <2>1
  <2>3. Min({a, b}) = CHOOSE x : P(x)
    BY DEF Min
  <2>4. P(Min({a, b}))
    BY <2>2, <2>3
  <2>5. QED
    BY <2>4
<1>2. Max({a, b}) = IF a >= b THEN a ELSE b
  <2> DEFINE P(x) == x \in {a, b} /\ \A y \in {a, b} : x >= y
  <2>1. \E x : P(x)
    <3>1. CASE a >= b
      BY <3>1
    <3>2. CASE ~(a >= b)
      <4>1. P(b)
        BY <3>2
      <4>2. QED
        BY <4>1
    <3>3. QED
      BY <3>1, <3>2
  <2>2. P(CHOOSE x : P(x))
    BY <2>1
  <2>3. Max({a, b}) = CHOOSE x : P(x)
    BY DEF Max
  <2>4. P(Max({a, b}))
    BY <2>2, <2>3
  <2>5. QED
    BY <2>4
<1>3. QED
  BY <1>1, <1>2

\* A buffer that grows has room for one byte more than was asked for.
LEMMA RoundUpGrows == \A n \in Nat : RoundUp(n) \in Nat /\ RoundUp(n) > n
<1>1. ASSUME NEW n \in Nat, NEW r \in Nat, r > 0
      PROVE  (n \div r + 1) * r \in Int /\ (n \div r + 1) * r > n
  BY <1>1
<1>2. READBUFSZ \in Nat /\ READBUFSZ > 0
  BY StreamAssumption
<1>3. QED
  BY <1>1, <1>2 DEF RoundUp

-----------------------------------------------------------------------------
(* Memory.                                                                 *)

\* Byte holds what a buffer is filled with before it is written.
LEMMA GarbageByte == Garbage \in Byte
  BY StreamAssumption DEF Garbage, Byte

\* A function on 1 .. k is a sequence of length k.
LEMMA FunctionIsSeq ==
    ASSUME NEW S, NEW k \in Nat, NEW f \in [1 .. k -> S]
    PROVE  f \in Seq(S) /\ Len(f) = k
  BY SeqDef

\* realloc keeps what fits.
LEMMA ReallocProperties ==
    ASSUME NEW s \in Seq(Byte), NEW n \in Nat
    PROVE  /\ realloc(s, n) \in Seq(Byte) /\ Len(realloc(s, n)) = n
           /\ \A i \in 1 .. n : i <= Len(s) => realloc(s, n)[i] = s[i]
<1>1. Len(s) \in Nat /\ \A i \in 1 .. Len(s) : s[i] \in Byte
  BY ElementOfSeq, LenProperties
<1>2. realloc(s, n) \in [1 .. n -> Byte]
  BY <1>1, GarbageByte DEF realloc
<1>3. QED
  BY <1>1, <1>2, FunctionIsSeq DEF realloc

\* b is n bytes read at an offset of s.
ReadAt(s, at, n, b) ==
    /\ b \in Seq(Byte) /\ Len(b) = n
    /\ \A i \in 1 .. n : at + i <= Len(s) => b[i] = s[at + i]

\* Bytes reads what is there.
LEMMA BytesProperties ==
    ASSUME NEW s \in Seq(Byte), NEW at \in Nat, NEW n \in Nat
    PROVE  ReadAt(s, at, n, Bytes(s, at, n))
<1>1. Len(s) \in Nat /\ \A i \in 1 .. Len(s) : s[i] \in Byte
  BY ElementOfSeq, LenProperties
<1>2. Bytes(s, at, n) \in [1 .. n -> Byte]
  BY <1>1, GarbageByte DEF Bytes
<1>3. QED
  BY <1>1, <1>2, FunctionIsSeq DEF Bytes, ReadAt

\* Put overwrites its place and nothing else, and a place inside the buffer
\* leaves the buffer as long as it was.
LEMMA PutProperties ==
    ASSUME NEW s \in Seq(Byte), NEW at \in Nat, NEW d \in Seq(Byte)
    PROVE  /\ Put(s, at, d) \in Seq(Byte)
           /\ at + Len(d) <= Len(s) => Len(Put(s, at, d)) = Len(s)
           /\ \A i \in 1 .. Len(d) : Put(s, at, d)[at + i] = d[i]
           /\ \A i \in 1 .. Len(s) :
                i <= at \/ i > at + Len(d) => Put(s, at, d)[i] = s[i]
<1>1. Len(s) \in Nat /\ Len(d) \in Nat
      /\ (\A i \in 1 .. Len(s) : s[i] \in Byte) /\ (\A i \in 1 .. Len(d) : d[i] \in Byte)
  BY ElementOfSeq, LenProperties
<1> DEFINE k == Max({Len(s), at + Len(d)})
<1>2. k \in Nat /\ k = IF Len(s) >= at + Len(d) THEN Len(s) ELSE at + Len(d)
  <2>1. Len(s) \in Int /\ at + Len(d) \in Int
    BY <1>1
  <2>2. k = IF Len(s) >= at + Len(d) THEN Len(s) ELSE at + Len(d)
    BY <2>1, MinMaxPair
  <2>3. QED
    BY <1>1, <2>2
<1>3. Put(s, at, d) = [i \in 1 .. k |-> IF i > at /\ i <= at + Len(d) THEN d[i - at]
                                        ELSE IF i <= Len(s) THEN s[i] ELSE Garbage]
  BY DEF Put
<1> HIDE DEF k
<1>4. Put(s, at, d) \in [1 .. k -> Byte]
  <2>1. ASSUME NEW i \in 1 .. k, i > at, i <= at + Len(d) PROVE d[i - at] \in Byte
    BY <1>1, <1>2, <2>1
  <2>2. QED
    BY <1>1, <1>2, <1>3, <2>1, GarbageByte
<1>5. Put(s, at, d) \in Seq(Byte) /\ Len(Put(s, at, d)) = k
  BY <1>2, <1>4, FunctionIsSeq
<1>6. \A i \in 1 .. Len(d) : Put(s, at, d)[at + i] = d[i]
  BY <1>1, <1>2, <1>3
<1>7. \A i \in 1 .. Len(s) : i <= at \/ i > at + Len(d) => Put(s, at, d)[i] = s[i]
  BY <1>1, <1>2, <1>3
<1>8. QED
  BY <1>2, <1>5, <1>6, <1>7

-----------------------------------------------------------------------------
(* The pending data.                                                       *)

Buffers == [hp : Seq(Byte), alloc : Nat, bufsz : Nat, po : Nat, len : Nat]

\* The recorded size never exceeds the real one, and what is pending lies
\* inside the buffer.
BufOK(p) == /\ p \in Buffers
            /\ Len(p.hp) = p.alloc
            /\ p.po + p.len <= p.alloc
            /\ p.bufsz <= p.alloc

\* Data are appended to what is pending in p, which gives q.
Saving(p, data, q) ==
    /\ BufOK(q) /\ q.len = p.len + Len(data)
    /\ q.po + q.len <= q.bufsz
    /\ \A i \in 1 .. p.len : q.hp[q.po + i] = p.hp[p.po + i]
    /\ \A i \in 1 .. Len(data) : q.hp[q.po + p.len + i] = data[i]

\* save_pending_data appends, within a buffer that is large enough.
LEMMA SaveProperties ==
    ASSUME NEW p, BufOK(p), NEW data \in Seq(Byte)
    PROVE  Saving(p, data, save_pending_data(p, data))
<1> SUFFICES ASSUME NEW q, q = save_pending_data(p, data)
             PROVE  Saving(p, data, q)
  OBVIOUS
<1> DEFINE po == IF p.len = 0 THEN 0 ELSE p.po
           reqlen == po + p.len + Len(data)
           big == reqlen > p.bufsz
           sz == IF big THEN RoundUp(reqlen) ELSE p.bufsz
           al == IF big THEN RoundUp(reqlen) ELSE p.alloc
           hp == IF big THEN realloc(p.hp, RoundUp(reqlen)) ELSE p.hp
<1>1. /\ p.hp \in Seq(Byte) /\ Len(p.hp) = p.alloc /\ p.alloc \in Nat /\ p.bufsz \in Nat
      /\ p.po \in Nat /\ p.len \in Nat /\ p.po + p.len <= p.alloc /\ p.bufsz <= p.alloc
      /\ Len(data) \in Nat
  BY LenProperties DEF BufOK, Buffers
<1>2. po \in Nat /\ reqlen \in Nat /\ po + p.len <= p.alloc
  BY <1>1
<1>3. RoundUp(reqlen) \in Nat /\ RoundUp(reqlen) > reqlen
  BY <1>2, RoundUpGrows
<1>4. Garbage \in Byte
  BY StreamAssumption DEF Garbage, Byte
<1>5. /\ q = [hp |-> Put(hp, po + p.len, data), alloc |-> al, bufsz |-> sz, po |-> po,
              len |-> p.len + Len(data)]
  BY DEF save_pending_data, BufOK, Buffers
<1> HIDE DEF po
<1>6. hp \in Seq(Byte) /\ Len(hp) = al /\ \A i \in 1 .. po + p.len : hp[i] = p.hp[i]
  <2>1. CASE big
    <3> DEFINE r == RoundUp(reqlen)
    <3>1. hp = realloc(p.hp, r) /\ al = r /\ r \in Nat /\ r > po + p.len + Len(data)
      BY <1>3, <2>1
    <3>2. \A i \in 1 .. po + p.len : i \in 1 .. r /\ i <= Len(p.hp)
      BY <1>1, <1>2, <3>1
    <3> HIDE DEF r, hp, al
    <3>3. /\ realloc(p.hp, r) \in Seq(Byte) /\ Len(realloc(p.hp, r)) = r
          /\ \A i \in 1 .. r : i <= Len(p.hp) => realloc(p.hp, r)[i] = p.hp[i]
      BY <1>1, <3>1, ReallocProperties
    <3>4. QED
      BY <3>1, <3>2, <3>3
  <2>2. CASE ~big
    BY <1>1, <2>2
  <2>3. QED
    BY <2>1, <2>2
<1>7. al \in Nat /\ sz \in Nat /\ sz <= al /\ reqlen <= sz
  BY <1>1, <1>2, <1>3
<1> HIDE DEF hp, al, sz
<1>8. /\ Put(hp, po + p.len, data) \in Seq(Byte) /\ Len(Put(hp, po + p.len, data)) = al
      /\ \A i \in 1 .. Len(data) : Put(hp, po + p.len, data)[po + p.len + i] = data[i]
      /\ \A i \in 1 .. po + p.len : Put(hp, po + p.len, data)[i] = hp[i]
  <2>1. po + p.len \in Nat /\ po + p.len + Len(data) <= al
    BY <1>1, <1>2, <1>7, SMTT(30)
  <2> DEFINE at == po + p.len
  <2>2. at \in Nat /\ at + Len(data) <= Len(hp) /\ Len(hp) \in Nat
    BY <1>6, <1>7, <2>1
  <2> HIDE DEF at
  <2>3. /\ Put(hp, at, data) \in Seq(Byte) /\ Len(Put(hp, at, data)) = Len(hp)
        /\ \A i \in 1 .. Len(data) : Put(hp, at, data)[at + i] = data[i]
        /\ \A i \in 1 .. Len(hp) : i <= at \/ i > at + Len(data) => Put(hp, at, data)[i] = hp[i]
    BY <1>6, <2>2, PutProperties
  <2>4. \A i \in 1 .. at : i \in 1 .. Len(hp) /\ i <= at
    BY <1>1, <2>2
  <2>5. QED
    BY <1>6, <2>3, <2>4 DEF at
<1>9. BufOK(q) /\ q.po + q.len <= q.bufsz
  BY <1>1, <1>2, <1>5, <1>7, <1>8 DEF BufOK, Buffers
<1>10. \A i \in 1 .. p.len : q.hp[q.po + i] = p.hp[p.po + i]
  <2>1. ASSUME NEW i \in 1 .. p.len PROVE q.hp[q.po + i] = p.hp[p.po + i]
    <3>1. po = p.po /\ po + i \in 1 .. po + p.len
      BY <1>1, <1>2 DEF po
    <3>2. QED
      BY <1>5, <1>6, <1>8, <3>1
  <2>2. QED
    BY <2>1
<1>11. QED
  BY <1>5, <1>8, <1>9, <1>10 DEF Saving

\* Of n bytes asked for, c bytes d are taken from the front of p, which leaves q.
Consumption(p, n, c, d, q) ==
    /\ c \in Nat /\ c <= n /\ c <= p.len /\ (c = n \/ c = p.len)
    /\ d \in Seq(Byte) /\ Len(d) = c
    /\ \A i \in 1 .. c : d[i] = p.hp[p.po + i]
    /\ BufOK(q) /\ q.len = p.len - c /\ q.bufsz = p.bufsz
    /\ q.po = IF q.len = 0 THEN 0 ELSE p.po + c
    /\ \A i \in 1 .. q.len : q.hp[q.po + i] = p.hp[p.po + c + i]

\* consume_pending_data takes from the front, never more than there is.
LEMMA ConsumeProperties ==
    ASSUME NEW p, BufOK(p), NEW n \in Nat
    PROVE  Consumption(p, n, consumable(p, n), consumed(p, n), consume_pending_data(p, n))
<1> DEFINE c == consumable(p, n)
           q == consume_pending_data(p, n)
<1>1. /\ p.hp \in Seq(Byte) /\ Len(p.hp) = p.alloc /\ p.alloc \in Nat /\ p.bufsz \in Nat
      /\ p.po \in Nat /\ p.len \in Nat /\ p.po + p.len <= p.alloc /\ p.bufsz <= p.alloc
  BY DEF BufOK, Buffers
<1>2. c = IF n <= p.len THEN n ELSE p.len
  BY <1>1, MinMaxPair DEF consumable
<1>3. c \in Nat /\ c <= n /\ c <= p.len /\ (c = n \/ c = p.len)
  BY <1>1, <1>2
<1>4. Garbage \in Byte
  BY StreamAssumption DEF Garbage, Byte
<1>5. q = [p EXCEPT !.len = p.len - c, !.po = IF p.len - c <= 0 THEN 0 ELSE p.po + c]
  BY DEF consume_pending_data
<1>6. consumed(p, n) = Bytes(p.hp, p.po, c)
  BY DEF consumed
<1>7. /\ consumed(p, n) \in Seq(Byte) /\ Len(consumed(p, n)) = c
      /\ \A i \in 1 .. c : consumed(p, n)[i] = p.hp[p.po + i]
  <2>1. /\ Bytes(p.hp, p.po, c) \in Seq(Byte) /\ Len(Bytes(p.hp, p.po, c)) = c
        /\ \A i \in 1 .. c : p.po + i <= Len(p.hp) => Bytes(p.hp, p.po, c)[i] = p.hp[p.po + i]
    <3>1. ReadAt(p.hp, p.po, c, Bytes(p.hp, p.po, c))
      <4> HIDE DEF c
      <4>1. QED
        BY <1>1, <1>3, BytesProperties
    <3>2. QED
      BY <3>1 DEF ReadAt
  <2>2. \A i \in 1 .. c : p.po + i <= Len(p.hp)
    BY <1>1, <1>3
  <2>3. QED
    BY <1>6, <2>1, <2>2
<1>8. /\ q.hp = p.hp /\ q.alloc = p.alloc /\ q.bufsz = p.bufsz /\ q.len = p.len - c
      /\ q.po = IF p.len - c <= 0 THEN 0 ELSE p.po + c
      /\ q = [hp |-> q.hp, alloc |-> q.alloc, bufsz |-> q.bufsz, po |-> q.po, len |-> q.len]
  BY <1>5 DEF BufOK, Buffers
<1>9. BufOK(q) /\ q.po = IF q.len = 0 THEN 0 ELSE p.po + c
  <2>1. CASE p.len = c
    <3>1. q.len = 0 /\ q.po = 0
      BY <1>1, <1>3, <1>8, <2>1
    <3>2. QED
      BY <1>1, <1>8, <3>1 DEF BufOK, Buffers
  <2>2. CASE p.len # c
    <3>1. q.len = p.len - c /\ p.len - c \in Nat /\ p.len - c # 0 /\ q.po = p.po + c
      BY <1>1, <1>3, <1>8, <2>2
    <3>2. q.po \in Nat /\ q.po + q.len <= p.alloc
      BY <1>1, <1>3, <3>1
    <3>3. QED
      BY <1>1, <1>8, <3>1, <3>2 DEF BufOK, Buffers
  <2>3. QED
    BY <2>1, <2>2
<1>10. \A i \in 1 .. q.len : q.hp[q.po + i] = p.hp[p.po + c + i]
  BY <1>1, <1>3, <1>8
<1>11. QED
  BY <1>3, <1>7, <1>8, <1>9, <1>10 DEF Consumption

\* Data are put in front of what is pending in p, which gives q.
Unreading(p, data, q) ==
    /\ BufOK(q) /\ q.len = p.len + Len(data) /\ q.po = 0 /\ q.bufsz = p.bufsz
    /\ (p.bufsz < q.len => p.po + p.len <= RoundUp(q.len))
       => /\ \A i \in 1 .. Len(data) : q.hp[i] = data[i]
          /\ \A i \in 1 .. p.len : q.hp[Len(data) + i] = p.hp[p.po + i]

\* pool_unread puts the data in front of what is pending.  When it reallocates
\* the buffer it asks for the bytes it needs, and may get fewer than the
\* buffer had: only if the pending bytes survive that does it keep them.
LEMMA UnreadProperties ==
    ASSUME NEW p, BufOK(p), NEW data \in Seq(Byte)
    PROVE  Unreading(p, data, pool_unread(p, data))
<1> SUFFICES ASSUME NEW q, q = pool_unread(p, data)
             PROVE  Unreading(p, data, q)
  OBVIOUS
<1> DEFINE n == p.len + Len(data)
           big == p.bufsz < n
           al == IF big THEN RoundUp(n) ELSE p.alloc
           hp == IF big THEN realloc(p.hp, RoundUp(n)) ELSE p.hp
           mid == Bytes(hp, p.po, p.len)
           moved == IF p.len # 0 THEN Put(hp, Len(data), mid) ELSE hp
<1>1. /\ p.hp \in Seq(Byte) /\ Len(p.hp) = p.alloc /\ p.alloc \in Nat /\ p.bufsz \in Nat
      /\ p.po \in Nat /\ p.len \in Nat /\ p.po + p.len <= p.alloc /\ p.bufsz <= p.alloc
      /\ Len(data) \in Nat
  BY LenProperties DEF BufOK, Buffers
<1>2. n \in Nat /\ RoundUp(n) \in Nat /\ RoundUp(n) > n
  <2>1. n \in Nat
    BY <1>1
  <2> HIDE DEF n
  <2>2. QED
    BY <2>1, RoundUpGrows
<1>3. Garbage \in Byte
  BY StreamAssumption DEF Garbage, Byte
<1>4. q = [hp |-> Put(moved, 0, data), alloc |-> al, bufsz |-> p.bufsz, po |-> 0, len |-> n]
  BY DEF pool_unread, BufOK, Buffers
<1>5. hp \in Seq(Byte) /\ Len(hp) = al
      /\ \A i \in 1 .. p.po + p.len : i <= al => hp[i] = p.hp[i]
  <2>1. CASE big
    <3> DEFINE r == RoundUp(n)
    <3>1. hp = realloc(p.hp, r) /\ al = r /\ r \in Nat
      BY <1>2, <2>1
    <3>2. \A i \in 1 .. p.po + p.len : i <= r => i \in 1 .. r /\ i <= Len(p.hp)
      BY <1>1, <3>1
    <3> HIDE DEF r, hp, al
    <3>3. /\ realloc(p.hp, r) \in Seq(Byte) /\ Len(realloc(p.hp, r)) = r
          /\ \A i \in 1 .. r : i <= Len(p.hp) => realloc(p.hp, r)[i] = p.hp[i]
      BY <1>1, <3>1, ReallocProperties
    <3>4. QED
      BY <3>1, <3>2, <3>3
  <2>2. CASE ~big
    BY <1>1, <2>2
  <2>3. QED
    BY <2>1, <2>2
<1>6. al \in Nat /\ n <= al /\ p.bufsz <= al
  BY <1>1, <1>2
<1> HIDE DEF hp, al
<1>7. /\ mid \in Seq(Byte) /\ Len(mid) = p.len
      /\ \A i \in 1 .. p.len : p.po + i <= al => mid[i] = hp[p.po + i]
  <2>1. /\ Bytes(hp, p.po, p.len) \in Seq(Byte) /\ Len(Bytes(hp, p.po, p.len)) = p.len
        /\ \A i \in 1 .. p.len : p.po + i <= Len(hp) => Bytes(hp, p.po, p.len)[i] = hp[p.po + i]
    <3>1. ReadAt(hp, p.po, p.len, Bytes(hp, p.po, p.len))
      BY <1>1, <1>5, BytesProperties
    <3>2. QED
      BY <3>1 DEF ReadAt
  <2>2. QED
    BY <1>5, <2>1
<1> HIDE DEF mid
<1>8. /\ moved \in Seq(Byte) /\ Len(moved) = al
      /\ \A i \in 1 .. p.len : moved[Len(data) + i] = mid[i]
  <2>1. CASE p.len # 0
    <3>1. Len(data) + Len(mid) <= Len(hp)
      BY <1>1, <1>5, <1>6, <1>7
    <3>2. QED
      BY <1>1, <1>5, <1>7, <2>1, <3>1, PutProperties
  <2>2. CASE p.len = 0
    BY <1>5, <2>2
  <2>3. QED
    BY <2>1, <2>2
<1> HIDE DEF moved
<1>9. /\ Put(moved, 0, data) \in Seq(Byte) /\ Len(Put(moved, 0, data)) = al
      /\ \A i \in 1 .. Len(data) : Put(moved, 0, data)[i] = data[i]
      /\ \A i \in 1 .. p.len : Put(moved, 0, data)[Len(data) + i] = moved[Len(data) + i]
  <2>1. 0 + Len(data) <= Len(moved)
    BY <1>1, <1>6, <1>8
  <2>2. /\ Put(moved, 0, data) \in Seq(Byte) /\ Len(Put(moved, 0, data)) = Len(moved)
        /\ \A i \in 1 .. Len(data) : Put(moved, 0, data)[0 + i] = data[i]
        /\ \A i \in 1 .. Len(moved) :
             i <= 0 \/ i > 0 + Len(data) => Put(moved, 0, data)[i] = moved[i]
    BY <1>8, <2>1, PutProperties
  <2>3. \A i \in 1 .. p.len : Len(data) + i \in 1 .. Len(moved) /\ Len(data) + i > 0 + Len(data)
    BY <1>1, <1>6, <1>8
  <2>4. \A i \in 1 .. Len(data) : 0 + i = i
    OBVIOUS
  <2>5. QED
    BY <1>8, <2>2, <2>3, <2>4
<1>10. BufOK(q) /\ q.len = n /\ q.po = 0 /\ q.bufsz = p.bufsz
  BY <1>1, <1>2, <1>4, <1>6, <1>9 DEF BufOK, Buffers
<1>11. ASSUME p.bufsz < n => p.po + p.len <= RoundUp(n), NEW i \in 1 .. p.len
       PROVE  q.hp[Len(data) + i] = p.hp[p.po + i]
  <2>1. p.po + p.len <= al
    BY <1>1, <1>11 DEF al
  <2>2. p.po + i \in 1 .. p.po + p.len /\ p.po + i <= al
    BY <1>1, <1>6, <2>1
  <2>3. QED
    BY <1>4, <1>5, <1>7, <1>8, <1>9, <2>2
<1>12. QED
  BY <1>4, <1>9, <1>10, <1>11 DEF Unreading

-----------------------------------------------------------------------------
(* Stretches of the peer's stream.                                         *)

\* s is what follows the first a bytes of the stream.
Run(s, a) == s \in Seq(Byte) /\ \A i \in 1 .. Len(s) : s[i] = a + i

\* Two stretches of the same place and length are the same.
LEMMA RunUnique ==
    ASSUME NEW s, NEW t, NEW a, Run(s, a), Run(t, a), Len(s) = Len(t)
    PROVE  s = t
<1>1. s \in Seq(Byte) /\ t \in Seq(Byte) /\ \A i \in 1 .. Len(s) : s[i] = t[i]
  BY DEF Run
<1>2. QED
  BY <1>1, SeqEqual

\* Adjacent stretches make one.
LEMMA RunConcat ==
    ASSUME NEW a \in Nat, NEW s, NEW t, Run(s, a), Run(t, a + Len(s))
    PROVE  Run(s \o t, a) /\ Len(s \o t) = Len(s) + Len(t)
<1>1. s \in Seq(Byte) /\ t \in Seq(Byte) /\ Len(s) \in Nat /\ Len(t) \in Nat
  BY LenProperties DEF Run
<1>2. /\ s \o t \in Seq(Byte) /\ Len(s \o t) = Len(s) + Len(t)
      /\ \A i \in 1 .. Len(s) + Len(t) : (s \o t)[i] =
            IF i <= Len(s) THEN s[i] ELSE t[i - Len(s)]
  BY <1>1, ConcatProperties
<1>3. ASSUME NEW i \in 1 .. Len(s) + Len(t) PROVE (s \o t)[i] = a + i
  <2>1. CASE i <= Len(s)
    BY <1>1, <1>2, <2>1 DEF Run
  <2>2. CASE ~(i <= Len(s))
    <3>1. i - Len(s) \in 1 .. Len(t)
      BY <1>1, <2>2
    <3>2. t[i - Len(s)] = a + Len(s) + (i - Len(s))
      BY <3>1 DEF Run
    <3>3. QED
      BY <1>1, <1>2, <2>2, <3>2
  <2>3. QED
    BY <2>1, <2>2
<1>4. QED
  BY <1>2, <1>3 DEF Run

\* A part of a stretch.
LEMMA RunSub ==
    ASSUME NEW a \in Nat, NEW s, Run(s, a), NEW i \in 1 .. Len(s) + 1,
           NEW j \in (i - 1) .. Len(s)
    PROVE  Run(SubSeq(s, i, j), a + i - 1) /\ Len(SubSeq(s, i, j)) = j - i + 1
<1>1. s \in Seq(Byte) /\ Len(s) \in Nat /\ \A k \in 1 .. Len(s) : s[k] = a + k
  BY LenProperties DEF Run
<1>2. i \in Int /\ j \in Int /\ j - i + 1 \in Nat
  BY <1>1
<1>3. \A k \in i .. j : k \in 1 .. Len(s)
  BY <1>1, <1>2
<1>4. \A k \in i .. j : s[k] \in Byte
  BY <1>1, <1>3, ElementOfSeq
<1>5. /\ SubSeq(s, i, j) \in Seq(Byte)
      /\ Len(SubSeq(s, i, j)) = IF i <= j THEN j - i + 1 ELSE 0
      /\ \A k \in 1 .. j - i + 1 : SubSeq(s, i, j)[k] = s[i + k - 1]
  BY <1>2, <1>4, SubSeqProperties
<1>6. Len(SubSeq(s, i, j)) = j - i + 1
  BY <1>2, <1>5
<1>7. ASSUME NEW k \in 1 .. j - i + 1 PROVE SubSeq(s, i, j)[k] = a + i - 1 + k
  <2>1. i + k - 1 \in 1 .. Len(s)
    BY <1>1, <1>2
  <2>2. s[i + k - 1] = a + (i + k - 1)
    BY <1>1, <2>1
  <2>3. QED
    BY <1>2, <1>5, <2>2
<1>8. QED
  BY <1>5, <1>6, <1>7 DEF Run

\* The first k bytes of a stretch.
LEMMA RunHead ==
    ASSUME NEW a \in Nat, NEW s, Run(s, a), NEW k \in 0 .. Len(s)
    PROVE  Run(SubSeq(s, 1, k), a) /\ Len(SubSeq(s, 1, k)) = k
<1>1. Len(s) \in Nat
  BY LenProperties DEF Run
<1> DEFINE i == 1
<1>2. /\ i \in 1 .. Len(s) + 1 /\ k \in (i - 1) .. Len(s)
      /\ a + i - 1 = a /\ k - i + 1 = k
  BY <1>1
<1> HIDE DEF i
<1>3. Run(SubSeq(s, i, k), a + i - 1) /\ Len(SubSeq(s, i, k)) = k - i + 1
  BY <1>2, RunSub, SMTT(30)
<1>4. QED
  BY <1>2, <1>3 DEF i

\* The rest of a stretch after its first k bytes.
LEMMA RunTail ==
    ASSUME NEW a \in Nat, NEW s, Run(s, a), NEW k \in 0 .. Len(s)
    PROVE  Run(SubSeq(s, k + 1, Len(s)), a + k) /\ Len(SubSeq(s, k + 1, Len(s))) = Len(s) - k
<1>1. Len(s) \in Nat
  BY LenProperties DEF Run
<1> DEFINE i == k + 1
           j == Len(s)
<1>2. /\ i \in 1 .. Len(s) + 1 /\ j \in (i - 1) .. Len(s)
      /\ a + i - 1 = a + k /\ j - i + 1 = Len(s) - k
  BY <1>1
<1> HIDE DEF i, j
<1>3. Run(SubSeq(s, i, j), a + i - 1) /\ Len(SubSeq(s, i, j)) = j - i + 1
  BY <1>2, RunSub
<1>4. QED
  BY <1>2, <1>3 DEF i, j

\* The empty stretch, and the whole of the peer's stream.
LEMMA RunEnds ==
    /\ \A a : Run(<< >>, a) /\ Len(<< >>) = 0
    /\ Run(Input, 0) /\ Len(Input) = Size /\ Size \in Nat
<1>1. << >> \in Seq(Byte) /\ Len(<< >>) = 0
  BY EmptySeq
<1>2. \A a : Run(<< >>, a)
  BY <1>1 DEF Run
<1>3. Size \in Nat
  BY StreamAssumption
<1>4. Input \in [1 .. Size -> Byte] /\ \A i \in 1 .. Size : Input[i] = i
  BY <1>3 DEF Input, Byte
<1>5. Input \in Seq(Byte) /\ Len(Input) = Size
  BY <1>3, <1>4, FunctionIsSeq
<1>6. QED
  BY <1>1, <1>2, <1>3, <1>4, <1>5 DEF Run

\* What read(2) returns.
LEMMA RunReceived ==
    ASSUME taken \in Nat, NEW m \in Nat, taken + m <= Size
    PROVE  Run(Received(m), taken) /\ Len(Received(m)) = m
<1>1. Size \in Nat /\ Run(Input, 0) /\ Len(Input) = Size
  BY RunEnds
<1>2. taken + 1 \in 1 .. Len(Input) + 1 /\ taken + m \in (taken + 1 - 1) .. Len(Input)
  BY <1>1
<1>3. /\ Run(SubSeq(Input, taken + 1, taken + m), 0 + (taken + 1) - 1)
      /\ Len(SubSeq(Input, taken + 1, taken + m)) = (taken + m) - (taken + 1) + 1
  BY <1>1, <1>2, RunSub
<1>4. 0 + (taken + 1) - 1 = taken /\ (taken + m) - (taken + 1) + 1 = m
  OBVIOUS
<1>5. QED
  BY <1>3, <1>4 DEF Received

-----------------------------------------------------------------------------
(* The invariant of the reading side.                                      *)

\* The pending data are well formed, and start at 0 when there are none.
PendingOK == BufOK(pb) /\ (pb.len = 0 => pb.po = 0)

\* What was handed over, what the running read has, what is pending and what
\* read(2) will return follow each other in the stream.
InOrder ==
    /\ Run(given, 0) /\ Run(partial, Len(given))
    /\ \A i \in 1 .. pb.len : pb.hp[pb.po + i] = Len(given) + Len(partial) + i
    /\ taken = Len(given) + Len(partial) + pb.len
    /\ taken \in 0 .. Size

\* Only a read function has taken bytes that it has not handed over yet.
PartialInRead == /\ pc \in {"caller"} \cup Writing => partial = << >>
                 /\ pb.len = 0 \/ partial = << >>

\* The pending bytes survive pool_unread's realloc: either the recorded size
\* covers the buffer as far as it is used, or the buffer starts where the last
\* put-back ended, and the recorded size covers the bytes of later messages.
SizeCovers ==
    pb.len > 0 =>
        \/ pb.po + pb.len <= pb.bufsz
        \/ /\ Len(given) - pb.po = mark
           /\ \A b \in Nul : b > mark => taken - b <= pb.bufsz

StreamInv == /\ PendingOK /\ InOrder /\ PartialInRead /\ NoNeedlessWait /\ SizeCovers
             /\ mark \in Nat /\ mark <= Len(given) /\ want \in Nat

\* The string buffer and the packet buffer have room for what is read next.
RoomInv == /\ sbufsz \in Nat /\ readsize \in Nat /\ bufsz2 \in Nat /\ line \in BOOLEAN
           /\ pc = "pool_read_string" => Len(partial) + readsize <= sbufsz
           /\ pc = "pool_read2" => Len(partial) + want <= bufsz2

\* The pieces of StreamInv as arithmetic sees them.
LEMMA StreamFacts ==
    ASSUME StreamInv
    PROVE  /\ pb.po \in Nat /\ pb.len \in Nat /\ pb.bufsz \in Nat /\ pb.alloc \in Nat
           /\ Len(given) \in Nat /\ Len(partial) \in Nat /\ taken \in Nat
           /\ given \in Seq(Byte) /\ partial \in Seq(Byte) /\ Size \in Nat
  BY LenProperties, RunEnds
  DEF StreamInv, PendingOK, BufOK, Buffers, InOrder, Run

\* A step of the other functions.
LEMMA StreamFrame ==
    ASSUME StreamInv, UNCHANGED readVars, pc' \notin Reading,
           pc' \in {"caller"} \cup Writing => pc \in {"caller"} \cup Writing
    PROVE  StreamInv'
<1>1. UNCHANGED <<pb, partial, want, taken, given, mark>>
  BY DEF readVars
<1>2. PendingOK' /\ InOrder' /\ SizeCovers'
  BY <1>1 DEF StreamInv, PendingOK, InOrder, SizeCovers
<1>3. PartialInRead' /\ NoNeedlessWait'
  BY <1>1 DEF StreamInv, PartialInRead, NoNeedlessWait
<1>4. QED
  BY <1>1, <1>2, <1>3 DEF StreamInv

\* A read function takes n of the pending bytes, and returns them or goes on
\* with all there were.
LEMMA PendingTaken ==
    ASSUME StreamInv, pc = "caller", NEW n \in Nat, NEW w \in Nat, NEW where \in Reading,
           pb' = consume_pending_data(pb, n), UNCHANGED <<taken, mark>>,
           \/ Return(consumed(pb, n))
           \/ consumable(pb, n) = pb.len /\ GoOn(consumed(pb, n), w, where)
    PROVE  /\ StreamInv'
           /\ \/ pc' = "caller"
              \/ pc' = where /\ Len(partial') = consumable(pb, n) /\ want' = w
<1> DEFINE c == consumable(pb, n)
           d == consumed(pb, n)
           q == consume_pending_data(pb, n)
<1>1. BufOK(pb) /\ partial = << >> /\ Len(partial) = 0
  BY RunEnds DEF StreamInv, PendingOK, PartialInRead
<1>2. pb' = q /\ (Return(d) \/ (c = pb.len /\ GoOn(d, w, where)))
  OBVIOUS
<1>3. c = consumable(pb, n) /\ Consumption(pb, n, c, d, q)
  BY <1>1, ConsumeProperties
<1> HIDE DEF c, d, q
<1>4. /\ c \in Nat /\ c <= n /\ c <= pb.len /\ (c = n \/ c = pb.len)
      /\ d \in Seq(Byte) /\ Len(d) = c
      /\ \A i \in 1 .. c : d[i] = pb.hp[pb.po + i]
      /\ BufOK(q) /\ q.len = pb.len - c /\ q.bufsz = pb.bufsz
      /\ q.po = IF q.len = 0 THEN 0 ELSE pb.po + c
      /\ \A i \in 1 .. q.len : q.hp[q.po + i] = pb.hp[pb.po + c + i]
  BY <1>3 DEF Consumption
<1>5. /\ pb.po \in Nat /\ pb.len \in Nat /\ pb.bufsz \in Nat /\ Len(given) \in Nat
      /\ taken = Len(given) + pb.len /\ taken \in 0 .. Size /\ Run(given, 0)
      /\ \A i \in 1 .. pb.len : pb.hp[pb.po + i] = Len(given) + i
  BY <1>1, StreamFacts DEF StreamInv, InOrder
<1>6. Run(d, Len(given))
  <2>1. \A i \in 1 .. c : i \in 1 .. pb.len
    BY <1>4, <1>5
  <2>2. QED
    BY <1>4, <1>5, <2>1 DEF Run
<1>7. \A i \in 1 .. q.len : q.hp[q.po + i] = Len(given) + c + i
  <2>1. ASSUME NEW i \in 1 .. q.len PROVE q.hp[q.po + i] = Len(given) + c + i
    <3>1. c + i \in 1 .. pb.len
      BY <1>4, <1>5
    <3>2. pb.hp[pb.po + (c + i)] = Len(given) + (c + i)
      BY <1>5, <3>1
    <3>3. pb.po + (c + i) = pb.po + c + i /\ Len(given) + (c + i) = Len(given) + c + i
      BY <1>4, <1>5
    <3>4. QED
      BY <1>4, <3>2, <3>3
  <2>2. QED
    BY <2>1
<1>8. PendingOK'
  BY <1>4, <1>2 DEF PendingOK
<1>9. mark' \in Nat /\ mark' = mark /\ mark <= Len(given)
  BY DEF StreamInv
<1>10. CASE Return(d)
  <2>1. given' = given \o d /\ partial' = << >> /\ want' = 0 /\ pc' = "caller"
    BY <1>10 DEF Return
  <2>2. Run(given', 0) /\ Len(given') = Len(given) + c
    <3>1. Run(d, 0 + Len(given)) /\ 0 \in Nat
      BY <1>5, <1>6
    <3>2. Run(given \o d, 0) /\ Len(given \o d) = Len(given) + Len(d)
      BY <1>5, <3>1, RunConcat
    <3>3. QED
      BY <1>4, <2>1, <3>2
  <2>3. Run(partial', Len(given')) /\ Len(partial') = 0
    BY <2>1, RunEnds
  <2>4. InOrder'
    <3>1. Len(given') + Len(partial') = Len(given) + c
          /\ Len(given) + c + q.len = taken
      BY <1>4, <1>5, <2>2, <2>3
    <3>2. QED
      BY <1>2, <1>5, <1>7, <2>2, <2>3, <3>1 DEF InOrder
  <2>5. PartialInRead' /\ NoNeedlessWait'
    BY <2>1 DEF PartialInRead, NoNeedlessWait, Reading
  <2>6. SizeCovers'
    <3>1. SUFFICES ASSUME q.len > 0
                   PROVE  \/ q.po + q.len <= q.bufsz
                          \/ /\ Len(given') - q.po = mark
                             /\ \A b \in Nul : b > mark => taken - b <= q.bufsz
      BY <1>2, <1>9 DEF SizeCovers
    <3>2. pb.len > 0 /\ q.po + q.len = pb.po + pb.len
          /\ Len(given') - q.po = Len(given) - pb.po
      <4>1. q.len # 0 /\ q.po = pb.po + c /\ q.len = pb.len - c
        BY <1>4, <3>1
      <4>2. /\ c \in Nat /\ c <= pb.len /\ pb.po \in Nat /\ pb.len \in Nat
            /\ Len(given) \in Nat /\ Len(given') = Len(given) + c
        BY <1>4, <1>5, <2>2
      <4>3. QED
        BY <4>1, <4>2
    <3>3. QED
      BY <1>4, <3>2 DEF StreamInv, SizeCovers
  <2>7. mark' <= Len(given')
    BY <1>4, <1>5, <1>9, <2>2
  <2>8. QED
    BY <1>8, <1>9, <2>1, <2>4, <2>5, <2>6, <2>7 DEF StreamInv
<1>11. CASE c = pb.len /\ GoOn(d, w, where)
  <2>1. given' = given /\ partial' = d /\ want' = w /\ pc' = where
    BY <1>11 DEF GoOn
  <2>2. c = pb.len /\ pb'.len = 0
    BY <1>2, <1>4, <1>5, <1>11
  <2>3. InOrder'
    <3>1. Len(given') = Len(given) /\ Len(partial') = pb.len /\ pb'.len = 0
      BY <1>4, <2>1, <2>2
    <3>2. Len(given') + Len(partial') + pb'.len = taken
      BY <1>5, <3>1
    <3>3. QED
      BY <1>5, <1>6, <2>1, <3>1, <3>2 DEF InOrder
  <2>4. PartialInRead' /\ NoNeedlessWait'
    BY <2>1, <2>2 DEF PartialInRead, NoNeedlessWait, Reading, Writing
  <2>5. SizeCovers'
    BY <2>2 DEF SizeCovers
  <2>6. QED
    BY <1>3, <1>4, <1>8, <1>9, <2>1, <2>2, <2>3, <2>4, <2>5 DEF StreamInv
<1>12. QED
  BY <1>2, <1>3, <1>10, <1>11

\* pool_read and pool_read2, as far as the pending data go.
LEMMA FromPendingStep ==
    ASSUME StreamInv, pc = "caller", NEW n \in Nat, NEW where \in Reading,
           FromPending(n, where), UNCHANGED <<taken, mark>>
    PROVE  /\ StreamInv'
           /\ pc' = "caller" \/ (pc' = where /\ Len(partial') + want' = n)
<1> DEFINE c == consumable(pb, n)
<1>1. c \in Nat /\ c <= n /\ (c = n \/ c = pb.len)
  BY ConsumeProperties DEF StreamInv, PendingOK, Consumption
<1>2. pb' = consume_pending_data(pb, n)
      /\ (Return(consumed(pb, n)) \/ (c = pb.len /\ GoOn(consumed(pb, n), n - c, where)))
  BY <1>1 DEF FromPending
<1>3. n - c \in Nat /\ c + (n - c) = n
  BY <1>1
<1> DEFINE w == n - c
<1> HIDE DEF w
<1>4. /\ StreamInv'
      /\ pc' = "caller" \/ (pc' = where /\ Len(partial') = c /\ want' = w)
  BY <1>2, <1>3, PendingTaken DEF w
<1>5. QED
  BY <1>3, <1>4 DEF w

\* mystrlen and mystrlinelen return a length of the string, all of it if there
\* is no terminator.
LEMMA StringLength ==
    ASSUME NEW str \in Seq(Byte), NEW ln \in BOOLEAN
    PROVE  /\ mystrlen(str, ln) \in 0 .. Len(str)
           /\ ~Terminated(str, ln) => mystrlen(str, ln) = Len(str)
<1>1. Len(str) \in Nat
  BY LenProperties
<1>2. CASE Ends(str, ln) = {}
  BY <1>1, <1>2 DEF mystrlen, Terminated
<1>3. CASE Ends(str, ln) # {}
  <2> DEFINE S == Ends(str, ln)
  <2>1. S \subseteq 1 .. Len(str) /\ S \subseteq Nat
    BY <1>1 DEF Ends
  <2> HIDE DEF S
  <2>2. \E x \in S : \A y \in S : x <= y
    BY <1>3, <2>1, LeastNatural DEF S
  <2>3. Min(S) \in S
    BY <2>2 DEF Min
  <2>4. QED
    BY <1>1, <1>3, <2>1, <2>3 DEF mystrlen, Terminated, S
<1>4. QED
  BY <1>2, <1>3

\* A read function gets m bytes from the socket: it keeps the first k, saves
\* the rest and returns, or keeps all of them and returns or goes on.
LEMMA SocketTaken ==
    ASSUME StreamInv, pc \in Reading, NEW m \in Nat, taken + m <= Size,
           NEW k \in 0 .. m, NEW w \in Nat,
           taken' = taken + m, mark' = mark,
           \/ /\ pb' = save_pending_data(pb, SubSeq(Received(m), k + 1, m))
              /\ Return(partial \o SubSeq(Received(m), 1, k))
           \/ pb' = pb /\ Return(partial \o Received(m))
           \/ pb' = pb /\ GoOn(partial \o Received(m), w, pc)
    PROVE  /\ StreamInv'
           /\ \/ pc' = "caller"
              \/ pc' = pc /\ Len(partial') = Len(partial) + m /\ want' = w
<1> DEFINE got == Received(m)
           head == SubSeq(got, 1, k)
           rest == SubSeq(got, k + 1, m)
           q == save_pending_data(pb, rest)
<1>1. /\ BufOK(pb) /\ pb.len = 0 /\ pb.po = 0
      /\ Run(given, 0) /\ Run(partial, Len(given)) /\ taken = Len(given) + Len(partial)
      /\ Len(given) \in Nat /\ Len(partial) \in Nat /\ taken \in Nat /\ Size \in Nat
      /\ mark \in Nat /\ mark <= Len(given)
  <2>1. /\ BufOK(pb) /\ pb.len = 0 /\ pb.po = 0 /\ mark \in Nat /\ mark <= Len(given)
        /\ Run(given, 0) /\ Run(partial, Len(given)) /\ taken = Len(given) + Len(partial) + pb.len
    BY DEF StreamInv, PendingOK, InOrder, NoNeedlessWait
  <2>2. Len(given) \in Nat /\ Len(partial) \in Nat /\ taken \in Nat /\ Size \in Nat
    BY StreamFacts
  <2>3. QED
    BY <2>1, <2>2
<1>2. Run(got, taken) /\ Len(got) = m
  BY <1>1, RunReceived
<1>3. /\ \/ pb' = q /\ Return(partial \o head)
         \/ pb' = pb /\ Return(partial \o got)
         \/ pb' = pb /\ GoOn(partial \o got, w, pc)
      /\ q = save_pending_data(pb, rest)
  OBVIOUS
<1> HIDE DEF got
<1>4. Run(head, taken) /\ Len(head) = k
  <2>1. taken \in Nat /\ Run(got, taken) /\ k \in 0 .. Len(got)
    BY <1>1, <1>2
  <2>2. QED
    BY <2>1, RunHead
<1>5. Run(rest, taken + k) /\ Len(rest) = m - k /\ rest \in Seq(Byte)
  <2>1. taken \in Nat /\ Run(got, taken) /\ k \in 0 .. Len(got) /\ Len(got) = m
    BY <1>1, <1>2
  <2>2. /\ Run(SubSeq(got, k + 1, Len(got)), taken + k)
        /\ Len(SubSeq(got, k + 1, Len(got))) = Len(got) - k
    BY <2>1, RunTail
  <2>3. QED
    BY <2>1, <2>2 DEF Run
<1> HIDE DEF head, rest, q
<1>6. ASSUME NEW s, NEW l \in Nat, Run(s, taken), Len(s) = l
      PROVE  /\ Run(partial \o s, Len(given)) /\ Len(partial \o s) = Len(partial) + l
             /\ Run(given \o (partial \o s), 0)
             /\ Len(given \o (partial \o s)) = Len(given) + Len(partial) + l
  <2>1. Run(s, Len(given) + Len(partial))
    BY <1>1, <1>6
  <2>2. Run(partial \o s, Len(given)) /\ Len(partial \o s) = Len(partial) + Len(s)
    BY <1>1, <2>1, RunConcat
  <2> DEFINE ps == partial \o s
  <2> HIDE DEF ps
  <2>3. Run(ps, 0 + Len(given)) /\ 0 \in Nat
    BY <1>1, <2>2 DEF ps
  <2>4. Run(given \o ps, 0) /\ Len(given \o ps) = Len(given) + Len(ps)
    BY <1>1, <2>3, RunConcat
  <2>5. QED
    BY <1>1, <1>6, <2>2, <2>4 DEF ps
<1>7. CASE pb' = q /\ Return(partial \o head)
  <2>1. /\ BufOK(q) /\ q.len = m - k /\ q.po + q.len <= q.bufsz
        /\ \A i \in 1 .. m - k : q.hp[q.po + 0 + i] = rest[i]
    <3>1. Saving(pb, rest, q)
      BY <1>1, <1>3, <1>5, SaveProperties
    <3>2. pb.len + Len(rest) = m - k
      BY <1>1, <1>5
    <3>3. QED
      BY <1>1, <1>5, <3>1, <3>2 DEF Saving
  <2>2. q.po = 0
    <3>1. q.po = IF pb.len = 0 THEN 0 ELSE pb.po
      BY <1>1, <1>3 DEF save_pending_data, BufOK, Buffers
    <3>2. QED
      BY <1>1, <3>1
  <2>3. q.po \in Nat /\ q.len \in Nat
    BY <2>1 DEF BufOK, Buffers
  <2>4. given' = given \o (partial \o head) /\ partial' = << >> /\ want' = 0 /\ pc' = "caller"
    BY <1>7 DEF Return
  <2>5. Run(given', 0) /\ Len(given') = taken + k
    BY <1>1, <1>4, <1>6, <2>4
  <2>6. Run(partial', Len(given')) /\ Len(partial') = 0
    BY <2>4, RunEnds
  <2>7. \A i \in 1 .. q.len : q.hp[q.po + i] = taken + k + i
    <3>1. \A i \in 1 .. m - k : rest[i] = taken + k + i
      BY <1>5 DEF Run
    <3>2. QED
      BY <2>1, <2>2, <3>1
  <2>8. InOrder'
    <3>1. Len(given') + Len(partial') = taken + k /\ taken' = taken + k + q.len
          /\ taken' \in 0 .. Size
      BY <1>1, <2>1, <2>5, <2>6
    <3>2. QED
      BY <1>7, <2>5, <2>6, <2>7, <3>1 DEF InOrder
  <2>9. PendingOK' /\ SizeCovers'
    BY <1>7, <2>1, <2>2 DEF PendingOK, SizeCovers
  <2>10. PartialInRead' /\ NoNeedlessWait'
    BY <2>4 DEF PartialInRead, NoNeedlessWait, Reading
  <2>11. mark' <= Len(given')
    BY <1>1, <2>5
  <2>12. QED
    BY <1>1, <2>4, <2>8, <2>9, <2>10, <2>11 DEF StreamInv
<1>8. CASE pb' = pb /\ Return(partial \o got)
  <2>1. given' = given \o (partial \o got) /\ partial' = << >> /\ want' = 0 /\ pc' = "caller"
    BY <1>8 DEF Return
  <2>2. Run(given', 0) /\ Len(given') = taken + m
    BY <1>1, <1>2, <1>6, <2>1
  <2>3. Run(partial', Len(given')) /\ Len(partial') = 0
    BY <2>1, RunEnds
  <2>4. InOrder'
    <3>1. taken' = Len(given') + Len(partial') + pb'.len /\ taken' \in 0 .. Size /\ pb'.len = 0
      BY <1>1, <1>8, <2>2, <2>3
    <3>2. QED
      BY <2>2, <2>3, <3>1 DEF InOrder
  <2>5. PendingOK' /\ SizeCovers'
    BY <1>1, <1>8 DEF PendingOK, SizeCovers
  <2>6. PartialInRead' /\ NoNeedlessWait'
    BY <2>1 DEF PartialInRead, NoNeedlessWait, Reading
  <2>7. mark' <= Len(given')
    BY <1>1, <2>2
  <2>8. QED
    BY <1>1, <2>1, <2>4, <2>5, <2>6, <2>7 DEF StreamInv
<1>9. CASE pb' = pb /\ GoOn(partial \o got, w, pc)
  <2>1. given' = given /\ partial' = partial \o got /\ want' = w /\ pc' = pc
    BY <1>9 DEF GoOn
  <2>2. Run(partial', Len(given')) /\ Len(partial') = Len(partial) + m
    BY <1>1, <1>2, <1>6, <2>1
  <2>3. InOrder'
    <3>1. taken' = Len(given') + Len(partial') + pb'.len /\ taken' \in 0 .. Size /\ pb'.len = 0
      BY <1>1, <1>9, <2>1, <2>2
    <3>2. QED
      BY <1>1, <2>1, <2>2, <3>1 DEF InOrder
  <2>4. PendingOK' /\ SizeCovers'
    BY <1>1, <1>9 DEF PendingOK, SizeCovers
  <2>5. PartialInRead' /\ NoNeedlessWait'
    BY <1>1, <1>9, <2>1 DEF PartialInRead, NoNeedlessWait, Reading, Writing
  <2>6. QED
    BY <1>1, <2>1, <2>2, <2>3, <2>4, <2>5 DEF StreamInv
<1>10. QED
  BY <1>3, <1>7, <1>8, <1>9

\* StartOfLast is the last boundary before the bytes handed over end.
LEMMA LastStart ==
    ASSUME Len(given) \in Nat
    PROVE  /\ StartOfLast \in Nat /\ (StartOfLast = 0 \/ StartOfLast \in Nul)
           /\ StartOfLast < Len(given) \/ StartOfLast = 0
           /\ \A b \in Nul : b < Len(given) => b <= StartOfLast
<1> DEFINE S == {0} \cup {b \in Boundaries : b < Len(given)}
           T == {Size - x : x \in S}
<1>1. Size \in Nat /\ Nul \subseteq 1 .. Size
  BY StreamAssumption
<1>2. S \subseteq 0 .. Size /\ 0 \in S
  <2>1. ASSUME NEW x \in S PROVE x \in 0 .. Size
    <3>1. x = 0 \/ x \in Nul
      BY DEF Boundaries
    <3>2. QED
      BY <1>1, <3>1
  <2>2. QED
    BY <2>1
<1>3. T \subseteq Nat /\ T # {}
  BY <1>1, <1>2
<1>4. PICK t \in T : \A u \in T : t <= u
  BY <1>3, LeastNatural
<1>5. PICK x \in S : t = Size - x
  BY <1>4
<1>6. \A y \in S : x >= y
  <2>1. ASSUME NEW y \in S PROVE x >= y
    <3>1. Size - y \in T /\ x \in 0 .. Size /\ y \in 0 .. Size
      BY <1>2
    <3>2. Size - x <= Size - y
      BY <1>4, <1>5, <3>1
    <3> HIDE DEF S
    <3>3. QED
      BY <1>1, <3>1, <3>2
  <2>2. QED
    BY <2>1
<1>7. StartOfLast = Max(S)
  BY DEF StartOfLast
<1> HIDE DEF S
<1>8. Max(S) \in S /\ \A y \in S : Max(S) >= y
  BY <1>6 DEF Max
<1>9. QED
  BY <1>1, <1>2, <1>7, <1>8 DEF S, Boundaries

\* pool_unread puts the last bytes handed over back in front of the pending
\* ones and loses none of those.
LEMMA UnreadStep ==
    ASSUME StreamInv, NEW n \in Nat, Unread(n)
    PROVE  StreamInv'
<1> DEFINE g == Len(given)
           h == Len(given) - n
           data == SubSeq(given, g - n + 1, g)
           q == pool_unread(pb, data)
<1>1. /\ g \in Nat /\ taken \in 0 .. Size /\ mark \in Nat /\ mark <= g /\ Size \in Nat
      /\ BufOK(pb) /\ pb.po \in Nat /\ pb.len \in Nat /\ pb.bufsz \in Nat
      /\ (pb.len = 0 => pb.po = 0) /\ partial = << >> /\ taken = g + pb.len
      /\ Run(given, 0) /\ given \in Seq(Byte)
  <2>1. /\ partial = << >> /\ Len(partial) = 0 /\ BufOK(pb) /\ (pb.len = 0 => pb.po = 0)
        /\ Run(given, 0) /\ taken = g + Len(partial) + pb.len /\ taken \in 0 .. Size
        /\ mark \in Nat /\ mark <= g
    BY RunEnds DEF StreamInv, PendingOK, InOrder, PartialInRead, Unread
  <2>2. QED
    BY <2>1, StreamFacts
<1>2. /\ n > 0 /\ h >= mark /\ mark' = h /\ pb' = q /\ given' = SubSeq(given, 1, h)
      /\ n <= g - StartOfLast /\ n >= g - StartOfLast - 1
      /\ UNCHANGED <<partial, want, taken, pc>> /\ pc = "caller"
  <2>1. g \in Nat /\ StartOfLast \in Nat
    BY <1>1, LastStart
  <2>2. QED
    BY <2>1 DEF Unread
<1>3. /\ StartOfLast \in Nat /\ (StartOfLast = 0 \/ StartOfLast \in Nul)
      /\ \A b \in Nul : b < g => b <= StartOfLast
  BY <1>1, LastStart
<1>4. h \in Nat /\ h = g - n /\ h >= StartOfLast /\ h <= StartOfLast + 1 /\ h < g
  BY <1>1, <1>2, <1>3, SMTT(30)
<1>5. Run(data, h) /\ Len(data) = n /\ data \in Seq(Byte)
  <2> DEFINE lo == g - n + 1
  <2>1. /\ lo \in 1 .. Len(given) + 1 /\ g \in (lo - 1) .. Len(given) /\ 0 \in Nat
        /\ data = SubSeq(given, lo, g) /\ 0 + lo - 1 = h /\ g - lo + 1 = n
    BY <1>1, <1>4
  <2> HIDE DEF lo, g, h, data
  <2>2. Run(SubSeq(given, lo, g), 0 + lo - 1) /\ Len(SubSeq(given, lo, g)) = g - lo + 1
    BY <1>1, <2>1, RunSub
  <2>3. Run(data, h) /\ Len(data) = n
    BY <2>1, <2>2
  <2>4. QED
    BY <2>3 DEF Run
<1>6. Run(given', 0) /\ Len(given') = h
  <2>1. h \in 0 .. Len(given) /\ 0 \in Nat /\ Run(given, 0)
    BY <1>1, <1>4
  <2>2. Run(SubSeq(given, 1, h), 0) /\ Len(SubSeq(given, 1, h)) = h
    BY <2>1, RunHead
  <2>3. QED
    BY <1>2, <2>2
<1>7. Unreading(pb, data, q)
  <2>1. BufOK(pb) /\ data \in Seq(Byte)
    BY <1>1, <1>5
  <2> HIDE DEF data
  <2>2. QED
    BY <2>1, UnreadProperties
<1> HIDE DEF data, q
<1>8. /\ BufOK(q) /\ q.len = pb.len + Len(data) /\ q.po = 0 /\ q.bufsz = pb.bufsz
      /\ (pb.bufsz < q.len => pb.po + pb.len <= RoundUp(q.len))
         => /\ \A i \in 1 .. Len(data) : q.hp[i] = data[i]
            /\ \A i \in 1 .. pb.len : q.hp[Len(data) + i] = pb.hp[pb.po + i]
  BY <1>7 DEF Unreading
<1>9. q.len \in Nat /\ q.len = taken - h /\ q.len = pb.len + n
  <2>1. q.len = pb.len + n
    BY <1>5, <1>8
  <2>2. g \in Nat /\ pb.len \in Nat /\ taken = g + pb.len
    BY <1>1
  <2>3. h \in Nat /\ h = g - n
    BY <1>4
  <2> HIDE DEF g, h
  <2>4. QED
    BY <2>1, <2>2, <2>3
<1> HIDE DEF g, h
<1>10. \/ pb.len = 0
       \/ pb.po + pb.len <= pb.bufsz
       \/ g - pb.po = mark /\ \A b \in Nul : b > mark => taken - b <= pb.bufsz
  <2>1. pb.len = 0 \/ pb.len > 0
    BY <1>1
  <2>2. QED
    BY <2>1 DEF StreamInv, SizeCovers, g
<1>11. \A b \in Nul : b \in Nat
  BY StreamAssumption
<1>12. pb.bufsz < q.len => pb.po + pb.len <= RoundUp(q.len)
  <2> DEFINE r == RoundUp(q.len)
  <2>1. r \in Nat /\ r > q.len
    BY <1>9, RoundUpGrows
  <2> HIDE DEF r
  <2>2. CASE pb.len = 0
    BY <1>1, <2>1, <2>2, <1>9 DEF r
  <2>3. CASE pb.po + pb.len <= pb.bufsz
    BY <1>1, <2>1, <2>3, <1>9, SMTT(30) DEF r
  <2>4. CASE g - pb.po = mark /\ \A b \in Nul : b > mark => taken - b <= pb.bufsz
    <3>1. CASE h <= mark + 1
      <4>1. pb.po + pb.len = taken - mark
        BY <1>1, <2>4, SMTT(30)
      <4>2. pb.po + pb.len <= q.len + 1
        BY <1>1, <1>4, <1>9, <3>1, <4>1, SMTT(30)
      <4>3. QED
        BY <1>1, <1>9, <2>1, <4>2, SMTT(30) DEF r
    <3>2. CASE ~(h <= mark + 1)
      <4>1. StartOfLast \in Nul /\ StartOfLast > mark
        BY <1>1, <1>3, <1>4, <3>2
      <4>2. taken - StartOfLast <= pb.bufsz
        BY <2>4, <4>1
      <4>3. q.len <= pb.bufsz
        <5>1. taken \in Int /\ h \in Int /\ pb.bufsz \in Int /\ StartOfLast \in Int
          BY <1>1, <1>3, <1>4
        <5>2. QED
          BY <1>4, <1>9, <4>2, <5>1
      <4>4. QED
        BY <1>1, <1>9, <4>3
    <3>3. QED
      BY <3>1, <3>2
  <2>5. QED
    BY <1>10, <2>2, <2>3, <2>4
<1>13. \A i \in 1 .. q.len : q.hp[q.po + i] = h + i
  <2>1. ASSUME NEW i \in 1 .. q.len PROVE q.hp[i] = h + i
    <3>1. CASE i <= n
      <4>1. i \in 1 .. Len(data)
        BY <1>5, <1>9, <3>1
      <4>2. q.hp[i] = data[i] /\ data[i] = h + i
        BY <1>5, <1>8, <1>12, <4>1 DEF Run
      <4>3. QED
        BY <4>2
    <3>2. CASE ~(i <= n)
      <4>1. i - n \in 1 .. pb.len /\ n + (i - n) = i
        BY <1>1, <1>9, <3>2
      <4>2. q.hp[n + (i - n)] = pb.hp[pb.po + (i - n)]
        BY <1>5, <1>8, <1>12, <4>1
      <4>3. pb.hp[pb.po + (i - n)] = g + (i - n)
        <5>1. Len(partial) = 0 /\ g + 0 = g
          BY <1>1, RunEnds
        <5>2. \A e \in 1 .. pb.len : pb.hp[pb.po + e] = g + Len(partial) + e
          BY DEF StreamInv, InOrder, g
        <5>3. QED
          BY <4>1, <5>1, <5>2
      <4>4. g + (i - n) = h + i
        BY <1>1, <1>4
      <4>5. QED
        BY <4>1, <4>2, <4>3, <4>4
    <3>3. QED
      BY <3>1, <3>2
  <2>2. QED
    <3>1. ASSUME NEW i \in 1 .. q.len PROVE q.po + i = i
      BY <1>8
    <3>2. QED
      BY <2>1, <3>1
<1>14. InOrder'
  <2>1. Len(partial') = 0 /\ Run(partial', Len(given'))
    BY <1>1, <1>2, RunEnds
  <2>2. Len(given') + Len(partial') = h /\ h + q.len = taken
    BY <1>1, <1>4, <1>6, <1>9, <2>1
  <2>3. QED
    BY <1>1, <1>2, <1>6, <1>13, <2>1, <2>2 DEF InOrder
<1>15. PendingOK'
  BY <1>2, <1>8 DEF PendingOK
<1>16. SizeCovers'
  <2>1. ASSUME NEW b \in Nul, b > h PROVE taken - b <= pb.bufsz
    <3>1. b \in Nat /\ b >= g
      BY <1>1, <1>3, <1>4, <1>11, <2>1
    <3>2. CASE pb.len = 0
      BY <1>1, <3>1, <3>2
    <3>3. CASE pb.po + pb.len <= pb.bufsz
      BY <1>1, <3>1, <3>3, SMTT(30)
    <3>4. CASE g - pb.po = mark /\ \A e \in Nul : e > mark => taken - e <= pb.bufsz
      <4>1. b > mark
        BY <1>1, <1>2, <1>4, <2>1, <3>1
      <4>2. QED
        BY <3>4, <4>1
    <3>5. QED
      BY <1>10, <3>2, <3>3, <3>4
  <2>2. Len(given') - q.po = mark'
    BY <1>2, <1>4, <1>6, <1>8
  <2>3. QED
    BY <1>2, <1>8, <2>1, <2>2 DEF SizeCovers
<1>17. PartialInRead' /\ NoNeedlessWait'
  BY <1>1, <1>2 DEF PartialInRead, NoNeedlessWait, Reading
<1>18. QED
  <2>1. want' \in Nat /\ mark' \in Nat /\ mark' <= Len(given')
    BY <1>2, <1>4, <1>6 DEF StreamInv
  <2>2. QED
    BY <1>14, <1>15, <1>16, <1>17, <2>1 DEF StreamInv

\* pool_read.
LEMMA ReadCallStep ==
    ASSUME StreamInv, RoomInv, NEW n \in 1 .. Size, ReadCall(n)
    PROVE  StreamInv' /\ RoomInv'
<1>1. /\ pc = "caller" /\ FromPending(n, "pool_read") /\ n \in Nat /\ "pool_read" \in Reading
      /\ UNCHANGED <<sbufsz, readsize, bufsz2, line, taken, mark>>
  BY RunEnds DEF ReadCall, Reading
<1>2. StreamInv' /\ pc' \in {"caller", "pool_read"}
  BY <1>1, FromPendingStep
<1>3. RoomInv'
  BY <1>1, <1>2 DEF RoomInv
<1>4. QED
  BY <1>2, <1>3

\* pool_read2: the packet buffer is enlarged for the request.
LEMMA Read2CallStep ==
    ASSUME StreamInv, RoomInv, NEW n \in 1 .. Size, Read2Call(n)
    PROVE  StreamInv' /\ RoomInv'
<1>1. /\ pc = "caller" /\ FromPending(n, "pool_read2") /\ n \in Nat /\ "pool_read2" \in Reading
      /\ UNCHANGED <<sbufsz, readsize, line, taken, mark>>
      /\ bufsz2' = IF pb.len + n > bufsz2 THEN RoundUp(pb.len + n + 1) ELSE bufsz2
  BY RunEnds DEF Read2Call, Reading
<1>2. StreamInv' /\ (pc' = "caller" \/ (pc' = "pool_read2" /\ Len(partial') + want' = n))
  BY <1>1, FromPendingStep
<1>3. bufsz2' \in Nat /\ bufsz2' >= n
  <2> DEFINE k == pb.len + n + 1
  <2>1. k \in Nat /\ k > n /\ pb.len \in Nat /\ bufsz2 \in Nat
    BY <1>1, StreamFacts, SMTT(30) DEF RoomInv
  <2>2. bufsz2' = IF pb.len + n > bufsz2 THEN RoundUp(k) ELSE bufsz2
    BY <1>1
  <2> HIDE DEF k
  <2>3. RoundUp(k) \in Nat /\ RoundUp(k) > k
    BY <2>1, RoundUpGrows
  <2>4. QED
    BY <1>1, <2>1, <2>2, <2>3
<1>4. RoomInv'
  BY <1>1, <1>2, <1>3 DEF RoomInv
<1>5. QED
  BY <1>2, <1>4

\* A read(2) of pool_read.
LEMMA ReadStepStep ==
    ASSUME StreamInv, RoomInv, NEW m \in 1 .. Size, ReadStep(m)
    PROVE  StreamInv' /\ RoomInv'
<1>1. /\ taken \in Nat /\ want \in Nat /\ Size \in Nat /\ READBUFSZ \in Nat /\ m \in Nat
  BY StreamFacts, StreamAssumption DEF StreamInv
<1>2. taken + m <= Size
  <2>1. m <= Min({READBUFSZ, Size - taken})
    BY DEF ReadStep
  <2>2. Min({READBUFSZ, Size - taken}) = IF READBUFSZ <= Size - taken THEN READBUFSZ
                                         ELSE Size - taken
    BY <1>1, MinMaxPair
  <2>3. QED
    BY <1>1, <2>1, <2>2
<1> DEFINE k == IF want < m THEN want ELSE m
           w == IF want < m THEN 0 ELSE want - m
<1>3. k \in 0 .. m /\ w \in Nat
  BY <1>1
<1>4. /\ pc = "pool_read" /\ taken' = taken + m /\ UNCHANGED <<sbufsz, readsize, bufsz2, line, mark>>
      /\ \/ /\ pb' = save_pending_data(pb, SubSeq(Received(m), k + 1, m))
            /\ Return(partial \o SubSeq(Received(m), 1, k))
         \/ pb' = pb /\ Return(partial \o Received(m))
         \/ pb' = pb /\ GoOn(partial \o Received(m), w, pc)
  BY DEF ReadStep
<1>5. pc \in Reading
  BY <1>4 DEF Reading
<1> HIDE DEF k, w
<1>6. StreamInv' /\ pc' \in {"caller", "pool_read"}
  BY <1>1, <1>2, <1>3, <1>4, <1>5, SocketTaken
<1>7. RoomInv'
  BY <1>4, <1>6 DEF RoomInv
<1>8. QED
  BY <1>6, <1>7

\* A read(2) of pool_read2.
LEMMA Read2StepStep ==
    ASSUME StreamInv, RoomInv, NEW m \in 1 .. Size, Read2Step(m)
    PROVE  StreamInv' /\ RoomInv'
<1>1. /\ taken \in Nat /\ want \in Nat /\ Size \in Nat /\ m \in Nat /\ Len(partial) \in Nat
  BY StreamFacts DEF StreamInv
<1>2. taken + m <= Size /\ m <= want
  <2>1. m <= Min({want, Size - taken})
    BY DEF Read2Step
  <2>2. Min({want, Size - taken}) = IF want <= Size - taken THEN want ELSE Size - taken
    BY <1>1, MinMaxPair
  <2>3. QED
    BY <1>1, <2>1, <2>2
<1> DEFINE w == want - m
<1>3. m \in 0 .. m /\ w \in Nat
  BY <1>1, <1>2
<1>4. /\ pc = "pool_read2" /\ taken' = taken + m
      /\ UNCHANGED <<sbufsz, readsize, bufsz2, line, mark>>
      /\ \/ pb' = pb /\ Return(partial \o Received(m))
         \/ pb' = pb /\ GoOn(partial \o Received(m), w, pc)
  BY DEF Read2Step
<1>5. pc \in Reading
  BY <1>4 DEF Reading
<1>6. Len(partial) + m + w = Len(partial) + want
  BY <1>1
<1> HIDE DEF w
<1>7. /\ StreamInv'
      /\ \/ pc' = "caller"
         \/ pc' = pc /\ Len(partial') = Len(partial) + m /\ want' = w
  BY <1>1, <1>2, <1>3, <1>4, <1>5, SocketTaken
<1>8. RoomInv'
  BY <1>4, <1>6, <1>7 DEF RoomInv
<1>9. QED
  BY <1>7, <1>8

\* pool_read_string, as far as the pending data go.
LEMMA ReadStringCallStep ==
    ASSUME StreamInv, RoomInv, NEW ln \in BOOLEAN, ReadStringCall(ln)
    PROVE  StreamInv' /\ RoomInv'
<1> DEFINE hpstr == Bytes(pb.hp, pb.po, pb.len)
           strlength == mystrlen(hpstr, ln)
           sz == IF sbufsz = 0 THEN READBUFSZ ELSE sbufsz
           grown == IF strlength + 1 > sz THEN RoundUp(strlength + 1) ELSE sz
<1>1. /\ BufOK(pb) /\ pb.hp \in Seq(Byte) /\ pb.po \in Nat /\ pb.len \in Nat
      /\ (pb.len = 0 => pb.po = 0)
  BY DEF StreamInv, PendingOK, BufOK, Buffers
<1>2. hpstr \in Seq(Byte) /\ Len(hpstr) = pb.len
  BY <1>1, BytesProperties DEF ReadAt
<1>3. /\ pc = "caller" /\ line' = ln /\ UNCHANGED <<bufsz2, taken, mark>>
      /\ \/ /\ pb.len # 0 /\ sbufsz' = grown /\ pb' = consume_pending_data(pb, strlength)
            /\ \/ Return(consumed(pb, strlength)) /\ readsize' = readsize
               \/ /\ ~Terminated(hpstr, ln)
                  /\ GoOn(consumed(pb, strlength), 0, "pool_read_string")
                  /\ readsize' = grown - strlength
         \/ /\ pb.len = 0 /\ sbufsz' = sz /\ pb' = pb /\ readsize' = sz
            /\ GoOn(<< >>, 0, "pool_read_string")
  BY DEF ReadStringCall
<1> HIDE DEF hpstr
<1>4. strlength \in 0 .. pb.len /\ (~Terminated(hpstr, ln) => strlength = pb.len)
  BY <1>2, StringLength
<1> HIDE DEF strlength
<1>5. strlength \in Nat /\ strlength <= pb.len
  BY <1>1, <1>4
<1>6. sz \in Nat /\ grown \in Nat /\ strlength <= grown
  <2>1. sz \in Nat
    BY StreamAssumption DEF RoomInv
  <2> HIDE DEF sz
  <2>2. RoundUp(strlength + 1) \in Nat /\ RoundUp(strlength + 1) > strlength + 1
    <3>1. strlength + 1 \in Nat
      BY <1>5
    <3>2. QED
      BY <3>1, RoundUpGrows
  <2>3. QED
    BY <1>5, <2>1, <2>2
<1> HIDE DEF sz, grown
<1>7. "pool_read_string" \in Reading
  BY DEF Reading
<1>8. CASE /\ pb.len # 0 /\ sbufsz' = grown /\ pb' = consume_pending_data(pb, strlength)
           /\ \/ Return(consumed(pb, strlength)) /\ readsize' = readsize
              \/ /\ ~Terminated(hpstr, ln)
                 /\ GoOn(consumed(pb, strlength), 0, "pool_read_string")
                 /\ readsize' = grown - strlength
  <2>1. consumable(pb, strlength) = strlength
    <3>1. consumable(pb, strlength) = IF strlength <= pb.len THEN strlength ELSE pb.len
      BY <1>1, <1>5, MinMaxPair DEF consumable
    <3>2. QED
      BY <1>5, <3>1
  <2>2. /\ StreamInv'
        /\ \/ pc' = "caller"
           \/ pc' = "pool_read_string" /\ Len(partial') = strlength
    <3>1. \/ Return(consumed(pb, strlength))
          \/ /\ consumable(pb, strlength) = pb.len
             /\ GoOn(consumed(pb, strlength), 0, "pool_read_string")
      BY <1>4, <1>8, <2>1
    <3>2. 0 \in Nat
      OBVIOUS
    <3>3. QED
      BY <1>3, <1>5, <1>7, <1>8, <2>1, <3>1, <3>2, PendingTaken
  <2>3. readsize' \in Nat
        /\ (pc' = "pool_read_string" => Len(partial') + readsize' <= sbufsz')
    <3>1. CASE Return(consumed(pb, strlength)) /\ readsize' = readsize
      BY <3>1 DEF RoomInv, Return
    <3>2. CASE pc' = "pool_read_string" /\ readsize' = grown - strlength
      BY <1>5, <1>6, <1>8, <2>2, <3>2
    <3>3. QED
      BY <1>8, <3>1, <3>2 DEF GoOn
  <2>4. RoomInv'
    BY <1>3, <1>6, <1>8, <2>2, <2>3 DEF RoomInv
  <2>5. QED
    BY <2>2, <2>4
<1>9. CASE /\ pb.len = 0 /\ sbufsz' = sz /\ pb' = pb /\ readsize' = sz
           /\ GoOn(<< >>, 0, "pool_read_string")
  <2>1. /\ given' = given /\ partial' = << >> /\ want' = 0 /\ pc' = "pool_read_string"
        /\ pb' = pb /\ pb.len = 0 /\ taken' = taken /\ mark' = mark
    BY <1>3, <1>9 DEF GoOn
  <2>2. partial = << >> /\ Len(<< >>) = 0
    BY <1>3, RunEnds DEF StreamInv, PartialInRead
  <2>3. PendingOK' /\ InOrder' /\ SizeCovers'
    BY <2>1, <2>2 DEF StreamInv, PendingOK, InOrder, SizeCovers
  <2>4. PartialInRead' /\ NoNeedlessWait'
    BY <2>1 DEF PartialInRead, NoNeedlessWait
  <2>5. StreamInv'
    BY <2>1, <2>3, <2>4 DEF StreamInv
  <2>6. RoomInv'
    BY <1>3, <1>6, <1>9, <2>1, <2>2 DEF RoomInv
  <2>7. QED
    BY <2>5, <2>6
<1>10. QED
  BY <1>3, <1>8, <1>9

\* A read(2) of pool_read_string, and the growth of its buffer.
LEMMA ReadStringStepStep ==
    ASSUME StreamInv, RoomInv, NEW m \in 1 .. Size, ReadStringStep(m)
    PROVE  StreamInv' /\ RoomInv'
<1> DEFINE got == Received(m)
           k == mystrlen(got, line)
<1>1. /\ taken \in Nat /\ Size \in Nat /\ m \in Nat /\ Len(partial) \in Nat
      /\ sbufsz \in Nat /\ readsize \in Nat /\ READBUFSZ \in Nat /\ line \in BOOLEAN
  BY StreamFacts, StreamAssumption DEF RoomInv
<1>2. taken + m <= Size /\ m <= readsize
  <2>1. m <= Min({readsize, Size - taken})
    BY DEF ReadStringStep
  <2>2. Min({readsize, Size - taken}) = IF readsize <= Size - taken THEN readsize
                                        ELSE Size - taken
    BY <1>1, MinMaxPair
  <2>3. QED
    BY <1>1, <2>1, <2>2
<1>3. /\ pc = "pool_read_string" /\ taken' = taken + m /\ UNCHANGED <<bufsz2, line, mark>>
      /\ \/ /\ pb' = save_pending_data(pb, SubSeq(Received(m), k + 1, m))
            /\ Return(partial \o SubSeq(Received(m), 1, k)) /\ UNCHANGED <<sbufsz, readsize>>
         \/ pb' = pb /\ Return(partial \o Received(m)) /\ UNCHANGED <<sbufsz, readsize>>
         \/ /\ pb' = pb /\ GoOn(partial \o Received(m), 0, pc)
            /\ readsize' = READBUFSZ
            /\ sbufsz' = IF Len(partial) + m + READBUFSZ > sbufsz
                         THEN sbufsz + READBUFSZ ELSE sbufsz
  BY DEF ReadStringStep
<1>4. k \in 0 .. m
  <2>1. got \in Seq(Byte) /\ Len(got) = m
    BY <1>1, <1>2, RunReceived DEF Run
  <2> HIDE DEF got
  <2>2. QED
    BY <1>1, <2>1, StringLength
<1> HIDE DEF k
<1>5. pc \in Reading /\ 0 \in Nat
  BY <1>3 DEF Reading
<1>6. /\ StreamInv'
      /\ \/ pc' = "caller"
         \/ pc' = pc /\ Len(partial') = Len(partial) + m /\ want' = 0
  BY <1>1, <1>2, <1>3, <1>4, <1>5, SocketTaken
<1>7. CASE UNCHANGED <<sbufsz, readsize>> /\ pc' = "caller"
  BY <1>3, <1>6, <1>7 DEF RoomInv
<1>8. CASE /\ readsize' = READBUFSZ /\ pc' = pc /\ Len(partial') = Len(partial) + m
           /\ sbufsz' = IF Len(partial) + m + READBUFSZ > sbufsz
                        THEN sbufsz + READBUFSZ ELSE sbufsz
  <2>1. Len(partial) + readsize <= sbufsz
    BY <1>3 DEF RoomInv
  <2>2. sbufsz' \in Nat /\ Len(partial') + readsize' <= sbufsz'
    BY <1>1, <1>2, <1>8, <2>1
  <2>3. RoomInv'
    BY <1>1, <1>3, <1>8, <2>2 DEF RoomInv
  <2>4. QED
    BY <1>6, <2>3
<1>9. QED
  <2>1. \/ UNCHANGED <<sbufsz, readsize>> /\ pc' = "caller"
        \/ /\ readsize' = READBUFSZ /\ pc' = pc
           /\ sbufsz' = IF Len(partial) + m + READBUFSZ > sbufsz
                        THEN sbufsz + READBUFSZ ELSE sbufsz
    BY <1>3 DEF Return, GoOn
  <2>2. "caller" # "pool_read_string"
    OBVIOUS
  <2>3. QED
    BY <1>3, <1>6, <1>7, <1>8, <2>1, <2>2

-----------------------------------------------------------------------------
(* The invariant of the writing side.                                      *)

\* The write buffer keeps its bound, pool_write's caller has that many bytes,
\* and while the link holds every byte accepted is on the wire or in the buffer.
WriteInv ==
    /\ wbuf \in Seq(1 .. OutSize) /\ wire \in Seq(1 .. OutSize)
    /\ Len(wbuf) <= WRITEBUFSZ /\ offset \in Nat /\ offset <= Len(wbuf)
    /\ todo \in Nat /\ written \in 0 .. OutSize
    /\ pc \in {"pool_write", "flush_in_write"} => written + todo <= OutSize /\ todo > 0
    /\ link => written = Len(wire) + Len(wbuf) - offset

\* The configuration and the rest of the type invariant.
PlainInv ==
    /\ isbackend \in BOOLEAN /\ master \in BOOLEAN /\ proto \in {2, 3}
    /\ link \in BOOLEAN /\ no_forward \in BOOLEAN /\ noticed \in BOOLEAN
    /\ pc \in Reading \cup Writing \cup {"caller", "failed", "exited", "closed"}

Inv == StreamInv /\ RoomInv /\ WriteInv /\ PlainInv

\* Bytes inside a buffer.
LEMMA BytesInside ==
    ASSUME NEW S, NEW s \in Seq(S), NEW at \in Nat, NEW n \in Nat, at + n <= Len(s)
    PROVE  /\ Bytes(s, at, n) \in Seq(S) /\ Len(Bytes(s, at, n)) = n
           /\ \A i \in 1 .. n : Bytes(s, at, n)[i] = s[at + i]
<1>1. Len(s) \in Nat /\ \A i \in 1 .. Len(s) : s[i] \in S
  BY ElementOfSeq, LenProperties
<1>2. \A i \in 1 .. n : at + i \in 1 .. Len(s)
  BY <1>1
<1>3. Bytes(s, at, n) \in [1 .. n -> S] /\ \A i \in 1 .. n : Bytes(s, at, n)[i] = s[at + i]
  BY <1>1, <1>2, SMTT(30) DEF Bytes
<1>4. QED
  BY <1>3, FunctionIsSeq

\* A part of a sequence from a place on, and up to one.
LEMMA BufferTail ==
    ASSUME NEW S, NEW s \in Seq(S), NEW at \in Nat, at <= Len(s)
    PROVE  /\ SubSeq(s, at + 1, Len(s)) \in Seq(S) /\ Len(SubSeq(s, at + 1, Len(s))) = Len(s) - at
           /\ \A i \in 1 .. Len(s) - at : SubSeq(s, at + 1, Len(s))[i] = s[at + i]
<1>1. Len(s) \in Nat /\ \A i \in 1 .. Len(s) : s[i] \in S
  BY ElementOfSeq, LenProperties
<1> DEFINE lo == at + 1
<1>2. lo \in Int /\ Len(s) \in Int /\ \A i \in lo .. Len(s) : s[i] \in S
  BY <1>1
<1>3. /\ SubSeq(s, lo, Len(s)) \in Seq(S)
      /\ Len(SubSeq(s, lo, Len(s))) = IF lo <= Len(s) THEN Len(s) - lo + 1 ELSE 0
      /\ \A i \in 1 .. Len(s) - lo + 1 : SubSeq(s, lo, Len(s))[i] = s[lo + i - 1]
  <2> HIDE DEF lo
  <2>1. QED
    BY <1>2, SubSeqProperties
<1>4. /\ Len(s) - lo + 1 = Len(s) - at
      /\ (IF lo <= Len(s) THEN Len(s) - lo + 1 ELSE 0) = Len(s) - at
      /\ \A i \in 1 .. Len(s) - at : lo + i - 1 = at + i
  BY <1>1
<1> HIDE DEF lo
<1>5. QED
  BY <1>3, <1>4 DEF lo

LEMMA BufferHead ==
    ASSUME NEW S, NEW s \in Seq(S), NEW n \in Nat, n <= Len(s)
    PROVE  /\ SubSeq(s, 1, n) \in Seq(S) /\ Len(SubSeq(s, 1, n)) = n
           /\ \A i \in 1 .. n : SubSeq(s, 1, n)[i] = s[i]
<1>1. Len(s) \in Nat /\ \A i \in 1 .. Len(s) : s[i] \in S
  BY ElementOfSeq, LenProperties
<1>2. 1 \in Int /\ n \in Int /\ \A i \in 1 .. n : s[i] \in S
  BY <1>1
<1>3. /\ SubSeq(s, 1, n) \in Seq(S)
      /\ Len(SubSeq(s, 1, n)) = IF 1 <= n THEN n - 1 + 1 ELSE 0
      /\ \A i \in 1 .. n - 1 + 1 : SubSeq(s, 1, n)[i] = s[1 + i - 1]
  BY <1>2, SubSeqProperties
<1>4. n - 1 + 1 = n /\ (IF 1 <= n THEN n - 1 + 1 ELSE 0) = n /\ \A i \in 1 .. n : 1 + i - 1 = i
  OBVIOUS
<1>5. QED
  BY <1>3, <1>4

\* pool_open.
LEMMA InitInv == Init => Inv
<1> SUFFICES ASSUME Init PROVE Inv
  OBVIOUS
<1>1. Size \in Nat /\ READBUFSZ \in Nat /\ WRITEBUFSZ \in Nat /\ OutSize \in Nat
  BY StreamAssumption
<1>2. malloc(READBUFSZ) \in Seq(Byte) /\ Len(malloc(READBUFSZ)) = READBUFSZ
  <2>1. malloc(READBUFSZ) \in [1 .. READBUFSZ -> Byte]
    BY <1>1, GarbageByte DEF malloc
  <2>2. QED
    BY <1>1, <2>1, FunctionIsSeq
<1>3. pb = [hp |-> malloc(READBUFSZ), alloc |-> READBUFSZ, bufsz |-> READBUFSZ,
            po |-> 0, len |-> 0]
  BY DEF Init
<1>4. BufOK(pb) /\ pb.len = 0 /\ pb.po = 0
  BY <1>1, <1>2, <1>3 DEF BufOK, Buffers
<1>5. /\ given = << >> /\ partial = << >> /\ taken = 0 /\ mark = 0 /\ want = 0 /\ pc = "caller"
      /\ wbuf = << >> /\ wire = << >> /\ offset = 0 /\ todo = 0 /\ written = 0
      /\ sbufsz = 0 /\ readsize = 0 /\ bufsz2 = 0 /\ line = FALSE
  BY DEF Init
<1>6. Run(given, 0) /\ Run(partial, 0) /\ Len(given) = 0 /\ Len(partial) = 0
  BY <1>5, RunEnds
<1>7. PendingOK /\ InOrder /\ SizeCovers
  BY <1>1, <1>4, <1>5, <1>6 DEF PendingOK, InOrder, SizeCovers
<1>8. PartialInRead /\ NoNeedlessWait
  BY <1>4, <1>5 DEF PartialInRead, NoNeedlessWait
<1>9. StreamInv
  BY <1>5, <1>6, <1>7, <1>8 DEF StreamInv
<1>10. RoomInv
  BY <1>5 DEF RoomInv
<1>11. WriteInv
  <2>1. << >> \in Seq(1 .. OutSize) /\ Len(<< >>) = 0
    BY EmptySeq
  <2>2. QED
    BY <1>1, <1>5, <2>1 DEF WriteInv
<1>12. PlainInv
  <2>1. isbackend \in BOOLEAN /\ master \in BOOLEAN
    BY Zenon DEF Init
  <2>2. QED
    BY <2>1 DEF Init, PlainInv
<1>13. QED
  BY <1>9, <1>10, <1>11, <1>12 DEF Inv

\* A step that neither writes nor enters pool_write.
LEMMA WriteFrame ==
    ASSUME WriteInv, UNCHANGED writeVars,
           pc' \in {"pool_write", "flush_in_write"} => pc \in {"pool_write", "flush_in_write"}
    PROVE  WriteInv'
  BY DEF WriteInv, writeVars

\* A step that leaves the string and packet buffers alone.
LEMMA RoomFrame ==
    ASSUME RoomInv, UNCHANGED <<sbufsz, readsize, bufsz2, line>>, pc' \notin Reading
    PROVE  RoomInv'
  BY DEF RoomInv, Reading

\* One round of pool_write's loop.
LEMMA WriteCopyStep ==
    ASSUME WriteInv, WriteCopy
    PROVE  WriteInv'
<1>1. /\ Len(wbuf) \in Nat /\ WRITEBUFSZ \in Nat /\ OutSize \in Nat /\ todo \in Nat
      /\ written \in Nat /\ Len(wire) \in Nat /\ offset \in Nat /\ pc = "pool_write"
      /\ Len(wbuf) <= WRITEBUFSZ /\ offset <= Len(wbuf) /\ written + todo <= OutSize /\ todo > 0
      /\ wbuf \in Seq(1 .. OutSize) /\ wire \in Seq(1 .. OutSize)
      /\ (link => written = Len(wire) + Len(wbuf) - offset)
  BY StreamAssumption, LenProperties DEF WriteInv, WriteCopy
<1>2. CASE Len(wbuf) >= WRITEBUFSZ
  BY <1>1, <1>2 DEF WriteCopy, WriteInv
<1>3. CASE ~(Len(wbuf) >= WRITEBUFSZ)
  <2> DEFINE n == Min({WRITEBUFSZ - Len(wbuf), todo})
             s == [i \in 1 .. n |-> written + i]
  <2>1. n = IF WRITEBUFSZ - Len(wbuf) <= todo THEN WRITEBUFSZ - Len(wbuf) ELSE todo
    <3>1. WRITEBUFSZ - Len(wbuf) \in Int /\ todo \in Int
      BY <1>1
    <3>2. QED
      BY <3>1, MinMaxPair
  <2>2. /\ wbuf' = wbuf \o s /\ written' = written + n /\ todo' = todo - n
        /\ pc' = (IF n = todo THEN "caller" ELSE pc) /\ UNCHANGED <<offset, wire, link>>
    BY <1>3 DEF WriteCopy
  <2> HIDE DEF n
  <2>3. n \in Nat /\ n <= todo /\ n <= WRITEBUFSZ - Len(wbuf) /\ n > 0
    BY <1>1, <1>3, <2>1
  <2>4. s \in Seq(1 .. OutSize) /\ Len(s) = n
    <3>1. \A i \in 1 .. n : written + i \in 1 .. OutSize
      BY <1>1, <2>3
    <3>2. s \in [1 .. n -> 1 .. OutSize]
      BY <3>1
    <3>3. QED
      BY <2>3, <3>2, FunctionIsSeq
  <2> HIDE DEF s
  <2>5. wbuf' \in Seq(1 .. OutSize) /\ Len(wbuf') = Len(wbuf) + n
    BY <1>1, <2>2, <2>4, ConcatProperties
  <2>6. /\ Len(wbuf') <= WRITEBUFSZ /\ offset' \in Nat /\ offset' <= Len(wbuf')
        /\ todo' \in Nat /\ written' \in 0 .. OutSize /\ written' + todo' <= OutSize
        /\ (link' => written' = Len(wire') + Len(wbuf') - offset')
    <3>1. /\ Len(wbuf) \in Nat /\ todo \in Nat /\ written \in Nat /\ Len(wire) \in Nat
          /\ offset \in Nat /\ offset <= Len(wbuf) /\ written + todo <= OutSize
          /\ WRITEBUFSZ \in Nat /\ OutSize \in Nat
      BY <1>1
    <3>2. /\ written' = written + n /\ todo' = todo - n /\ offset' = offset
          /\ Len(wire') = Len(wire) /\ link' = link
      BY <2>2
    <3>3. Len(wbuf') = Len(wbuf) + n
      BY <2>5
    <3>4. /\ Len(wbuf') <= WRITEBUFSZ /\ offset' \in Nat /\ offset' <= Len(wbuf')
          /\ todo' \in Nat /\ written' \in 0 .. OutSize /\ written' + todo' <= OutSize
      BY <2>3, <3>1, <3>2, <3>3
    <3>5. ASSUME link' PROVE written' = Len(wire') + Len(wbuf') - offset'
      <4>1. written = Len(wire) + Len(wbuf) - offset
        BY <1>1, <3>2, <3>5
      <4>2. QED
        BY <2>3, <3>1, <3>2, <3>3, <4>1
    <3>6. QED
      BY <3>4, <3>5
  <2>7. pc' \in {"pool_write", "flush_in_write"} => todo' > 0
    BY <1>1, <2>2, <2>3
  <2>8. QED
    BY <1>1, <2>2, <2>5, <2>6, <2>7 DEF WriteInv
<1>4. QED
  BY <1>2, <1>3

\* One write(2) of pool_flush_it.
LEMMA FlushStepStep ==
    ASSUME WriteInv, NEW sts \in 1 .. OutSize, FlushStep(sts)
    PROVE  WriteInv'
<1> DEFINE wlen == Len(wbuf) - offset
           out == Bytes(wbuf, offset, sts)
<1>1. /\ Len(wbuf) \in Nat /\ Len(wire) \in Nat /\ offset \in Nat /\ sts \in Nat
      /\ WRITEBUFSZ \in Nat /\ Len(wbuf) <= WRITEBUFSZ /\ written \in Nat
      /\ offset <= Len(wbuf) /\ sts <= wlen /\ link
      /\ wbuf \in Seq(1 .. OutSize) /\ wire \in Seq(1 .. OutSize)
      /\ written = Len(wire) + Len(wbuf) - offset
  BY StreamAssumption, LenProperties DEF WriteInv, FlushStep
<1>2. /\ wire' = wire \o out /\ UNCHANGED <<todo, written, link>>
      /\ pc \in {"flush_in_write", "pool_flush"}
      /\ \/ /\ sts = wlen /\ wbuf' = << >> /\ offset' = 0
            /\ pc' = IF pc = "pool_flush" THEN "caller" ELSE "pool_write"
         \/ sts # wlen /\ offset' = offset + sts /\ UNCHANGED <<wbuf, pc>>
  BY DEF FlushStep
<1>3. out \in Seq(1 .. OutSize) /\ Len(out) = sts
  BY <1>1, BytesInside
<1> HIDE DEF out
<1>4. wire' \in Seq(1 .. OutSize) /\ Len(wire') = Len(wire) + sts
  <2>1. wire \in Seq(1 .. OutSize)
    BY <1>1
  <2>2. wire \o out \in Seq(1 .. OutSize) /\ Len(wire \o out) = Len(wire) + Len(out)
    BY <1>3, <2>1, ConcatProperties
  <2>3. QED
    BY <1>2, <1>3, <2>2
<1>5. pc' \in {"pool_write", "flush_in_write"} => pc = "flush_in_write"
  BY <1>2
<1>6. CASE sts = wlen /\ wbuf' = << >> /\ offset' = 0
  <2>1. wbuf' \in Seq(1 .. OutSize) /\ Len(wbuf') = 0
    BY <1>6, EmptySeq
  <2>2. /\ Len(wbuf') <= WRITEBUFSZ /\ offset' \in Nat /\ offset' <= Len(wbuf')
        /\ (link' => written' = Len(wire') + Len(wbuf') - offset')
    BY <1>1, <1>2, <1>4, <1>6, <2>1
  <2>3. QED
    BY <1>2, <1>4, <1>5, <2>1, <2>2 DEF WriteInv
<1>7. CASE offset' = offset + sts /\ UNCHANGED wbuf
  <2>1. /\ offset' \in Nat /\ offset' <= Len(wbuf')
        /\ (link' => written' = Len(wire') + Len(wbuf') - offset')
    BY <1>1, <1>2, <1>4, <1>7
  <2>2. QED
    BY <1>1, <1>2, <1>4, <1>5, <1>7, <2>1 DEF WriteInv
<1>8. QED
  BY <1>2, <1>6, <1>7

\* A step of the reading side leaves the writing side and the configuration.
LEMMA ReadingKeepsRest ==
    ASSUME Inv, StreamInv', RoomInv', UNCHANGED <<cfgVars, writeVars>>, noticed' \in BOOLEAN,
           pc' \in Reading \cup {"caller", "failed", "exited"}
    PROVE  Inv'
<1>1. WriteInv'
  <2>1. pc' \notin {"pool_write", "flush_in_write"}
    BY DEF Reading
  <2>2. QED
    BY <2>1, WriteFrame DEF Inv
<1>2. PlainInv'
  BY DEF Inv, PlainInv, cfgVars, writeVars
<1>3. QED
  BY <1>1, <1>2 DEF Inv

\* Every step keeps the invariant.
LEMMA NextInv == Inv /\ [Next]_vars => Inv'
<1> SUFFICES ASSUME Inv, [Next]_vars PROVE Inv'
  OBVIOUS
<1>1. StreamInv /\ RoomInv /\ WriteInv /\ PlainInv
  BY DEF Inv
<1>2. ASSUME NEW n \in 1 .. Size,
             \/ ReadCall(n) \/ Read2Call(n) \/ Unread(n)
             \/ ReadStep(n) \/ Read2Step(n) \/ ReadStringStep(n)
      PROVE  Inv'
  <2>1. n \in Nat
    BY StreamAssumption
  <2>2. CASE ReadCall(n)
    <3>1. StreamInv' /\ RoomInv'
      BY <1>1, <2>2, ReadCallStep
    <3>2. UNCHANGED <<cfgVars, writeVars, noticed>> /\ pc' \in {"caller", "pool_read"}
      BY <2>2 DEF ReadCall, FromPending, Return, GoOn
    <3>3. QED
      BY <1>1, <3>1, <3>2, ReadingKeepsRest DEF Reading, PlainInv
  <2>3. CASE Read2Call(n)
    <3>1. StreamInv' /\ RoomInv'
      BY <1>1, <2>3, Read2CallStep
    <3>2. UNCHANGED <<cfgVars, writeVars, noticed>> /\ pc' \in {"caller", "pool_read2"}
      BY <2>3 DEF Read2Call, FromPending, Return, GoOn
    <3>3. QED
      BY <1>1, <3>1, <3>2, ReadingKeepsRest DEF Reading, PlainInv
  <2>4. CASE Unread(n)
    <3>1. StreamInv'
      BY <1>1, <2>1, <2>4, UnreadStep
    <3>2. /\ UNCHANGED <<cfgVars, writeVars, noticed>> /\ pc' = "caller"
          /\ UNCHANGED <<sbufsz, readsize, bufsz2, line>>
      BY <2>4 DEF Unread
    <3>3. RoomInv'
      BY <1>1, <3>2, RoomFrame DEF Reading
    <3>4. QED
      BY <1>1, <3>1, <3>2, <3>3, ReadingKeepsRest DEF PlainInv
  <2>5. CASE ReadStep(n)
    <3>1. StreamInv' /\ RoomInv'
      BY <1>1, <2>5, ReadStepStep
    <3>2. UNCHANGED <<cfgVars, writeVars, noticed>> /\ pc' \in {"caller", "pool_read"}
      BY <2>5 DEF ReadStep, Return, GoOn
    <3>3. QED
      BY <1>1, <3>1, <3>2, ReadingKeepsRest DEF Reading, PlainInv
  <2>6. CASE Read2Step(n)
    <3>1. StreamInv' /\ RoomInv'
      BY <1>1, <2>6, Read2StepStep
    <3>2. UNCHANGED <<cfgVars, writeVars, noticed>> /\ pc' \in {"caller", "pool_read2"}
      BY <2>6 DEF Read2Step, Return, GoOn
    <3>3. QED
      BY <1>1, <3>1, <3>2, ReadingKeepsRest DEF Reading, PlainInv
  <2>7. CASE ReadStringStep(n)
    <3>1. StreamInv' /\ RoomInv'
      BY <1>1, <2>7, ReadStringStepStep
    <3>2. UNCHANGED <<cfgVars, writeVars, noticed>> /\ pc' \in {"caller", "pool_read_string"}
      BY <2>7 DEF ReadStringStep, Return, GoOn
    <3>3. QED
      BY <1>1, <3>1, <3>2, ReadingKeepsRest DEF Reading, PlainInv
  <2>8. QED
    BY <1>2, <2>2, <2>3, <2>4, <2>5, <2>6, <2>7
<1>3. ASSUME NEW ln \in BOOLEAN, ReadStringCall(ln) PROVE Inv'
  <2>1. StreamInv' /\ RoomInv'
    BY <1>1, <1>3, ReadStringCallStep
  <2>2. UNCHANGED <<cfgVars, writeVars, noticed>> /\ pc' \in {"caller", "pool_read_string"}
    BY <1>3 DEF ReadStringCall, Return, GoOn
  <2>3. QED
    BY <1>1, <2>1, <2>2, ReadingKeepsRest DEF Reading, PlainInv
<1>4. CASE NotReady \/ Eof \/ ReadError
  <2>1. /\ UNCHANGED <<cfgVars, readVars, writeVars>> /\ pc' \in {"failed", "exited"}
        /\ noticed' \in BOOLEAN
    BY <1>1, <1>4 DEF NotReady, Eof, ReadError, PlainInv
  <2>2. pc' \notin Reading /\ pc' \notin {"caller"} \cup Writing
    BY <2>1 DEF Reading, Writing
  <2>3. StreamInv'
    BY <1>1, <2>1, <2>2, StreamFrame
  <2>4. RoomInv'
    BY <1>1, <2>1, <2>2, RoomFrame DEF readVars
  <2>5. QED
    BY <2>1, <2>3, <2>4, ReadingKeepsRest
<1>5. ASSUME UNCHANGED <<cfgVars, readVars>>, WriteInv',
             pc \in {"caller", "failed"} \cup Writing,
             \/ pc' \in {"closed", "exited"}
             \/ pc' \in {"caller"} \cup Writing /\ pc \in {"caller"} \cup Writing,
             link' \in BOOLEAN, no_forward' \in BOOLEAN, noticed' \in BOOLEAN
      PROVE  Inv'
  <2>1. pc' \notin Reading
    BY <1>5 DEF Reading, Writing
  <2>2. StreamInv'
    BY <1>1, <1>5, <2>1, StreamFrame DEF Writing
  <2>3. RoomInv'
    BY <1>1, <1>5, <2>1, RoomFrame DEF readVars
  <2>4. PlainInv'
    BY <1>1, <1>5 DEF PlainInv, cfgVars
  <2>5. QED
    BY <1>5, <2>2, <2>3, <2>4 DEF Inv
<1>6. ASSUME NEW n \in 1 .. OutSize, WriteCall(n) PROVE Inv'
  <2>1. /\ UNCHANGED <<cfgVars, readVars, noticed, wbuf, offset, written, wire, link, no_forward>>
        /\ pc = "caller" /\ written + n <= OutSize
        /\ \/ pc' = "caller" /\ todo' = todo
           \/ pc' = "pool_write" /\ todo' = n
    BY <1>6 DEF WriteCall
  <2>2. n \in Nat /\ n > 0
    BY StreamAssumption
  <2>3. WriteInv'
    BY <1>1, <2>1, <2>2 DEF WriteInv
  <2>4. QED
    BY <1>1, <1>5, <2>1, <2>3 DEF Writing, PlainInv
<1>7. ASSUME NEW n \in 1 .. OutSize, FlushStep(n) PROVE Inv'
  <2>1. /\ UNCHANGED <<cfgVars, readVars, noticed, link, no_forward>>
        /\ pc \in {"flush_in_write", "pool_flush"}
        /\ pc' \in {"caller", "pool_write", "flush_in_write", "pool_flush"}
    BY <1>7 DEF FlushStep
  <2>2. WriteInv'
    BY <1>1, <1>7, FlushStepStep
  <2>3. QED
    BY <1>1, <1>5, <2>1, <2>2 DEF Writing, PlainInv
<1>8. CASE WriteCopy
  <2>1. /\ UNCHANGED <<cfgVars, readVars, noticed, link, no_forward>> /\ pc = "pool_write"
        /\ pc' \in {"caller", "pool_write", "flush_in_write"}
    BY <1>8 DEF WriteCopy
  <2>2. WriteInv'
    BY <1>1, <1>8, WriteCopyStep
  <2>3. QED
    BY <1>1, <1>5, <2>1, <2>2 DEF Writing, PlainInv
<1>9. CASE FlushCall
  <2>1. /\ UNCHANGED <<cfgVars, readVars, writeVars, noticed>> /\ pc = "caller"
        /\ pc' \in {"caller", "pool_flush"}
    BY <1>9 DEF FlushCall
  <2>2. WriteInv'
    BY <1>1, <2>1, WriteFrame
  <2>3. QED
    BY <1>1, <1>5, <2>1, <2>2 DEF Writing, PlainInv, writeVars
<1>10. CASE FlushError
  <2>1. /\ UNCHANGED <<cfgVars, readVars, written, wire, no_forward>>
        /\ pc \in {"flush_in_write", "pool_flush"} /\ pc' \in {"caller", "exited"}
        /\ link' = FALSE /\ wbuf' = << >> /\ offset' = 0 /\ todo' = 0
    BY <1>10 DEF FlushError
  <2>2. noticed' \in BOOLEAN
    BY <1>1, <1>10 DEF FlushError, PlainInv
  <2>3. WriteInv'
    <3>1. << >> \in Seq(1 .. OutSize) /\ Len(<< >>) = 0 /\ 0 <= WRITEBUFSZ
      BY EmptySeq, StreamAssumption
    <3>2. QED
      BY <1>1, <2>1, <3>1 DEF WriteInv
  <2>4. QED
    BY <1>1, <1>5, <2>1, <2>2, <2>3 DEF Writing, PlainInv
<1>11. CASE StartReset
  <2>1. /\ UNCHANGED <<cfgVars, readVars, noticed, pc, wbuf, offset, todo, written, wire, link>>
        /\ pc = "caller" /\ no_forward' = TRUE
    BY <1>11 DEF StartReset
  <2>2. WriteInv'
    BY <1>1, <2>1 DEF WriteInv
  <2>3. QED
    BY <1>1, <1>5, <2>1, <2>2 DEF Writing, PlainInv
<1>12. CASE pool_close
  <2>1. /\ UNCHANGED <<cfgVars, readVars, writeVars, noticed>> /\ pc \in {"caller", "failed"}
        /\ pc' = "closed"
    BY <1>12 DEF pool_close
  <2>2. WriteInv'
    BY <1>1, <2>1, WriteFrame
  <2>3. QED
    BY <1>1, <1>5, <2>1, <2>2 DEF Writing, PlainInv, writeVars
<1>13. CASE UNCHANGED vars
  <2>1. UNCHANGED <<cfgVars, readVars, writeVars, noticed, pc>>
    BY <1>13 DEF vars
  <2>2. StreamInv'
    BY <1>1, <2>1 DEF StreamInv, PendingOK, InOrder, PartialInRead, NoNeedlessWait, SizeCovers,
                      readVars
  <2>3. RoomInv' /\ WriteInv' /\ PlainInv'
    BY <1>1, <2>1 DEF RoomInv, WriteInv, PlainInv, readVars, writeVars, cfgVars
  <2>4. QED
    BY <2>2, <2>3 DEF Inv
<1>14. QED
  BY <1>2, <1>3, <1>4, <1>6, <1>7, <1>8, <1>9, <1>10, <1>11, <1>12, <1>13 DEF Next

-----------------------------------------------------------------------------
(* Theorems.                                                               *)

LEMMA Invariance == Spec => []Inv
  BY InitInv, NextInv, PTL DEF Spec

\* The variables of pool_stream.c keep their types, and no byte is read from
\* outside the peer's stream.
THEOREM TypeCorrect == Spec => []TypeOK
<1>1. Inv => TypeOK
  <2> SUFFICES ASSUME Inv PROVE TypeOK
    OBVIOUS
  <2>1. StreamInv /\ RoomInv /\ WriteInv /\ PlainInv
    BY DEF Inv
  <2>2. /\ pb \in [hp : Seq(Byte), alloc : Nat, bufsz : Nat, po : Nat, len : Nat]
        /\ taken \in 0 .. Size /\ mark \in Nat /\ want \in Nat
    BY <2>1 DEF StreamInv, PendingOK, BufOK, Buffers, InOrder
  <2>3. given \in Seq(Byte) /\ partial \in Seq(Byte)
    BY <2>1, StreamFacts
  <2>4. QED
    BY <2>1, <2>2, <2>3 DEF TypeOK, RoomInv, WriteInv, PlainInv
<1>2. QED
  BY <1>1, Invariance, PTL

\* No copy of pool_stream.c leaves the buffer it goes to, although pool_unread
\* does not record the size it reallocates the pending buffer to.
THEOREM BuffersRespected == Spec => []NoOverrun
<1>1. Inv => NoOverrun
  BY DEF Inv, StreamInv, PendingOK, BufOK, RoomInv, WriteInv, NoOverrun
<1>2. QED
  BY <1>1, Invariance, PTL

\* No read function sleeps in select(2) while it owes the caller pending bytes.
THEOREM PendingFirst == Spec => []NoNeedlessWait
<1>1. Inv => NoNeedlessWait
  BY DEF Inv, StreamInv
<1>2. QED
  BY <1>1, Invariance, PTL

-----------------------------------------------------------------------------
(* The refinement of ByteStream.                                           *)

\* The refinement mapping.
Inbound == partial \o Bytes(pb.hp, pb.po, pb.len) \o SubSeq(Input, taken + 1, Size)
Outbound == IF link THEN SubSeq(wbuf, offset + 1, Len(wbuf)) ELSE << >>

\* What is still to come for the caller is the rest of the peer's stream.
RestToCome == /\ Run(Inbound, Len(given)) /\ Len(Inbound) = Size - Len(given)
              /\ Run(given, 0) /\ Len(given) \in Nat /\ Len(given) <= Size /\ Size \in Nat

\* It follows from the order of the pieces.
LEMMA InboundIsRest == StreamInv => RestToCome
<1> SUFFICES ASSUME StreamInv PROVE RestToCome
  OBVIOUS
<1> DEFINE g == Len(given)
           p == Len(partial)
           d == Bytes(pb.hp, pb.po, pb.len)
           rest == SubSeq(Input, taken + 1, Size)
<1>1. /\ g \in Nat /\ p \in Nat /\ pb.len \in Nat /\ taken \in Nat /\ pb.po \in Nat
      /\ Size \in Nat /\ taken = g + p + pb.len /\ taken <= Size
  <2>1. taken = g + p + pb.len /\ taken \in 0 .. Size
    BY DEF StreamInv, InOrder
  <2>2. QED
    BY <2>1, StreamFacts
<1>2. Run(d, g + p) /\ Len(d) = pb.len
  <2>1. pb.hp \in Seq(Byte) /\ pb.po + pb.len <= Len(pb.hp)
    BY DEF StreamInv, PendingOK, BufOK, Buffers
  <2>2. /\ d \in Seq(Byte) /\ Len(d) = pb.len
        /\ \A i \in 1 .. pb.len : d[i] = pb.hp[pb.po + i]
    <3>1. /\ d \in Seq(Byte) /\ Len(d) = pb.len
          /\ \A i \in 1 .. pb.len : pb.po + i <= Len(pb.hp) => d[i] = pb.hp[pb.po + i]
      <4>1. ReadAt(pb.hp, pb.po, pb.len, d)
        BY <1>1, <2>1, BytesProperties
      <4> HIDE DEF d
      <4>2. QED
        BY <4>1 DEF ReadAt
    <3>2. \A i \in 1 .. pb.len : pb.po + i <= Len(pb.hp)
      <4>1. Len(pb.hp) \in Nat
        BY <2>1, LenProperties
      <4>2. QED
        BY <1>1, <2>1, <4>1, SMTT(30)
    <3>3. QED
      BY <3>1, <3>2
  <2>3. \A i \in 1 .. pb.len : pb.hp[pb.po + i] = g + p + i
    BY DEF StreamInv, InOrder
  <2> HIDE DEF d, g, p
  <2>4. QED
    BY <2>2, <2>3 DEF Run
<1>3. Run(rest, taken) /\ Len(rest) = Size - taken
  <2>1. Run(Input, 0) /\ Len(Input) = Size /\ 0 \in Nat
    BY RunEnds
  <2>2. taken \in 0 .. Len(Input) /\ 0 + taken = taken
    BY <1>1, <2>1
  <2>3. /\ Run(SubSeq(Input, taken + 1, Len(Input)), 0 + taken)
        /\ Len(SubSeq(Input, taken + 1, Len(Input))) = Len(Input) - taken
    BY <2>1, <2>2, RunTail
  <2>4. QED
    BY <2>1, <2>2, <2>3
<1>4. Run(partial, g) /\ Run(given, 0)
  BY DEF StreamInv, InOrder
<1> HIDE DEF d, rest
<1>5. Run(partial \o d, g) /\ Len(partial \o d) = p + pb.len
  BY <1>1, <1>2, <1>4, RunConcat
<1> DEFINE pd == partial \o d
<1>6. Run(rest, g + Len(pd)) /\ Run(pd, g)
  <2>1. g + Len(pd) = taken
    BY <1>1, <1>5
  <2>2. QED
    BY <1>3, <1>5, <2>1
<1>7. Inbound = pd \o rest
  BY DEF Inbound, d, rest
<1> HIDE DEF pd, g, p
<1>8. Len(pd) + Len(rest) = Size - g
  <2>1. Len(pd) = p + pb.len
    BY <1>5 DEF pd
  <2>2. Len(rest) = Size - taken
    BY <1>3
  <2>3. (p + pb.len) + (Size - taken) = Size - g
    BY <1>1
  <2>4. QED
    BY <2>1, <2>2, <2>3
<1>9. Run(pd \o rest, g) /\ Len(pd \o rest) = Len(pd) + Len(rest)
  BY <1>1, <1>6, RunConcat
<1>10. QED
  <2>1. g <= Size
    BY <1>1
  <2>2. QED
    BY <1>1, <1>4, <1>7, <1>8, <1>9, <2>1 DEF RestToCome, g

\* Whatever a step of the reading side does, the caller is given the next bytes
\* of the stream, or its last bytes are put back, or neither.
LEMMA ReadingRefines ==
    ASSUME StreamInv, StreamInv', UNCHANGED <<wbuf, offset, wire, link>>
    PROVE  [Abstract!Next]_(Abstract!vars)
<1> DEFINE a == Len(given)
           b == Len(given')
<1>1. /\ Run(Inbound, a) /\ Len(Inbound) = Size - a /\ Run(given, 0)
      /\ a \in Nat /\ a <= Size /\ Size \in Nat
  BY InboundIsRest DEF RestToCome
<1>2. /\ Run(Inbound', b) /\ Len(Inbound') = Size - b /\ Run(given', 0)
      /\ b \in Nat /\ b <= Size
  <2>1. RestToCome'
    BY InboundIsRest, PTL
  <2>2. QED
    BY <2>1 DEF RestToCome
<1>3. Outbound' = Outbound /\ wire' = wire /\ link' = link
  BY DEF Outbound
<1> DEFINE in == Inbound
           in2 == Inbound'
<1>4. /\ Run(in, a) /\ Len(in) = Size - a /\ Run(in2, b) /\ Len(in2) = Size - b
  BY <1>1, <1>2
<1> HIDE DEF a, b, in, in2
<1>5. CASE b > a
  <2> DEFINE n == b - a
  <2>1. n \in 1 .. Len(in) /\ n \in Nat
    BY <1>1, <1>2, <1>4, <1>5
  <2>2. given' = given \o SubSeq(in, 1, n)
    <3> DEFINE s == SubSeq(in, 1, n)
    <3>1. n \in 0 .. Len(in)
      BY <1>1, <1>4, <2>1
    <3>2. Run(s, a) /\ Len(s) = n
      BY <1>1, <1>4, <3>1, RunHead
    <3>3. a = 0 + Len(given) /\ 0 \in Nat
      BY <1>1 DEF a
    <3>4. Run(s, 0 + Len(given)) /\ Len(s) = n
      BY <3>2, <3>3
    <3> HIDE DEF s
    <3>5. Run(given \o s, 0) /\ Len(given \o s) = Len(given) + Len(s)
      BY <1>1, <3>3, <3>4, RunConcat
    <3>6. Len(given \o s) = Len(given')
      <4>1. Len(given) + n = b
        BY <1>1, <1>2 DEF a
      <4>2. QED
        BY <3>4, <3>5, <4>1 DEF b
    <3>7. given' = given \o s
      BY <1>2, <3>5, <3>6, RunUnique
    <3>8. QED
      BY <3>7 DEF s
  <2>3. in2 = SubSeq(in, n + 1, Len(in))
    <3> DEFINE s == SubSeq(in, n + 1, Len(in))
    <3>1. n \in 0 .. Len(in) /\ a + n = b /\ Len(in) - n = Size - b
      BY <1>1, <1>2, <1>4, <2>1
    <3> HIDE DEF n
    <3>2. Run(s, a + n) /\ Len(s) = Len(in) - n
      <4>1. a \in Nat /\ Run(in, a)
        BY <1>1, <1>4
      <4>2. QED
        BY <3>1, <4>1, RunTail
    <3>3. Run(s, b) /\ Len(s) = Len(in2)
      BY <1>4, <3>1, <3>2
    <3> HIDE DEF s
    <3>4. in2 = s
      BY <1>4, <3>3, RunUnique
    <3>5. QED
      BY <3>4 DEF s
  <2> HIDE DEF n
  <2>4. Abstract!Deliver
    BY <1>3, <2>1, <2>2, <2>3 DEF Abstract!Deliver, in, in2, Inbound, Outbound
  <2>5. QED
    BY <2>4 DEF Abstract!Next
<1>6. CASE b < a
  <2> DEFINE n == a - b
  <2>1. n \in 1 .. Len(given) /\ n \in Nat /\ Len(given) - n = b
    BY <1>1, <1>2, <1>6 DEF a
  <2>2. given' = SubSeq(given, 1, Len(given) - n)
    <3> DEFINE s == SubSeq(given, 1, b)
    <3>1. b \in 0 .. Len(given) /\ 0 \in Nat
      BY <1>1, <1>2, <1>6 DEF a
    <3>2. Run(s, 0) /\ Len(s) = b
      BY <1>1, <3>1, RunHead
    <3>3. Run(s, 0) /\ Len(s) = Len(given')
      BY <3>2 DEF b
    <3> HIDE DEF s
    <3>4. given' = s
      BY <1>2, <3>3, RunUnique
    <3>5. QED
      BY <2>1, <3>4 DEF s
  <2>3. in2 = SubSeq(given, Len(given) - n + 1, Len(given)) \o in
    <3> DEFINE lo == Len(given) - n + 1
               s == SubSeq(given, lo, Len(given))
    <3>1. lo \in 1 .. Len(given) + 1 /\ Len(given) \in (lo - 1) .. Len(given) /\ 0 \in Nat
          /\ 0 + lo - 1 = b /\ Len(given) - lo + 1 = n /\ b + n = a /\ n + (Size - a) = Size - b
      BY <1>1, <1>2, <1>6, <2>1 DEF a
    <3> HIDE DEF lo, n
    <3>2. Run(s, 0 + lo - 1) /\ Len(s) = Len(given) - lo + 1
      BY <1>1, <3>1, RunSub
    <3>3. Run(s, b) /\ Len(s) = n
      BY <3>1, <3>2
    <3> HIDE DEF s
    <3>4. Run(in, b + Len(s))
      BY <1>4, <3>1, <3>3
    <3>5. Run(s \o in, b) /\ Len(s \o in) = Len(s) + Len(in)
      BY <1>2, <3>3, <3>4, RunConcat
    <3>6. Len(s \o in) = Len(in2)
      BY <1>4, <3>1, <3>3, <3>5
    <3>7. in2 = s \o in
      BY <1>4, <3>5, <3>6, RunUnique
    <3>8. QED
      BY <3>7 DEF s, lo
  <2> HIDE DEF n
  <2>4. Abstract!PutBack
    BY <1>3, <2>1, <2>2, <2>3 DEF Abstract!PutBack, in, in2, Inbound, Outbound
  <2>5. QED
    BY <2>4 DEF Abstract!Next
<1>7. CASE a = b
  <2>1. given' = given /\ in2 = in
    BY <1>1, <1>2, <1>4, <1>7, RunUnique DEF a, b
  <2>2. UNCHANGED Abstract!vars
    BY <1>3, <2>1 DEF Abstract!vars, in, in2, Inbound, Outbound
  <2>3. QED
    BY <2>2
<1>8. QED
  BY <1>1, <1>2, <1>5, <1>6, <1>7

\* One round of pool_write's loop accepts bytes for the peer, which are numbered
\* in the order in which they are written.
LEMMA WriteCopyRefines ==
    ASSUME WriteInv, StreamInv, WriteCopy, UNCHANGED Inbound
    PROVE  [Abstract!Next]_(Abstract!vars)
<1>1. /\ Len(wbuf) \in Nat /\ WRITEBUFSZ \in Nat /\ todo \in Nat
      /\ written \in Nat /\ Len(wire) \in Nat /\ offset \in Nat
      /\ Len(wbuf) <= WRITEBUFSZ /\ offset <= Len(wbuf) /\ todo > 0
      /\ wbuf \in Seq(1 .. OutSize) /\ OutSize \in Nat
      /\ written + todo <= OutSize
      /\ (link => written = Len(wire) + Len(wbuf) - offset)
      /\ UNCHANGED <<given, offset, wire, link>>
  BY StreamAssumption, LenProperties DEF WriteInv, WriteCopy, readVars
<1>2. CASE ~link \/ Len(wbuf) >= WRITEBUFSZ
  <2>1. Outbound' = Outbound
    <3>1. CASE ~link
      BY <1>1, <3>1 DEF Outbound
    <3>2. CASE Len(wbuf) >= WRITEBUFSZ
      BY <1>1, <3>2 DEF Outbound, WriteCopy
    <3>3. QED
      BY <1>2, <3>1, <3>2
  <2>2. QED
    BY <1>1, <2>1 DEF Abstract!vars, Inbound, Outbound
<1>3. CASE link /\ ~(Len(wbuf) >= WRITEBUFSZ)
  <2> DEFINE n == Min({WRITEBUFSZ - Len(wbuf), todo})
             s == [i \in 1 .. n |-> written + i]
             o == Len(wbuf) - offset
             out == SubSeq(wbuf, offset + 1, Len(wbuf))
             out2 == SubSeq(wbuf', offset + 1, Len(wbuf'))
  <2>1. n = IF WRITEBUFSZ - Len(wbuf) <= todo THEN WRITEBUFSZ - Len(wbuf) ELSE todo
    <3>1. WRITEBUFSZ - Len(wbuf) \in Int /\ todo \in Int
      BY <1>1
    <3>2. QED
      BY <3>1, MinMaxPair
  <2>2. wbuf' = wbuf \o s
    BY <1>3 DEF WriteCopy
  <2> HIDE DEF n
  <2>3. n \in Nat /\ n > 0 /\ n <= todo
    BY <1>1, <1>3, <2>1
  <2>4. s \in Seq(1 .. OutSize) /\ Len(s) = n /\ \A i \in 1 .. n : s[i] = written + i
    <3>1. \A i \in 1 .. n : written + i \in 1 .. OutSize
      BY <1>1, <2>3
    <3>2. s \in [1 .. n -> 1 .. OutSize]
      BY <3>1
    <3>3. QED
      BY <2>3, <3>2, FunctionIsSeq
  <2> HIDE DEF s
  <2>5. /\ wbuf' \in Seq(1 .. OutSize) /\ Len(wbuf') = Len(wbuf) + n
        /\ \A i \in 1 .. Len(wbuf) + n : wbuf'[i] = IF i <= Len(wbuf) THEN wbuf[i]
                                                    ELSE s[i - Len(wbuf)]
    BY <1>1, <2>2, <2>4, ConcatProperties
  <2>6. o \in Nat
    BY <1>1
  <2>7. Len(out) = o /\ \A i \in 1 .. o : out[i] = wbuf[offset + i]
    BY <1>1, BufferTail
  <2>8. /\ out2 \in Seq(1 .. OutSize) /\ Len(out2) = o + n
        /\ \A i \in 1 .. o + n : out2[i] = wbuf'[offset + i]
    <3>1. offset <= Len(wbuf') /\ Len(wbuf') - offset = o + n
      BY <1>1, <2>3, <2>5
    <3>2. /\ out2 \in Seq(1 .. OutSize) /\ Len(out2) = Len(wbuf') - offset
          /\ \A i \in 1 .. Len(wbuf') - offset : out2[i] = wbuf'[offset + i]
      BY <1>1, <2>5, <3>1, BufferTail
    <3>3. QED
      BY <3>1, <3>2
  <2> HIDE DEF out, out2
  <2>9. ASSUME NEW i \in 1 .. o + n
        PROVE  out2[i] = IF i <= o THEN out[i] ELSE Len(wire) + i
    <3> DEFINE j == offset + i
    <3>1. j \in 1 .. Len(wbuf) + n /\ out2[i] = wbuf'[j]
      <4>1. out2[i] = wbuf'[j]
        BY <2>8
      <4>2. /\ offset \in Nat /\ Len(wbuf) \in Nat /\ offset <= Len(wbuf)
            /\ i \in 1 .. (Len(wbuf) - offset) + n /\ n \in Nat
        BY <1>1, <2>3
      <4>3. j \in 1 .. Len(wbuf) + n
        BY <4>2
      <4>4. QED
        BY <4>1, <4>3
    <3>2. (j <= Len(wbuf) <=> i <= o) /\ (j > Len(wbuf) => j - Len(wbuf) \in 1 .. n)
          /\ (link => written + (j - Len(wbuf)) = Len(wire) + i)
      BY <1>1, <2>3, SMTT(30)
    <3>3. i \in 1 .. o => out[i] = wbuf[j]
      BY <2>7
    <3> HIDE DEF j
    <3>4. wbuf'[j] = IF j <= Len(wbuf) THEN wbuf[j] ELSE s[j - Len(wbuf)]
      BY <2>5, <3>1
    <3>5. CASE i <= o
      <4>1. i \in 1 .. o
        BY <2>6, <3>5
      <4>2. QED
        BY <3>1, <3>2, <3>3, <3>4, <3>5, <4>1
    <3>6. CASE ~(i <= o)
      <4>1. ~(j <= Len(wbuf)) /\ j - Len(wbuf) \in 1 .. n
        BY <1>1, <3>1, <3>2, <3>6
      <4>2. out2[i] = written + (j - Len(wbuf))
        BY <2>4, <3>1, <3>4, <4>1
      <4>3. QED
        BY <1>3, <3>2, <3>6, <4>2
    <3>7. QED
      BY <3>5, <3>6
  <2>10. out2 = [i \in 1 .. Len(out2) |-> IF i <= Len(out) THEN out[i] ELSE Len(wire) + i]
    <3>1. out2 \in [1 .. Len(out2) -> 1 .. OutSize]
      BY <2>8, LenProperties
    <3> HIDE DEF o
    <3>2. QED
      BY <2>7, <2>8, <2>9, <3>1
  <2>11. Len(out2) > Len(out)
    BY <2>3, <2>6, <2>7, <2>8
  <2>12. Outbound = out /\ Outbound' = out2
    BY <1>1, <1>3 DEF Outbound, out, out2
  <2>13. Abstract!Accept
    BY <1>1, <1>3, <2>10, <2>11, <2>12 DEF Abstract!Accept, Outbound, Inbound
  <2>14. QED
    BY <2>13 DEF Abstract!Next
<1>4. QED
  BY <1>2, <1>3

\* One write(2) transmits the next bytes accepted.
LEMMA FlushStepRefines ==
    ASSUME WriteInv, NEW sts \in 1 .. OutSize, FlushStep(sts), UNCHANGED Inbound
    PROVE  [Abstract!Next]_(Abstract!vars)
<1> DEFINE o == Len(wbuf) - offset
           out == SubSeq(wbuf, offset + 1, Len(wbuf))
           sent == Bytes(wbuf, offset, sts)
<1>1. /\ Len(wbuf) \in Nat /\ offset \in Nat /\ sts \in Nat /\ offset <= Len(wbuf)
      /\ sts \in 1 .. o /\ link /\ wbuf \in Seq(1 .. OutSize) /\ link' = link /\ given' = given
  BY StreamAssumption, LenProperties DEF WriteInv, FlushStep, readVars
<1>2. wire' = wire \o sent
  BY DEF FlushStep
<1>3. o \in Nat /\ sts <= o
  BY <1>1
<1>4. /\ out \in Seq(1 .. OutSize) /\ Len(out) = o
      /\ \A i \in 1 .. o : out[i] = wbuf[offset + i]
  BY <1>1, BufferTail
<1>5. sent = SubSeq(out, 1, sts)
  <2>1. /\ sent \in Seq(1 .. OutSize) /\ Len(sent) = sts
        /\ \A i \in 1 .. sts : sent[i] = wbuf[offset + i]
    <3>1. offset + sts <= Len(wbuf)
      BY <1>1, <1>3
    <3>2. QED
      BY <1>1, <3>1, BytesInside, ZenonT(40)
  <2> HIDE DEF out, sent
  <2>2. /\ SubSeq(out, 1, sts) \in Seq(1 .. OutSize) /\ Len(SubSeq(out, 1, sts)) = sts
        /\ \A i \in 1 .. sts : SubSeq(out, 1, sts)[i] = out[i]
    BY <1>1, <1>3, <1>4, BufferHead
  <2>3. \A i \in 1 .. sts : sent[i] = SubSeq(out, 1, sts)[i]
    BY <1>3, <1>4, <2>1, <2>2, SMTT(30)
  <2> DEFINE u == SubSeq(out, 1, sts)
  <2> HIDE DEF u
  <2>4. sent = u
    BY <2>1, <2>2, <2>3, SeqEqual DEF u
  <2>5. QED
    BY <2>4 DEF u
<1>6. Outbound' = SubSeq(out, sts + 1, Len(out))
  <2> DEFINE t == SubSeq(out, sts + 1, Len(out))
             v == SubSeq(wbuf', offset' + 1, Len(wbuf'))
  <2>1. /\ t \in Seq(1 .. OutSize) /\ Len(t) = o - sts
        /\ \A i \in 1 .. o - sts : t[i] = out[sts + i]
    <3> HIDE DEF out
    <3>1. /\ t \in Seq(1 .. OutSize) /\ Len(t) = Len(out) - sts
          /\ \A i \in 1 .. Len(out) - sts : t[i] = out[sts + i]
      BY <1>1, <1>3, <1>4, BufferTail, ZenonT(40)
    <3>2. QED
      BY <1>4, <3>1
  <2>2. Outbound' = v
    BY <1>1 DEF Outbound
  <2> HIDE DEF out, t
  <2>3. CASE sts = o
    <3>1. wbuf' = << >> /\ offset' = 0
      BY <2>3 DEF FlushStep
    <3>2. wbuf' \in Seq(1 .. OutSize) /\ offset' \in Nat /\ offset' <= Len(wbuf') /\ Len(wbuf') = 0
      BY <3>1, EmptySeq
    <3>3. v \in Seq(1 .. OutSize) /\ Len(v) = Len(wbuf') - offset'
      BY <3>2, BufferTail
    <3>4. Len(v) = 0 /\ Len(t) = 0
      BY <1>3, <2>1, <2>3, <3>1, <3>2, <3>3
    <3> HIDE DEF v
    <3>5. v = << >> /\ t = << >>
      BY <2>1, <3>3, <3>4, EmptySeq
    <3>6. QED
      BY <2>2, <3>5 DEF t
  <2>4. CASE sts # o
    <3>1. wbuf' = wbuf /\ offset' = offset + sts
      BY <2>4 DEF FlushStep
    <3>2. offset' \in Nat /\ offset' <= Len(wbuf) /\ Len(wbuf) - offset' = o - sts
      BY <1>1, <1>3, <3>1, SMTT(30)
    <3>3. /\ v \in Seq(1 .. OutSize) /\ Len(v) = Len(wbuf) - offset'
          /\ \A i \in 1 .. Len(wbuf) - offset' : v[i] = wbuf[offset' + i]
      BY <1>1, <3>1, <3>2, BufferTail
    <3> HIDE DEF v
    <3>4. Len(v) = Len(t)
      BY <2>1, <3>2, <3>3
    <3>5. ASSUME NEW i \in 1 .. Len(t) PROVE v[i] = t[i]
      <4>1. i \in 1 .. o - sts /\ sts + i \in 1 .. o
        BY <1>1, <1>3, <2>1
      <4>2. t[i] = wbuf[offset + (sts + i)]
        BY <1>4, <2>1, <4>1
      <4>3. v[i] = wbuf[offset' + i]
        BY <3>2, <3>3, <4>1
      <4>4. offset + (sts + i) = offset' + i
        BY <1>1, <3>1
      <4>5. QED
        BY <4>2, <4>3, <4>4
    <3>6. v = t
      BY <2>1, <3>3, <3>4, <3>5, SeqEqual
    <3>7. QED
      BY <2>2, <3>6 DEF t
  <2>5. QED
    BY <2>3, <2>4
<1>7. Outbound = out
  BY <1>1 DEF Outbound
<1> HIDE DEF out, sent
<1>8. sts \in 1 .. Len(out) /\ wire' = wire \o SubSeq(out, 1, sts)
  BY <1>1, <1>2, <1>4, <1>5
<1>9. Abstract!Transmit
  BY <1>1, <1>6, <1>7, <1>8 DEF Abstract!Transmit, Outbound, Inbound
<1>10. QED
  BY <1>9 DEF Abstract!Next

\* A failed write(2) breaks the link, the first time.
LEMMA FlushErrorRefines ==
    ASSUME link \in BOOLEAN, FlushError, UNCHANGED Inbound
    PROVE  [Abstract!Next]_(Abstract!vars)
<1>1. link' = FALSE /\ wire' = wire /\ given' = given
  BY DEF FlushError, readVars
<1>2. Outbound' = << >>
  BY <1>1 DEF Outbound
<1>3. CASE link
  <2>1. Abstract!Break
    BY <1>1, <1>2, <1>3 DEF Abstract!Break, Inbound, Outbound
  <2>2. QED
    BY <2>1 DEF Abstract!Next
<1>4. CASE ~link
  <2>1. Outbound = << >> /\ link = FALSE
    BY <1>4 DEF Outbound
  <2>2. QED
    BY <1>1, <1>2, <2>1 DEF Abstract!vars, Inbound, Outbound
<1>5. QED
  BY <1>3, <1>4

\* A new connection maps to the initial state of the byte stream.
LEMMA InitRefines == Init => Abstract!Init
<1> SUFFICES ASSUME Init PROVE Abstract!Init
  OBVIOUS
<1>1. /\ given = << >> /\ wbuf = << >> /\ wire = << >> /\ link = TRUE /\ offset = 0
  BY DEF Init
<1>2. Inbound = Input
  <2>1. RestToCome
    BY InitInv, InboundIsRest DEF Inv
  <2>2. Run(Inbound, 0) /\ Len(Inbound) = Size
    <3>1. Len(given) = 0
      BY <1>1, RunEnds
    <3>2. QED
      BY <2>1, <3>1 DEF RestToCome
  <2>3. QED
    BY <2>2, RunEnds, RunUnique
<1>3. Outbound = << >>
  <2> DEFINE v == SubSeq(wbuf, offset + 1, Len(wbuf))
  <2>1. wbuf \in Seq(1 .. OutSize) /\ Len(wbuf) = 0 /\ offset \in Nat /\ offset <= Len(wbuf)
        /\ Len(wbuf) - offset = 0
    BY <1>1, EmptySeq
  <2>2. v \in Seq(1 .. OutSize) /\ Len(v) = Len(wbuf) - offset
    BY <2>1, BufferTail
  <2>3. Outbound = v
    BY <1>1 DEF Outbound
  <2> HIDE DEF v
  <2>4. v = << >>
    BY <2>1, <2>2, EmptySeq
  <2>5. QED
    BY <2>3, <2>4
<1>4. QED
  BY <1>1, <1>2, <1>3 DEF Abstract!Init, Inbound, Outbound

\* Every step maps to a step of the byte stream or to none.
LEMMA NextRefines == Inv /\ Inv' /\ [Next]_vars => [Abstract!Next]_(Abstract!vars)
<1> SUFFICES ASSUME Inv, Inv', [Next]_vars PROVE [Abstract!Next]_(Abstract!vars)
  OBVIOUS
<1>1. StreamInv /\ StreamInv' /\ WriteInv /\ link \in BOOLEAN
  BY DEF Inv, PlainInv
<1>2. ASSUME UNCHANGED readVars PROVE UNCHANGED Inbound
  BY <1>2 DEF readVars, Inbound
<1>3. CASE UNCHANGED <<wbuf, offset, wire, link>>
  BY <1>1, <1>3, ReadingRefines
<1>4. CASE WriteCopy
  <2>1. UNCHANGED readVars
    BY <1>4 DEF WriteCopy
  <2>2. QED
    BY <1>1, <1>2, <1>4, <2>1, WriteCopyRefines
<1>5. ASSUME NEW n \in 1 .. OutSize, FlushStep(n) PROVE [Abstract!Next]_(Abstract!vars)
  <2>1. UNCHANGED readVars
    BY <1>5 DEF FlushStep
  <2>2. QED
    BY <1>1, <1>2, <1>5, <2>1, FlushStepRefines
<1>6. CASE FlushError
  <2>1. UNCHANGED readVars
    BY <1>6 DEF FlushError
  <2>2. QED
    BY <1>1, <1>2, <1>6, <2>1, FlushErrorRefines
<1>7. \/ UNCHANGED <<wbuf, offset, wire, link>>
      \/ WriteCopy \/ FlushError \/ \E n \in 1 .. OutSize : FlushStep(n)
  <2>1. CASE UNCHANGED vars
    BY <2>1 DEF vars, writeVars
  <2>2. ASSUME NEW n \in 1 .. Size,
               \/ ReadCall(n) \/ Read2Call(n) \/ Unread(n)
               \/ ReadStep(n) \/ Read2Step(n) \/ ReadStringStep(n)
        PROVE  UNCHANGED <<wbuf, offset, wire, link>>
    BY <2>2 DEF ReadCall, Read2Call, Unread, ReadStep, Read2Step, ReadStringStep, writeVars
  <2>3. ASSUME NEW ln \in BOOLEAN, ReadStringCall(ln) PROVE UNCHANGED <<wbuf, offset, wire, link>>
    BY <2>3 DEF ReadStringCall, writeVars
  <2>4. ASSUME NEW n \in 1 .. OutSize, WriteCall(n) PROVE UNCHANGED <<wbuf, offset, wire, link>>
    BY <2>4 DEF WriteCall
  <2>5. CASE NotReady \/ Eof \/ ReadError \/ FlushCall \/ StartReset \/ pool_close
    BY <2>5 DEF NotReady, Eof, ReadError, FlushCall, StartReset, pool_close, writeVars
  <2>6. QED
    BY <2>1, <2>2, <2>3, <2>4, <2>5 DEF Next
<1>8. QED
  BY <1>3, <1>4, <1>5, <1>6, <1>7

\* A POOL_CONNECTION keeps the promise of the byte stream: what is read comes in
\* order and once across short reads, read-ahead and put-backs, and what is
\* written goes out in order across partial writes and full buffers.
THEOREM Refinement == Spec => ImplementsByteStream
<1>1. Inv /\ [Next]_vars => [Abstract!Next]_(Abstract!vars)
  BY NextInv, NextRefines
<1>2. QED
  BY <1>1, InitRefines, Invariance, PTL DEF Spec, ImplementsByteStream, Abstract!Spec
=============================================================================
