-------------------------- MODULE StoreWriterProofs --------------------------
(***************************************************************************)
(* For all sizes of blocks and pools, all bounds and all values: the       *)
(* buffers of the docrep writer stay sound, and they hold what was written *)
(* to them, in its order, so that StoreWriter implements StoreText.        *)
(*                                                                         *)
(* A buffer is good when its blocks lie in their pools, one beside the     *)
(* other and, in the last pool, in the part that is used; every operation  *)
(* on a good buffer gives a good one with its bytes at the end.            *)
(***************************************************************************)
EXTENDS StoreWriter, DataInduction

-----------------------------------------------------------------------------
(* A buffer: what its record is, and what keeps it sound. *)

Blocks == [pool : Nat, at : Nat, capacity : Nat, size : Nat, lent : Seq(Int)]

Buffers ==
  [pools : Seq(Seq(Int)), npools : Nat, poolUsed : Nat,
   blocks : Seq(Blocks), nblocks : Nat, lbSize : Nat, size : Nat]

(* The blocks with the size of the last one, which lbSize counts.          *)
Sized(b) == [k \in 1..Len(b.blocks) |->
               IF k = Len(b.blocks) THEN [b.blocks[k] EXCEPT !.size = b.lbSize]
               ELSE b.blocks[k]]

(* A block is the caller's bytes, all of them, or it lies in a pool and, if *)
(* that is the last one, in the part that is used.                         *)
InItsPlace(x, pools, used) ==
  /\ x.size <= x.capacity
  /\ x.pool = Lent => x.size = x.capacity /\ x.capacity = Len(x.lent)
  /\ x.pool # Lent =>
       /\ x.pool \in 1..Len(pools)
       /\ x.at + x.capacity <= Len(pools[x.pool])
       /\ x.pool = Len(pools) => x.at + x.capacity <= used

InPlaces(blocks, pools, used) ==
  \A k \in 1..Len(blocks) : InItsPlace(blocks[k], pools, used)

Apart(blocks) ==
  \A k \in 1..Len(blocks) : \A j \in 1..(k - 1) : Disjoint(blocks[j], blocks[k])

Good(b) ==
  /\ b \in Buffers
  /\ Len(b.blocks) \in 1..b.nblocks
  /\ Len(b.pools) \in 1..b.npools
  /\ b.poolUsed <= Len(b.pools[Len(b.pools)])
  /\ PoolSize <= Len(b.pools[Len(b.pools)])
  /\ InPlaces(Sized(b), b.pools, b.poolUsed)
  /\ Apart(Sized(b))
  /\ b.size = Len(Contents(b))

(* A block's bytes.                                                        *)
BytesIn(pools, x) ==
  IF x.pool = Lent THEN SubSeq(x.lent, 1, x.size)
  ELSE SubSeq(pools[x.pool], x.at + 1, x.at + x.size)

(* The bytes of each block.                                                *)
Parts(pools, blocks) == [k \in 1..Len(blocks) |-> BytesIn(pools, blocks[k])]

(* The types of a buffer's parts.                                          *)
LEMMA BufferFields ==
  ASSUME NEW b \in Buffers
  PROVE  /\ b.pools \in Seq(Seq(Int)) /\ b.npools \in Nat /\ b.poolUsed \in Nat
         /\ b.blocks \in Seq(Blocks) /\ b.nblocks \in Nat /\ b.lbSize \in Nat
         /\ b.size \in Nat
         /\ Len(b.pools) \in Nat /\ Len(b.blocks) \in Nat
BY LenProperties DEF Buffers

(* There is a block, and so a last one.                                    *)
LEMMA SomeBlock ==
  ASSUME NEW b, Good(b)
  PROVE  \E n \in Nat : Len(b.blocks) = n + 1
<1>1. Len(b.blocks) - 1 \in Nat /\ Len(b.blocks) = (Len(b.blocks) - 1) + 1
  BY BufferFields DEF Good
<1> QED BY <1>1

(* A size can be stored in a block, which changes nothing else of it.      *)
LEMMA BlockFields ==
  ASSUME NEW x \in Blocks
  PROVE  /\ x.pool \in Nat /\ x.at \in Nat /\ x.capacity \in Nat /\ x.size \in Nat
         /\ x.lent \in Seq(Int)
         /\ \A n \in Nat : /\ [x EXCEPT !.size = n] \in Blocks
                           /\ [x EXCEPT !.size = n].size = n
                           /\ [x EXCEPT !.size = n].pool = x.pool
                           /\ [x EXCEPT !.size = n].at = x.at
                           /\ [x EXCEPT !.size = n].capacity = x.capacity
                           /\ [x EXCEPT !.size = n].lent = x.lent
BY DEF Blocks

(* What Sized is, by its elements.                                         *)
LEMMA SizedIs ==
  ASSUME NEW b \in Buffers, NEW n \in Nat, Len(b.blocks) = n + 1
  PROVE  /\ Sized(b) \in Seq(Blocks) /\ Len(Sized(b)) = n + 1
         /\ \A k \in 1..n : Sized(b)[k] = b.blocks[k]
         /\ b.blocks[n + 1] \in Blocks
         /\ Sized(b)[n + 1] = [b.blocks[n + 1] EXCEPT !.size = b.lbSize]
<1>1. /\ b.blocks \in Seq(Blocks) /\ b.lbSize \in Nat
      /\ \A k \in 1..(n + 1) : b.blocks[k] \in Blocks
  BY BufferFields, ElementOfSeq
<1>2. \A k \in 1..(n + 1) : Sized(b)[k] \in Blocks
  BY <1>1, BlockFields DEF Sized
<1>3. Sized(b) = [k \in 1..(n + 1) |-> Sized(b)[k]]
  BY DEF Sized
<1>4. Sized(b) \in Seq(Blocks) /\ Len(Sized(b)) = n + 1
  BY <1>2, <1>3
<1>5. n + 1 \in 1..(n + 1) /\ \A k \in 1..n : k \in 1..(n + 1) /\ k # n + 1
  OBVIOUS
<1> QED BY <1>1, <1>4, <1>5 DEF Sized

(* Stored changes nothing else.                                            *)
LEMMA StoredIs ==
  ASSUME NEW b \in Buffers, NEW n \in Nat, Len(b.blocks) = n + 1
  PROVE  /\ Stored(b) \in Buffers
         /\ Stored(b).blocks = Sized(b)
         /\ Stored(b).pools = b.pools /\ Stored(b).npools = b.npools
         /\ Stored(b).poolUsed = b.poolUsed /\ Stored(b).nblocks = b.nblocks
         /\ Stored(b).lbSize = b.lbSize /\ Stored(b).size = b.size
<1> DEFINE c == [b.blocks EXCEPT ![n + 1].size = b.lbSize]
<1>1. /\ Sized(b) \in Seq(Blocks) /\ Len(Sized(b)) = n + 1
      /\ \A k \in 1..n : Sized(b)[k] = b.blocks[k]
      /\ b.blocks[n + 1] \in Blocks
      /\ Sized(b)[n + 1] = [b.blocks[n + 1] EXCEPT !.size = b.lbSize]
  BY SizedIs
<1>2. b.blocks \in Seq(Blocks) /\ n + 1 \in 1..Len(b.blocks)
  BY BufferFields
<1>3. c = [b.blocks EXCEPT ![n + 1] = [b.blocks[n + 1] EXCEPT !.size = b.lbSize]]
  OBVIOUS
<1>4. [b.blocks[n + 1] EXCEPT !.size = b.lbSize] \in Blocks
  BY <1>1, BlockFields, BufferFields
<1>5. /\ c \in Seq(Blocks) /\ Len(c) = n + 1
      /\ \A j \in 1..(n + 1) :
           c[j] = IF j = n + 1 THEN [b.blocks[n + 1] EXCEPT !.size = b.lbSize] ELSE b.blocks[j]
  BY <1>2, <1>3, <1>4, ExceptSeq
<1> HIDE DEF c
<1>6. ASSUME NEW j \in 1..(n + 1) PROVE c[j] = Sized(b)[j]
  <2>1. CASE j = n + 1
    BY <1>1, <1>5, <2>1
  <2>2. CASE j # n + 1
    <3>1. j \in 1..n
      BY <2>2
    <3> QED BY <1>1, <1>5, <2>2, <3>1
  <2> QED BY <2>1, <2>2
<1>7. c = Sized(b)
  BY <1>1, <1>5, <1>6, SeqEqual
<1>8. Stored(b) = [b EXCEPT !.blocks = c]
  BY DEF Stored, c, Buffers
<1> QED BY <1>1, <1>7, <1>8 DEF Buffers

(* The contents are the bytes of the blocks, one after the other.          *)
LEMMA ContentsAre ==
  ASSUME NEW b \in Buffers, NEW n \in Nat, Len(b.blocks) = n + 1
  PROVE  Contents(b) = FlattenSeq(Parts(b.pools, Sized(b)))
<1>1. DOMAIN Sized(b) = 1..Len(Sized(b))
  BY SizedIs, LenProperties
<1> QED BY <1>1, StoredIs DEF Contents, Parts, Bytes, BytesIn

(* What lies in its place has the bytes it says.                           *)
LEMMA BytesAre ==
  ASSUME NEW pools \in Seq(Seq(Int)), NEW used \in Nat, NEW x \in Blocks,
         InItsPlace(x, pools, used)
  PROVE  /\ BytesIn(pools, x) \in Seq(Int)
         /\ Len(BytesIn(pools, x)) = x.size
         /\ x.pool = Lent => BytesIn(pools, x) = x.lent
         /\ x.pool # Lent =>
              /\ pools[x.pool] \in Seq(Int)
              /\ \A i \in 1..x.size : BytesIn(pools, x)[i] = pools[x.pool][x.at + i]
<1>1. x.at \in Nat /\ x.capacity \in Nat /\ x.size \in Nat /\ x.lent \in Seq(Int)
  BY BlockFields
<1>2. CASE x.pool = Lent
  <2>1. x.size = Len(x.lent)
    BY <1>2 DEF InItsPlace
  <2>2. BytesIn(pools, x) = x.lent
    BY <1>1, <1>2, <2>1, SubSeqFull DEF BytesIn
  <2> QED BY <1>1, <1>2, <2>1, <2>2
<1>3. CASE x.pool # Lent
  <2> DEFINE q == pools[x.pool]
  <2>1. q \in Seq(Int) /\ x.at + x.size <= Len(q) /\ Len(q) \in Nat
    <3>1. x.pool \in 1..Len(pools) /\ x.at + x.capacity <= Len(q) /\ x.size <= x.capacity
      BY <1>3 DEF InItsPlace
    <3>2. q \in Seq(Int)
      BY <3>1, ElementOfSeq
    <3>3. Len(q) \in Nat
      BY <3>2, LenProperties
    <3> HIDE DEF q
    <3> QED BY <1>1, <3>1, <3>2, <3>3
  <2> HIDE DEF q
  <2>2. \A i \in (x.at + 1)..(x.at + x.size) : q[i] \in Int
    <3>1. \A i \in (x.at + 1)..(x.at + x.size) : i \in 1..Len(q)
      BY <1>1, <2>1
    <3> QED BY <2>1, <3>1, ElementOfSeq
  <2>3. /\ SubSeq(q, x.at + 1, x.at + x.size) \in Seq(Int)
        /\ Len(SubSeq(q, x.at + 1, x.at + x.size)) = x.size
        /\ \A i \in 1..x.size : SubSeq(q, x.at + 1, x.at + x.size)[i] = q[x.at + i]
    <3>1. x.at + 1 \in Int /\ x.at + x.size \in Int
      BY <1>1
    <3> DEFINE lo == x.at + 1
               hi == x.at + x.size
    <3>2. /\ SubSeq(q, lo, hi) \in Seq(Int)
          /\ Len(SubSeq(q, lo, hi)) = IF lo <= hi THEN hi - lo + 1 ELSE 0
          /\ \A i \in 1..(hi - lo + 1) : SubSeq(q, lo, hi)[i] = q[lo + i - 1]
      BY <2>2, <3>1, SubSeqProperties
    <3>3. hi - lo + 1 = x.size /\ (lo <= hi <=> x.size # 0)
          /\ \A i \in 1..x.size : lo + i - 1 = x.at + i
      <4>1. PICK a \in Nat, n \in Nat : a = x.at /\ n = x.size
        BY <1>1
      <4>2. (a + n) - (a + 1) + 1 = n /\ (a + 1 <= a + n <=> n # 0)
            /\ \A i \in 1..n : (a + 1) + i - 1 = a + i
        OBVIOUS
      <4> QED BY <4>1, <4>2
    <3> HIDE DEF lo, hi
    <3>4. /\ SubSeq(q, lo, hi) \in Seq(Int) /\ Len(SubSeq(q, lo, hi)) = x.size
          /\ \A i \in 1..x.size : SubSeq(q, lo, hi)[i] = q[x.at + i]
      BY <1>1, <3>2, <3>3
    <3> QED BY <3>4 DEF lo, hi
  <2> QED BY <1>3, <2>1, <2>3 DEF q, BytesIn
<1> QED BY <1>2, <1>3

(* All of them, of blocks that lie in their places.                        *)
LEMMA PartsAre ==
  ASSUME NEW pools \in Seq(Seq(Int)), NEW used \in Nat, NEW blocks \in Seq(Blocks),
         InPlaces(blocks, pools, used)
  PROVE  /\ Parts(pools, blocks) \in Seq(Seq(Int))
         /\ Len(Parts(pools, blocks)) = Len(blocks)
         /\ \A k \in 1..Len(blocks) : Parts(pools, blocks)[k] = BytesIn(pools, blocks[k])
<1>1. Len(blocks) \in Nat
  BY LenProperties
<1>2. \A k \in 1..Len(blocks) : BytesIn(pools, blocks[k]) \in Seq(Int)
  BY BytesAre, ElementOfSeq DEF InPlaces
<1> QED BY <1>1, <1>2 DEF Parts
-----------------------------------------------------------------------------
(* One more block. *)

PoolsGrow(b, c) ==
  /\ Len(b.pools) <= Len(c.pools)
  /\ \A p \in 1..Len(b.pools) : c.pools[p] = b.pools[p]
  /\ Len(c.pools) = Len(b.pools) => b.poolUsed <= c.poolUsed

(* Where no block of b is.                                                 *)
Unused(b, x) ==
  \/ x.pool = Lent
  \/ x.pool = Len(b.pools) /\ x.at = b.poolUsed
  \/ x.pool > Len(b.pools)

(* A block stays where it is when there are more pools.                    *)
LEMMA StaysInPlace ==
  ASSUME NEW b \in Buffers, NEW c \in Buffers, PoolsGrow(b, c),
         NEW x \in Blocks, InItsPlace(x, b.pools, b.poolUsed)
  PROVE  /\ InItsPlace(x, c.pools, c.poolUsed)
         /\ BytesIn(c.pools, x) = BytesIn(b.pools, x)
         /\ \A y \in Blocks : Unused(b, y) => Disjoint(x, y)
<1>1. /\ Len(b.pools) \in Nat /\ Len(c.pools) \in Nat
      /\ b.poolUsed \in Nat /\ c.poolUsed \in Nat
  BY BufferFields
<1>2. x.pool \in Nat /\ x.at \in Nat /\ x.capacity \in Nat /\ x.size \in Nat
  BY BlockFields
<1>3. CASE x.pool = Lent
  BY <1>3 DEF InItsPlace, BytesIn, Disjoint
<1>4. CASE x.pool # Lent
  <2>1. /\ x.pool \in 1..Len(b.pools) /\ x.size <= x.capacity
        /\ x.at + x.capacity <= Len(b.pools[x.pool])
        /\ x.pool = Len(b.pools) => x.at + x.capacity <= b.poolUsed
    BY <1>4 DEF InItsPlace
  <2>2. x.pool \in 1..Len(c.pools) /\ c.pools[x.pool] = b.pools[x.pool]
    BY <1>1, <2>1 DEF PoolsGrow
  <2>3. x.pool = Len(c.pools) => x.at + x.capacity <= c.poolUsed
    <3>1. x.pool = Len(c.pools) => Len(c.pools) = Len(b.pools) /\ b.poolUsed <= c.poolUsed
      BY <1>1, <2>1 DEF PoolsGrow
    <3> QED BY <1>1, <1>2, <2>1, <3>1
  <2>4. ASSUME NEW y \in Blocks, Unused(b, y) PROVE Disjoint(x, y)
    <3>1. y.pool \in Nat /\ y.at \in Nat
      BY BlockFields
    <3>2. CASE x.pool = y.pool /\ y.pool # Lent
      <4>1. y.pool = Len(b.pools) /\ y.at = b.poolUsed
        BY <1>1, <2>1, <2>4, <3>1, <3>2 DEF Unused
      <4> QED BY <2>1, <3>2, <4>1 DEF Disjoint
    <3> QED BY <3>2 DEF Disjoint
  <2> QED BY <1>4, <2>1, <2>2, <2>3, <2>4 DEF InItsPlace, BytesIn
<1> QED BY <1>3, <1>4

LEMMA BlockAdded ==
  ASSUME NEW b, Good(b), NEW c \in Buffers, PoolsGrow(b, c),
         NEW x \in Blocks, InItsPlace(x, c.pools, c.poolUsed), Unused(b, x),
         c.blocks = Append(Sized(b), x), c.lbSize = x.size,
         Len(b.blocks) + 1 <= c.nblocks, Len(c.pools) <= c.npools,
         c.poolUsed <= Len(c.pools[Len(c.pools)]), PoolSize <= Len(c.pools[Len(c.pools)]),
         c.size = b.size + x.size
  PROVE  Good(c) /\ Contents(c) = Contents(b) \o BytesIn(c.pools, x)
<1>1. PICK n \in Nat : Len(b.blocks) = n + 1
  BY SomeBlock
<1>2. b \in Buffers /\ InPlaces(Sized(b), b.pools, b.poolUsed) /\ Apart(Sized(b))
      /\ b.size = Len(Contents(b)) /\ 1 <= Len(b.pools)
  BY BufferFields DEF Good
<1> DEFINE old == Sized(b)
<1>3. old \in Seq(Blocks) /\ Len(old) = n + 1
  BY <1>1, <1>2, SizedIs
<1> HIDE DEF old
<1>4. /\ c.blocks \in Seq(Blocks) /\ Len(c.blocks) = (n + 1) + 1
      /\ \A k \in 1..(n + 1) : c.blocks[k] = old[k]
      /\ c.blocks[(n + 1) + 1] = x
  BY <1>3, AppendProperties DEF old
<1>5. Sized(c) = c.blocks
  <2>1. n + 1 \in Nat
    OBVIOUS
  <2>2. /\ Sized(c) \in Seq(Blocks) /\ Len(Sized(c)) = (n + 1) + 1
        /\ \A k \in 1..(n + 1) : Sized(c)[k] = c.blocks[k]
        /\ Sized(c)[(n + 1) + 1] = [x EXCEPT !.size = c.lbSize]
    BY <1>4, <2>1, SizedIs
  <2>3. [x EXCEPT !.size = c.lbSize] = x
    BY DEF Blocks
  <2>4. \A k \in 1..((n + 1) + 1) : Sized(c)[k] = c.blocks[k]
    <3>1. \A k \in 1..((n + 1) + 1) : k \in 1..(n + 1) \/ k = (n + 1) + 1
      OBVIOUS
    <3> QED BY <1>4, <2>2, <2>3, <3>1
  <2> QED BY <1>4, <2>2, <2>4, SeqEqual
<1>6. ASSUME NEW k \in 1..(n + 1)
      PROVE  /\ InItsPlace(old[k], c.pools, c.poolUsed)
             /\ BytesIn(c.pools, old[k]) = BytesIn(b.pools, old[k])
             /\ Disjoint(old[k], x)
  <2>1. old[k] \in Blocks /\ InItsPlace(old[k], b.pools, b.poolUsed)
    BY <1>2, <1>3, ElementOfSeq DEF InPlaces, old
  <2> QED BY <1>2, <2>1, StaysInPlace
<1>7. \A k \in 1..((n + 1) + 1) : k \in 1..(n + 1) \/ k = (n + 1) + 1
  OBVIOUS
<1>8. InPlaces(Sized(c), c.pools, c.poolUsed)
  BY <1>4, <1>5, <1>6, <1>7 DEF InPlaces
<1>9. Apart(Sized(c))
  <2> SUFFICES ASSUME NEW k \in 1..((n + 1) + 1), NEW j \in 1..(k - 1)
               PROVE  Disjoint(c.blocks[j], c.blocks[k])
    BY <1>4, <1>5 DEF Apart
  <2>1. j \in 1..(n + 1)
    OBVIOUS
  <2>2. CASE k \in 1..(n + 1)
    <3>1. Disjoint(old[j], old[k])
      BY <1>2, <1>3, <2>2 DEF Apart, old
    <3> QED BY <1>4, <2>1, <2>2, <3>1
  <2>3. CASE k = (n + 1) + 1
    BY <1>4, <1>6, <2>1, <2>3
  <2> QED BY <1>7, <2>2, <2>3
<1>10. Contents(c) = Contents(b) \o BytesIn(c.pools, x)
       /\ Len(Contents(c)) = Len(Contents(b)) + x.size
  <2> DEFINE s == Parts(b.pools, old)
             t == Parts(c.pools, c.blocks)
             d == BytesIn(c.pools, x)
  <2>1. s \in Seq(Seq(Int)) /\ Len(s) = n + 1
        /\ \A k \in 1..(n + 1) : s[k] = BytesIn(b.pools, old[k])
    <3>1. b.pools \in Seq(Seq(Int)) /\ b.poolUsed \in Nat
      BY <1>2, BufferFields
    <3>2. InPlaces(old, b.pools, b.poolUsed)
      BY <1>2 DEF old
    <3> QED BY <1>3, <3>1, <3>2, PartsAre
  <2>2. t \in Seq(Seq(Int)) /\ Len(t) = (n + 1) + 1
        /\ \A k \in 1..((n + 1) + 1) : t[k] = BytesIn(c.pools, c.blocks[k])
    <3>1. c.pools \in Seq(Seq(Int)) /\ c.poolUsed \in Nat /\ c.blocks \in Seq(Blocks)
      BY <1>4, BufferFields
    <3>2. InPlaces(c.blocks, c.pools, c.poolUsed) /\ Len(c.blocks) = (n + 1) + 1
      BY <1>4, <1>5, <1>8
    <3> QED BY <3>1, <3>2, PartsAre
  <2>3. d \in Seq(Int) /\ Len(d) = x.size
    BY BufferFields, BytesAre
  <2>4. Contents(b) = FlattenSeq(s) /\ Contents(c) = FlattenSeq(t)
    <3>1. n + 1 \in Nat
      OBVIOUS
    <3> QED BY <1>1, <1>2, <1>4, <1>5, <3>1, ContentsAre DEF old
  <2>5. t[(n + 1) + 1] = d /\ \A k \in 1..(n + 1) : t[k] = s[k]
    <3>1. (n + 1) + 1 \in 1..((n + 1) + 1) /\ \A k \in 1..(n + 1) : k \in 1..((n + 1) + 1)
      OBVIOUS
    <3> QED BY <1>4, <1>6, <2>1, <2>2, <3>1
  <2> HIDE DEF s, t, d
  <2>6. t = Append(s, d)
    <3>1. /\ Append(s, d) \in Seq(Seq(Int)) /\ Len(Append(s, d)) = (n + 1) + 1
          /\ \A k \in 1..(n + 1) : Append(s, d)[k] = s[k]
          /\ Append(s, d)[(n + 1) + 1] = d
      BY <2>1, <2>3, AppendProperties
    <3>2. \A k \in 1..((n + 1) + 1) : t[k] = Append(s, d)[k]
      BY <1>7, <2>5, <3>1
    <3> QED BY <2>2, <3>1, <3>2, SeqEqual
  <2>7. FlattenSeq(t) = FlattenSeq(s) \o d
    BY <2>1, <2>3, <2>6, FlattenAppend
  <2>8. Len(FlattenSeq(s) \o d) = Len(FlattenSeq(s)) + Len(d)
    <3>1. FlattenSeq(s) \in Seq(Int) /\ d \in Seq(Int)
      BY <2>1, <2>3, FlattenAll
    <3> QED BY ONLY <3>1, ConcatProperties
  <2>9. Contents(c) = Contents(b) \o d /\ Len(Contents(c)) = Len(Contents(b)) + x.size
    BY ONLY <2>3, <2>4, <2>7, <2>8
  <2> QED BY <2>9 DEF d
<1>11. Len(c.blocks) \in 1..c.nblocks /\ Len(c.pools) \in 1..c.npools
  <2>1. Len(c.blocks) \in 1..c.nblocks
    <3>1. PICK m \in Nat : m = c.nblocks
      BY BufferFields
    <3>2. (n + 1) + 1 <= m
      BY <1>1, <3>1
    <3>3. (n + 1) + 1 \in 1..m
      BY ONLY <3>1, <3>2, n \in Nat
    <3> QED BY <1>4, <3>1, <3>3
  <2>2. Len(c.pools) \in 1..c.npools
    <3>1. PICK i \in Nat, j \in Nat, m \in Nat :
            i = Len(b.pools) /\ j = Len(c.pools) /\ m = c.npools
      BY <1>2, BufferFields
    <3>2. 1 <= i /\ i <= j /\ j <= m
      BY <1>2, <3>1 DEF PoolsGrow
    <3>3. j \in 1..m
      BY ONLY <3>1, <3>2
    <3> QED BY <3>1, <3>3
  <2> QED BY <2>1, <2>2
<1>12. c.size = Len(Contents(c))
  BY <1>2, <1>10
<1>13. Good(c)
  BY <1>8, <1>9, <1>11, <1>12 DEF Good
<1> QED BY <1>10, <1>13

(* There is room for another block, or for another pool, afterwards.       *)
LEMMA NextBlockIs ==
  ASSUME NEW b \in Buffers
  PROVE  /\ next_block(b) \in Buffers
         /\ next_block(b).pools = b.pools /\ next_block(b).npools = b.npools
         /\ next_block(b).poolUsed = b.poolUsed /\ next_block(b).blocks = b.blocks
         /\ next_block(b).lbSize = b.lbSize /\ next_block(b).size = b.size
         /\ Len(b.blocks) \in 1..b.nblocks => Len(b.blocks) + 1 <= next_block(b).nblocks
<1>1. b.nblocks \in Nat /\ Len(b.blocks) \in Nat
  BY BufferFields
<1>2. CASE Len(b.blocks) = b.nblocks
  <2> DEFINE c == [b EXCEPT !.nblocks = 2 * b.nblocks]
  <2>1. 2 * b.nblocks \in Nat
    BY <1>1
  <2>2. /\ c \in Buffers /\ c.nblocks = 2 * b.nblocks
        /\ c.pools = b.pools /\ c.npools = b.npools /\ c.poolUsed = b.poolUsed
        /\ c.blocks = b.blocks /\ c.lbSize = b.lbSize /\ c.size = b.size
    BY <2>1 DEF Buffers
  <2>3. next_block(b) = c
    BY <1>2 DEF next_block
  <2> HIDE DEF c
  <2> QED BY <1>1, <1>2, <2>2, <2>3
<1>3. CASE Len(b.blocks) # b.nblocks
  <2>1. next_block(b) = b
    BY <1>3 DEF next_block
  <2> QED BY <1>1, <1>3, <2>1
<1> QED BY <1>2, <1>3

LEMMA NextPoolIs ==
  ASSUME NEW b \in Buffers
  PROVE  /\ next_pool(b) \in Buffers
         /\ next_pool(b).pools = b.pools /\ next_pool(b).nblocks = b.nblocks
         /\ next_pool(b).poolUsed = b.poolUsed /\ next_pool(b).blocks = b.blocks
         /\ next_pool(b).lbSize = b.lbSize /\ next_pool(b).size = b.size
         /\ Len(b.pools) \in 1..b.npools => Len(b.pools) + 1 <= next_pool(b).npools
<1>1. b.npools \in Nat /\ Len(b.pools) \in Nat
  BY BufferFields
<1>2. CASE Len(b.pools) = b.npools
  <2> DEFINE c == [b EXCEPT !.npools = 2 * b.npools]
  <2>1. 2 * b.npools \in Nat
    BY <1>1
  <2>2. /\ c \in Buffers /\ c.npools = 2 * b.npools
        /\ c.pools = b.pools /\ c.nblocks = b.nblocks /\ c.poolUsed = b.poolUsed
        /\ c.blocks = b.blocks /\ c.lbSize = b.lbSize /\ c.size = b.size
    BY <2>1 DEF Buffers
  <2>3. next_pool(b) = c
    BY <1>2 DEF next_pool
  <2> HIDE DEF c
  <2> QED BY <1>1, <1>2, <2>2, <2>3
<1>3. CASE Len(b.pools) # b.npools
  <2>1. next_pool(b) = b
    BY <1>3 DEF next_pool
  <2> QED BY <1>1, <1>3, <2>1
<1> QED BY <1>2, <1>3

(* A block of the caller's bytes.                                          *)
LEMMA ZerocopyAppends ==
  ASSUME NEW b, Good(b), NEW data \in Seq(Int)
  PROVE  /\ Good(write_zerocopy(b, data))
         /\ Contents(write_zerocopy(b, data)) = Contents(b) \o data
<1> DEFINE c == write_zerocopy(b, data)
           x == Block(Lent, 0, Len(data), data)
           s == Stored(b)
           t == next_block(s)
<1>1. PICK n \in Nat : Len(b.blocks) = n + 1
  BY SomeBlock
<1>2. b \in Buffers /\ Len(data) \in Nat
  BY LenProperties DEF Good
<1>3. Sized(b) \in Seq(Blocks) /\ Len(Sized(b)) = n + 1
  BY <1>1, <1>2, SizedIs
<1>4. /\ s \in Buffers /\ s.blocks = Sized(b) /\ s.pools = b.pools /\ s.npools = b.npools
      /\ s.poolUsed = b.poolUsed /\ s.nblocks = b.nblocks /\ s.size = b.size
  BY <1>1, <1>2, StoredIs
<1>5. /\ x \in Blocks /\ x.pool = Lent /\ x.size = Len(data) /\ x.capacity = Len(data)
      /\ x.lent = data
  BY <1>2 DEF Block, Blocks, Lent
<1> HIDE DEF x, s
<1>6. /\ t \in Buffers /\ t.blocks = Sized(b) /\ t.pools = b.pools /\ t.npools = b.npools
      /\ t.poolUsed = b.poolUsed /\ t.size = b.size
      /\ n + 1 \in 1..b.nblocks => (n + 1) + 1 <= t.nblocks
  BY <1>3, <1>4, NextBlockIs
<1>7. c = [t EXCEPT !.blocks = Append(@, x), !.lbSize = Len(data), !.size = @ + Len(data)]
  BY DEF write_zerocopy, s, x
<1> HIDE DEF t, c
<1>8. PICK blocks \in Seq(Blocks), m \in Nat, size \in Nat :
        blocks = Append(Sized(b), x) /\ m = Len(data) /\ size = b.size + Len(data)
  <2>1. Append(Sized(b), x) \in Seq(Blocks)
    BY <1>3, <1>5, AppendProperties
  <2>2. b.size + Len(data) \in Nat
    BY <1>2, BufferFields
  <2> QED BY <1>2, <2>1, <2>2
<1>9. c = [t EXCEPT !.blocks = blocks, !.lbSize = m, !.size = size]
  BY <1>6, <1>7, <1>8
<1>10. /\ c \in Buffers /\ c.blocks = blocks /\ c.lbSize = m /\ c.size = size
       /\ c.pools = t.pools /\ c.npools = t.npools /\ c.poolUsed = t.poolUsed
       /\ c.nblocks = t.nblocks
  BY ONLY <1>6, <1>9, blocks \in Seq(Blocks), m \in Nat, size \in Nat DEF Buffers
<1>11. /\ c.pools = b.pools /\ c.npools = b.npools /\ c.poolUsed = b.poolUsed
  BY <1>6, <1>10
<1>12. /\ Len(b.pools) \in 1..b.npools /\ b.poolUsed \in Nat /\ Len(b.pools) \in Nat
       /\ b.poolUsed <= Len(b.pools[Len(b.pools)]) /\ PoolSize <= Len(b.pools[Len(b.pools)])
       /\ n + 1 \in 1..b.nblocks /\ b.npools \in Nat
  BY <1>1, <1>2, BufferFields DEF Good
<1>13. PoolsGrow(b, c) /\ Unused(b, x)
  BY <1>5, <1>11, <1>12 DEF PoolsGrow, Unused
<1>14. InItsPlace(x, c.pools, c.poolUsed)
  BY <1>2, <1>5 DEF InItsPlace
<1>15. Len(b.blocks) + 1 <= c.nblocks
  BY <1>1, <1>6, <1>10, <1>12
<1>16. Len(c.pools) <= c.npools /\ c.poolUsed <= Len(c.pools[Len(c.pools)])
       /\ PoolSize <= Len(c.pools[Len(c.pools)])
  BY <1>11, <1>12
<1>17. Good(c) /\ Contents(c) = Contents(b) \o BytesIn(c.pools, x)
  BY <1>5, <1>8, <1>10, <1>13, <1>14, <1>15, <1>16, BlockAdded
<1>18. BytesIn(c.pools, x) = data
  BY <1>5, SubSeqFull DEF BytesIn
<1> QED BY <1>17, <1>18 DEF c
-----------------------------------------------------------------------------
(* A new pool has room for the bytes and is no smaller than the others.    *)
LEMMA MaxOfTwo ==
  ASSUME NEW i \in Nat, NEW j \in Nat
  PROVE  Max({i, j}) \in Nat /\ i <= Max({i, j}) /\ j <= Max({i, j})
<1>1. \E x \in {i, j} : \A y \in {i, j} : x >= y
  <2>1. CASE i >= j
    BY <2>1
  <2>2. CASE ~(i >= j)
    <3>1. j >= i /\ j >= j
      BY <2>2
    <3> QED BY <3>1
  <2> QED BY <2>1, <2>2
<1>2. Max({i, j}) \in {i, j} /\ \A y \in {i, j} : Max({i, j}) >= y
  BY <1>1 DEF Max
<1> QED BY <1>2

LEMMA MallocIs ==
  ASSUME NEW n \in Nat
  PROVE  malloc(n) \in Seq(Int) /\ Len(malloc(n)) = n
BY DEF malloc, Uninitialised

(* The bytes fit in the last pool, behind what is used of it.              *)
LEMMA RequirePoolIs ==
  ASSUME NEW b \in Buffers, NEW n \in Nat, Len(b.pools) \in 1..b.npools,
         PoolSize <= Len(b.pools[Len(b.pools)])
  PROVE  LET c == require_pool(b, n)
         IN  /\ c \in Buffers
             /\ c.blocks = b.blocks /\ c.nblocks = b.nblocks
             /\ c.lbSize = b.lbSize /\ c.size = b.size
             /\ Len(c.pools) \in 1..c.npools
             /\ \A p \in 1..Len(b.pools) : c.pools[p] = b.pools[p]
             /\ c.poolUsed + n <= Len(c.pools[Len(c.pools)])
             /\ PoolSize <= Len(c.pools[Len(c.pools)])
             /\ \/ c.pools = b.pools /\ c.poolUsed = b.poolUsed
                \/ Len(c.pools) = Len(b.pools) + 1 /\ c.poolUsed = 0
<1> DEFINE c == require_pool(b, n)
<1>1. /\ b.pools \in Seq(Seq(Int)) /\ Len(b.pools) \in Nat
      /\ b.poolUsed \in Nat /\ PoolSize \in Nat /\ b.npools \in Nat
      /\ Len(b.pools[Len(b.pools)]) \in Nat
  <2>1. b.pools[Len(b.pools)] \in Seq(Int)
    BY BufferFields, ElementOfSeq
  <2> QED BY <2>1, BufferFields, WriteBufferAssumption, LenProperties
<1>2. CASE ~(b.poolUsed + n > PoolSize)
  <2>1. c = b
    BY <1>2 DEF require_pool
  <2>2. b.poolUsed + n <= Len(b.pools[Len(b.pools)])
    BY <1>1, <1>2
  <2> HIDE DEF c
  <2>3. /\ c \in Buffers
        /\ c.blocks = b.blocks /\ c.nblocks = b.nblocks
        /\ c.lbSize = b.lbSize /\ c.size = b.size
        /\ Len(c.pools) \in 1..c.npools
        /\ \A p \in 1..Len(b.pools) : c.pools[p] = b.pools[p]
        /\ c.poolUsed + n <= Len(c.pools[Len(c.pools)])
        /\ PoolSize <= Len(c.pools[Len(c.pools)])
        /\ c.pools = b.pools /\ c.poolUsed = b.poolUsed
    BY <2>1, <2>2
  <2> QED BY <2>3 DEF c
<1>3. CASE b.poolUsed + n > PoolSize
  <2> DEFINE s == next_pool(b)
  <2>1. PICK m \in Nat : m = Max({PoolSize, n}) /\ PoolSize <= m /\ n <= m
    BY <1>1, MaxOfTwo
  <2>2. malloc(m) \in Seq(Int) /\ Len(malloc(m)) = m
    BY MallocIs
  <2>3. PICK pools \in Seq(Seq(Int)) : pools = Append(b.pools, malloc(m))
    BY <1>1, <2>2, AppendProperties
  <2>4. /\ Len(pools) = Len(b.pools) + 1
        /\ pools[Len(b.pools) + 1] = malloc(m)
        /\ \A p \in 1..Len(b.pools) : pools[p] = b.pools[p]
    BY <1>1, <2>2, <2>3, AppendProperties
  <2>5. /\ s \in Buffers /\ s.pools = b.pools /\ s.nblocks = b.nblocks
        /\ s.poolUsed = b.poolUsed /\ s.blocks = b.blocks
        /\ s.lbSize = b.lbSize /\ s.size = b.size
        /\ Len(b.pools) + 1 <= s.npools
    BY NextPoolIs
  <2>6. c = [s EXCEPT !.pools = Append(@, malloc(Max({PoolSize, n}))), !.poolUsed = 0]
    BY <1>3 DEF require_pool
  <2> HIDE DEF s, c
  <2>7. c = [s EXCEPT !.pools = pools, !.poolUsed = 0]
    BY <2>1, <2>3, <2>5, <2>6
  <2>8. /\ c \in Buffers /\ c.pools = pools /\ c.poolUsed = 0
        /\ c.npools = s.npools /\ c.blocks = s.blocks /\ c.nblocks = s.nblocks
        /\ c.lbSize = s.lbSize /\ c.size = s.size
    BY ONLY <2>5, <2>7, pools \in Seq(Seq(Int)) DEF Buffers
  <2>9. Len(c.pools) \in 1..c.npools
    <3>1. PICK i \in Nat, j \in Nat : i = Len(b.pools) /\ j = c.npools
      BY <1>1, <2>8, BufferFields
    <3>2. i + 1 <= j
      BY <2>5, <2>8, <3>1
    <3>3. i + 1 \in 1..j
      BY ONLY <3>1, <3>2
    <3> QED BY <2>4, <2>8, <3>1, <3>3
  <2>10. c.pools[Len(c.pools)] = malloc(m)
    BY <2>4, <2>8
  <2>11. c.poolUsed + n <= Len(c.pools[Len(c.pools)]) /\ PoolSize <= Len(c.pools[Len(c.pools)])
    <3>1. 0 + n <= m
      BY <2>1
    <3> QED BY <2>1, <2>2, <2>8, <2>10, <3>1
  <2>12. /\ c \in Buffers
         /\ c.blocks = b.blocks /\ c.nblocks = b.nblocks
         /\ c.lbSize = b.lbSize /\ c.size = b.size
         /\ \A p \in 1..Len(b.pools) : c.pools[p] = b.pools[p]
         /\ Len(c.pools) = Len(b.pools) + 1 /\ c.poolUsed = 0
    BY <2>4, <2>5, <2>8
  <2> QED BY <2>9, <2>11, <2>12 DEF c
<1> QED BY <1>2, <1>3

(* A good buffer holds bytes.                                              *)
LEMMA ContentsType ==
  ASSUME NEW b, Good(b)
  PROVE  Contents(b) \in Seq(Int)
<1>1. PICK n \in Nat : Len(b.blocks) = n + 1
  BY SomeBlock
<1>2. b \in Buffers /\ InPlaces(Sized(b), b.pools, b.poolUsed)
  BY DEF Good
<1>3. Sized(b) \in Seq(Blocks) /\ b.pools \in Seq(Seq(Int)) /\ b.poolUsed \in Nat
  BY <1>1, <1>2, SizedIs, BufferFields
<1>4. Parts(b.pools, Sized(b)) \in Seq(Seq(Int))
  BY <1>2, <1>3, PartsAre
<1>5. FlattenSeq(Parts(b.pools, Sized(b))) \in Seq(Int)
  BY <1>4, FlattenAll
<1> QED BY <1>1, <1>2, <1>5, ContentsAre

(* A block that is not written to yet.                                     *)
LEMMA OpenBlockIs ==
  ASSUME NEW b, Good(b), NEW capacity \in Nat
  PROVE  LET c == OpenBlock(b, capacity)
         IN  /\ Good(c) /\ Contents(c) = Contents(b)
             /\ c.lbSize = 0
             /\ c.size = b.size
             /\ c.blocks[Len(c.blocks)].capacity = capacity
             /\ c.blocks[Len(c.blocks)].pool # Lent
<1> DEFINE c == OpenBlock(b, capacity)
           s == Stored(b)
           t == next_block(s)
           r == require_pool(t, capacity)
           x == Block(Len(r.pools), r.poolUsed, capacity, <<>>)
<1>1. PICK n \in Nat : Len(b.blocks) = n + 1
  BY SomeBlock
<1>2. b \in Buffers
  BY DEF Good
<1>3. Sized(b) \in Seq(Blocks) /\ Len(Sized(b)) = n + 1
  BY <1>1, <1>2, SizedIs
<1>4. /\ s \in Buffers /\ s.blocks = Sized(b) /\ s.pools = b.pools /\ s.npools = b.npools
      /\ s.poolUsed = b.poolUsed /\ s.nblocks = b.nblocks /\ s.size = b.size
  BY <1>1, <1>2, StoredIs
<1>5. /\ Len(b.pools) \in 1..b.npools /\ b.poolUsed \in Nat /\ Len(b.pools) \in Nat
      /\ PoolSize <= Len(b.pools[Len(b.pools)])
      /\ n + 1 \in 1..b.nblocks /\ b.npools \in Nat /\ b.size \in Nat
  BY <1>1, <1>2, BufferFields DEF Good
<1> HIDE DEF s
<1>6. /\ t \in Buffers /\ t.blocks = Sized(b) /\ t.pools = b.pools /\ t.npools = b.npools
      /\ t.poolUsed = b.poolUsed /\ t.size = b.size
      /\ (n + 1) + 1 <= t.nblocks
  BY <1>3, <1>4, <1>5, NextBlockIs
<1> HIDE DEF t
<1>7. /\ r \in Buffers
      /\ r.blocks = Sized(b) /\ r.nblocks = t.nblocks /\ r.size = b.size
      /\ Len(r.pools) \in 1..r.npools
      /\ \A p \in 1..Len(b.pools) : r.pools[p] = b.pools[p]
      /\ r.poolUsed + capacity <= Len(r.pools[Len(r.pools)])
      /\ PoolSize <= Len(r.pools[Len(r.pools)])
      /\ \/ r.pools = b.pools /\ r.poolUsed = b.poolUsed
         \/ Len(r.pools) = Len(b.pools) + 1 /\ r.poolUsed = 0
  <2>1. t \in Buffers /\ Len(t.pools) \in 1..t.npools /\ PoolSize <= Len(t.pools[Len(t.pools)])
    BY <1>5, <1>6
  <2>2. /\ r \in Buffers
        /\ r.blocks = t.blocks /\ r.nblocks = t.nblocks /\ r.size = t.size
        /\ Len(r.pools) \in 1..r.npools
        /\ \A p \in 1..Len(t.pools) : r.pools[p] = t.pools[p]
        /\ r.poolUsed + capacity <= Len(r.pools[Len(r.pools)])
        /\ PoolSize <= Len(r.pools[Len(r.pools)])
        /\ \/ r.pools = t.pools /\ r.poolUsed = t.poolUsed
           \/ Len(r.pools) = Len(t.pools) + 1 /\ r.poolUsed = 0
    BY <2>1, RequirePoolIs
  <2> HIDE DEF r
  <2> QED BY <1>6, <2>2
<1>8. c = [r EXCEPT !.blocks = Append(@, x), !.poolUsed = @ + capacity, !.lbSize = 0]
  BY DEF OpenBlock, s, t
<1> HIDE DEF r
<1>9. r.poolUsed \in Nat /\ Len(r.pools) \in Nat /\ Len(r.pools) # 0
  BY <1>7, BufferFields
<1>10. /\ x \in Blocks /\ x.pool = Len(r.pools) /\ x.at = r.poolUsed
       /\ x.capacity = capacity /\ x.size = 0
  BY <1>9 DEF Block, Blocks
<1> HIDE DEF x, c
<1>11. PICK blocks \in Seq(Blocks), used \in Nat :
         blocks = Append(Sized(b), x) /\ used = r.poolUsed + capacity
  <2>1. Append(Sized(b), x) \in Seq(Blocks)
    BY <1>3, <1>10, AppendProperties
  <2>2. r.poolUsed + capacity \in Nat
    BY <1>9
  <2> QED BY <2>1, <2>2
<1>12. c = [r EXCEPT !.blocks = blocks, !.poolUsed = used, !.lbSize = 0]
  BY <1>7, <1>8, <1>11
<1>13. /\ c \in Buffers /\ c.blocks = blocks /\ c.lbSize = 0 /\ c.poolUsed = used
       /\ c.pools = r.pools /\ c.npools = r.npools /\ c.size = r.size
       /\ c.nblocks = r.nblocks
  BY ONLY <1>7, <1>12, blocks \in Seq(Blocks), used \in Nat DEF Buffers
<1>14. PoolsGrow(b, c)
  <2>1. CASE r.pools = b.pools /\ r.poolUsed = b.poolUsed
    <3>1. b.poolUsed <= c.poolUsed
      BY <1>5, <1>11, <1>13, <2>1
    <3> QED BY <1>5, <1>13, <2>1, <3>1 DEF PoolsGrow
  <2>2. CASE Len(r.pools) = Len(b.pools) + 1
    <3>1. Len(b.pools) <= Len(c.pools) /\ Len(c.pools) # Len(b.pools)
      BY <1>5, <1>13, <2>2
    <3> QED BY <1>7, <1>13, <3>1 DEF PoolsGrow
  <2> QED BY <1>7, <2>1, <2>2
<1>15. Unused(b, x)
  <2>1. CASE r.pools = b.pools /\ r.poolUsed = b.poolUsed
    BY <1>10, <2>1 DEF Unused
  <2>2. CASE Len(r.pools) = Len(b.pools) + 1
    <3>1. x.pool > Len(b.pools)
      BY <1>5, <1>10, <2>2
    <3> QED BY <3>1 DEF Unused
  <2> QED BY <1>7, <2>1, <2>2
<1>16. x.pool # Lent
  BY <1>9, <1>10 DEF Lent
<1>17. InItsPlace(x, c.pools, c.poolUsed)
  <2>1. x.at + x.capacity = used /\ used <= Len(c.pools[x.pool])
    BY <1>7, <1>10, <1>11, <1>13
  <2>2. x.pool \in 1..Len(c.pools) /\ x.size <= x.capacity
    BY <1>9, <1>10, <1>13
  <2> QED BY <1>13, <1>16, <2>1, <2>2 DEF InItsPlace
<1>18. Len(b.blocks) + 1 <= c.nblocks
  BY <1>1, <1>6, <1>7, <1>13
<1>19. Len(c.pools) <= c.npools /\ c.poolUsed <= Len(c.pools[Len(c.pools)])
       /\ PoolSize <= Len(c.pools[Len(c.pools)])
  BY <1>7, <1>11, <1>13
<1>20. Good(c) /\ Contents(c) = Contents(b) \o BytesIn(c.pools, x)
  <2>1. c.lbSize = x.size /\ c.size = b.size + x.size
    BY <1>5, <1>7, <1>10, <1>13
  <2> QED BY <1>10, <1>11, <1>13, <1>14, <1>15, <1>17, <1>18, <1>19, <2>1, BlockAdded
<1>21. BytesIn(c.pools, x) = <<>>
  <2>1. BytesIn(c.pools, x) \in Seq(Int) /\ Len(BytesIn(c.pools, x)) = 0
    BY <1>10, <1>13, <1>17, BufferFields, BytesAre
  <2> QED BY <2>1
<1>22. Contents(c) = Contents(b)
  <2>1. Contents(b) \in Seq(Int)
    BY ContentsType
  <2> QED BY <1>20, <1>21, <2>1, ConcatEmptySeq
<1>23. c.blocks[Len(c.blocks)] = x
  BY <1>3, <1>10, <1>11, <1>13, AppendProperties
<1> QED BY <1>10, <1>13, <1>7, <1>16, <1>20, <1>22, <1>23 DEF c
-----------------------------------------------------------------------------
(* Bytes that are copied to the end of the last block. *)

(* The memory with data in the pool P behind the position upto.            *)
Overwritten(pools, new, P, upto, data) ==
  /\ new \in Seq(Seq(Int)) /\ Len(new) = Len(pools)
  /\ \A p \in 1..Len(pools) :
       /\ Len(new[p]) = Len(pools[p])
       /\ \A k \in 1..Len(pools[p]) :
            new[p][k] = IF p = P /\ k - upto \in 1..Len(data) THEN data[k - upto]
                        ELSE pools[p][k]

(* The pools with data behind the first upto bytes of the pool P.          *)
PoolsWith(pools, P, upto, data) ==
  [p \in DOMAIN pools |->
     [k \in DOMAIN pools[p] |->
        IF p = P /\ k - upto \in DOMAIN data THEN data[k - upto] ELSE pools[p][k]]]


(* What Copied makes of the memory.                                        *)
LEMMA PoolsOverwritten ==
  ASSUME NEW pools \in Seq(Seq(Int)), NEW data \in Seq(Int), NEW P, NEW upto \in Nat
  PROVE  Overwritten(pools, PoolsWith(pools, P, upto, data), P, upto, data)
<1> DEFINE M(p) == [k \in DOMAIN pools[p] |->
                      IF p = P /\ k - upto \in DOMAIN data THEN data[k - upto] ELSE pools[p][k]]
           new == [p \in DOMAIN pools |-> M(p)]
<1>1. DOMAIN pools = 1..Len(pools) /\ DOMAIN data = 1..Len(data) /\ Len(pools) \in Nat
      /\ Len(data) \in Nat
  BY LenProperties
<1>2. ASSUME NEW p \in 1..Len(pools)
      PROVE  /\ M(p) \in Seq(Int) /\ Len(M(p)) = Len(pools[p])
             /\ \A k \in 1..Len(pools[p]) :
                  M(p)[k] = IF p = P /\ k - upto \in 1..Len(data) THEN data[k - upto]
                            ELSE pools[p][k]
  <2>1. PICK q \in Seq(Int) : q = pools[p]
    BY ElementOfSeq
  <2>2. PICK n \in Nat : n = Len(q) /\ DOMAIN q = 1..n
    BY LenProperties
  <2>3. ASSUME NEW k \in 1..n
        PROVE  (IF p = P /\ k - upto \in 1..Len(data) THEN data[k - upto] ELSE q[k]) \in Int
    <3>1. q[k] \in Int
      BY <2>2, ElementOfSeq
    <3>2. k - upto \in 1..Len(data) => data[k - upto] \in Int
      BY ElementOfSeq
    <3> QED BY <3>1, <3>2
  <2>4. M(p) = [k \in 1..n |-> IF p = P /\ k - upto \in 1..Len(data) THEN data[k - upto]
                               ELSE q[k]]
    BY <1>1, <2>1, <2>2
  <2> HIDE DEF M
  <2>5. M(p) \in Seq(Int) /\ Len(M(p)) = n
    BY <2>3, <2>4
  <2> QED BY <2>1, <2>2, <2>4, <2>5
<1>3. \A p \in 1..Len(pools) : new[p] = M(p)
  BY <1>1
<1>4. new = [p \in 1..Len(pools) |-> M(p)]
  BY <1>1
<1> HIDE DEF M, new
<1>5. new \in Seq(Seq(Int)) /\ Len(new) = Len(pools)
  BY <1>1, <1>2, <1>4
<1>6. Overwritten(pools, new, P, upto, data)
  BY <1>2, <1>3, <1>5 DEF Overwritten
<1> QED BY <1>6 DEF new, M, PoolsWith

(* None of the block's bytes is among the n behind upto in the pool P.     *)
Clear(x, P, upto, n) ==
  x.pool = Lent \/ x.pool # P \/ x.at + x.size <= upto \/ upto + n <= x.at

(* The bytes of x are in y, and data after them.                           *)
Continues(x, pools, y, new, data) == BytesIn(new, y) = BytesIn(pools, x) \o data

SameBytes(x, pools, new) == BytesIn(new, x) = BytesIn(pools, x)

(* What is clear of the overwritten bytes keeps its own.                   *)
LEMMA OthersKeepTheirBytes ==
  ASSUME NEW pools \in Seq(Seq(Int)), NEW new, NEW used \in Nat, NEW data \in Seq(Int),
         NEW P, NEW upto \in Nat, Overwritten(pools, new, P, upto, data),
         NEW x \in Blocks, InItsPlace(x, pools, used), Clear(x, P, upto, Len(data))
  PROVE  InItsPlace(x, new, used) /\ SameBytes(x, pools, new)
<1>1. /\ x.pool \in Nat /\ x.at \in Nat /\ x.capacity \in Nat /\ x.size \in Nat
      /\ Len(data) \in Nat
  BY BlockFields, LenProperties
<1>2. new \in Seq(Seq(Int))
  BY DEF Overwritten
<1>3. InItsPlace(x, new, used)
  BY DEF InItsPlace, Overwritten
<1>4. CASE x.pool = Lent
  BY <1>3, <1>4 DEF BytesIn, SameBytes
<1>5. CASE x.pool # Lent
  <2> DEFINE u == BytesIn(pools, x)
             v == BytesIn(new, x)
  <2>1. u \in Seq(Int) /\ Len(u) = x.size
        /\ \A i \in 1..x.size : u[i] = pools[x.pool][x.at + i]
    BY <1>5, BytesAre
  <2>2. v \in Seq(Int) /\ Len(v) = x.size
        /\ \A i \in 1..x.size : v[i] = new[x.pool][x.at + i]
    BY <1>2, <1>3, <1>5, BytesAre
  <2> HIDE DEF u, v
  <2>3. ASSUME NEW i \in 1..x.size PROVE v[i] = u[i]
    <3>1. PICK a \in Nat, s \in Nat, c \in Nat, l \in Nat, d \in Nat :
            /\ a = x.at /\ s = x.size /\ c = x.capacity /\ l = Len(pools[x.pool])
            /\ d = Len(data)
      <4>1. pools[x.pool] \in Seq(Int)
        BY <1>5, BytesAre
      <4> QED BY <1>1, <4>1, LenProperties
    <3>2. s <= c /\ a + c <= l /\ x.pool \in 1..Len(pools)
      BY <1>5, <3>1 DEF InItsPlace
    <3>3. a + i \in 1..l /\ i \in 1..s
      <4>1. i \in 1..s
        BY <3>1
      <4>2. s <= c /\ a + c <= l
        BY <3>2
      <4> QED BY ONLY <4>1, <4>2, a \in Nat, s \in Nat, c \in Nat, l \in Nat
    <3>4. x.pool = P => ~((a + i) - upto \in 1..d)
      <4>1. x.pool = P => a + s <= upto \/ upto + d <= a
        BY <1>5, <3>1 DEF Clear
      <4>2. (a + s <= upto \/ upto + d <= a) => ~((a + i) - upto \in 1..d)
        BY <3>3
      <4> QED BY <4>1, <4>2
    <3>5. new[x.pool][a + i] = pools[x.pool][a + i]
      BY <3>1, <3>2, <3>3, <3>4 DEF Overwritten
    <3> QED BY <2>1, <2>2, <3>1, <3>5
  <2>4. u = v
    BY <2>1, <2>2, <2>3, SeqEqual
  <2> QED BY <1>3, <2>4 DEF u, v, SameBytes
<1> QED BY <1>4, <1>5

(* The block that is written to has the new bytes after its own.           *)
LEMMA LastBlockGrows ==
  ASSUME NEW pools \in Seq(Seq(Int)), NEW new, NEW used \in Nat, NEW data \in Seq(Int),
         NEW x \in Blocks, InItsPlace(x, pools, used), x.pool # Lent,
         NEW upto \in Nat, upto = x.at + x.size, Overwritten(pools, new, x.pool, upto, data),
         x.size + Len(data) <= x.capacity,
         NEW y, y = [x EXCEPT !.size = x.size + Len(data)]
  PROVE  y \in Blocks /\ InItsPlace(y, new, used) /\ Continues(x, pools, y, new, data)
<1>1. PICK a \in Nat, s \in Nat, c \in Nat, l \in Nat, d \in Nat :
        /\ a = x.at /\ s = x.size /\ c = x.capacity /\ l = Len(pools[x.pool])
        /\ d = Len(data)
  <2>1. pools[x.pool] \in Seq(Int)
    BY BytesAre
  <2> QED BY <2>1, BlockFields, LenProperties
<1>2. s + d <= c /\ a + c <= l /\ x.pool \in 1..Len(pools)
  BY <1>1 DEF InItsPlace
<1>3. /\ y \in Blocks /\ y.size = s + d /\ y.pool = x.pool /\ y.at = a
      /\ y.capacity = c /\ y.lent = x.lent
  <2>1. s + d \in Nat
    OBVIOUS
  <2> QED BY <1>1, <2>1, BlockFields
<1>4. new \in Seq(Seq(Int))
  BY DEF Overwritten
<1>5. InItsPlace(y, new, used)
  BY <1>1, <1>2, <1>3 DEF InItsPlace, Overwritten
<1> DEFINE u == BytesIn(pools, x)
           v == BytesIn(new, y)
           w == u \o data
<1>6. u \in Seq(Int) /\ Len(u) = s
      /\ \A i \in 1..s : u[i] = pools[x.pool][a + i]
  BY <1>1, BytesAre
<1>7. v \in Seq(Int) /\ Len(v) = s + d
      /\ \A i \in 1..(s + d) : v[i] = new[x.pool][a + i]
  <2>1. y \in Blocks /\ y.pool # Lent /\ used \in Nat
    BY <1>3
  <2>2. /\ BytesIn(new, y) \in Seq(Int) /\ Len(BytesIn(new, y)) = y.size
        /\ \A i \in 1..y.size : BytesIn(new, y)[i] = new[y.pool][y.at + i]
    BY ONLY <1>4, <1>5, <2>1, BytesAre
  <2>3. v \in Seq(Int) /\ Len(v) = s + d
    BY <1>3, <2>2
  <2>4. \A i \in 1..(s + d) : BytesIn(new, y)[i] = new[x.pool][a + i]
    BY <1>3, <2>2
  <2> QED BY <2>3, <2>4
<1> HIDE DEF u, v
<1>8. w \in Seq(Int) /\ Len(w) = s + d
      /\ \A i \in 1..(s + d) : w[i] = IF i <= s THEN u[i] ELSE data[i - s]
  <2>1. /\ w \in Seq(Int) /\ Len(w) = Len(u) + Len(data)
        /\ \A i \in 1..(Len(u) + Len(data)) : w[i] = IF i <= Len(u) THEN u[i] ELSE data[i - Len(u)]
    <3>1. u \in Seq(Int) /\ data \in Seq(Int)
      BY <1>6
    <3> QED BY ONLY <3>1, ConcatProperties
  <2> QED BY <1>1, <1>6, <2>1
<1> HIDE DEF w
<1>9. ASSUME NEW i \in 1..(s + d) PROVE v[i] = w[i]
  <2>1. a + i \in 1..l
    <3>1. s + d <= c /\ a + c <= l
      BY <1>2
    <3> QED BY ONLY <3>1, i \in 1..(s + d), a \in Nat, s \in Nat, c \in Nat, l \in Nat, d \in Nat
  <2>2. new[x.pool][a + i] = IF (a + i) - (a + s) \in 1..d THEN data[(a + i) - (a + s)]
                             ELSE pools[x.pool][a + i]
    BY <1>1, <1>2, <2>1 DEF Overwritten
  <2>3. (a + i) - (a + s) = i - s /\ (i - s \in 1..d <=> ~(i <= s)) /\ (i <= s => i \in 1..s)
    BY ONLY i \in 1..(s + d), a \in Nat, s \in Nat, d \in Nat
  <2> QED BY <1>6, <1>7, <1>8, <2>2, <2>3
<1>10. v = w
  BY <1>7, <1>8, <1>9, SeqEqual
<1> QED BY <1>3, <1>5, <1>10 DEF u, v, w, Continues
-----------------------------------------------------------------------------
(* Copied changes the memory and the two counts.                           *)
LEMMA CopiedIs ==
  ASSUME NEW b \in Buffers, NEW n \in Nat, Len(b.blocks) = n + 1, NEW data \in Seq(Int),
         NEW new,
         Overwritten(b.pools, new, b.blocks[n + 1].pool, b.blocks[n + 1].at + b.lbSize, data),
         new = [p \in DOMAIN b.pools |->
                  [k \in DOMAIN b.pools[p] |->
                     IF p = b.blocks[n + 1].pool
                          /\ k - (b.blocks[n + 1].at + b.lbSize) \in DOMAIN data
                     THEN data[k - (b.blocks[n + 1].at + b.lbSize)] ELSE b.pools[p][k]]]
  PROVE  LET c == Copied(b, data, Len(data))
         IN  /\ c \in Buffers /\ c.pools = new /\ c.lbSize = b.lbSize + Len(data)
             /\ c.size = b.size + Len(data) /\ c.blocks = b.blocks
             /\ c.nblocks = b.nblocks /\ c.npools = b.npools /\ c.poolUsed = b.poolUsed
<1> DEFINE c == Copied(b, data, Len(data))
<1>1. new \in Seq(Seq(Int))
  BY DEF Overwritten
<1>2. PICK l \in Nat, m \in Nat : l = b.lbSize + Len(data) /\ m = b.size + Len(data)
  <2>1. b.lbSize + Len(data) \in Nat /\ b.size + Len(data) \in Nat
    BY BufferFields, LenProperties
  <2> QED BY <2>1
<1>3. Last(b.blocks) = b.blocks[n + 1]
  BY DEF Last
<1>4. c = [b EXCEPT !.pools = new, !.lbSize = l, !.size = m]
  BY <1>2, <1>3 DEF Copied
<1> HIDE DEF c
<1>5. /\ c \in Buffers /\ c.pools = new /\ c.lbSize = l /\ c.size = m
      /\ c.blocks = b.blocks /\ c.nblocks = b.nblocks /\ c.npools = b.npools
      /\ c.poolUsed = b.poolUsed
  BY ONLY <1>1, <1>4, b \in Buffers, l \in Nat, m \in Nat DEF Buffers
<1> QED BY <1>2, <1>5 DEF c

(* The blocks are where they were.                                         *)
LEMMA StillApart ==
  ASSUME NEW s \in Seq(Blocks), NEW t \in Seq(Blocks), Len(s) = Len(t), Apart(s),
         \A k \in 1..Len(s) : /\ t[k].pool = s[k].pool /\ t[k].at = s[k].at
                              /\ t[k].capacity = s[k].capacity
  PROVE  Apart(t)
<1> SUFFICES ASSUME NEW k \in 1..Len(t), NEW j \in 1..(k - 1) PROVE Disjoint(t[j], t[k])
  BY DEF Apart
<1>1. k \in 1..Len(s) /\ j \in 1..Len(s)
  BY LenProperties
<1>2. Disjoint(s[j], s[k])
  BY <1>1 DEF Apart
<1> QED BY <1>1, <1>2 DEF Disjoint

(* Any data for which there is room.                                       *)
LEMMA CopiedAppends ==
  ASSUME NEW b, Good(b), NEW data \in Seq(Int), Room(b, Len(data))
  PROVE  /\ Good(Copied(b, data, Len(data)))
         /\ Contents(Copied(b, data, Len(data))) = Contents(b) \o data
<1> DEFINE c == Copied(b, data, Len(data))
           old == Sized(b)
           grown == Sized(c)
<1>1. PICK n \in Nat : Len(b.blocks) = n + 1
  BY SomeBlock
<1>2. b \in Buffers /\ InPlaces(old, b.pools, b.poolUsed) /\ Apart(old)
  BY DEF Good
<1>3. /\ b.pools \in Seq(Seq(Int)) /\ b.poolUsed \in Nat /\ b.lbSize \in Nat
      /\ Len(data) \in Nat /\ b.size \in Nat
  BY <1>2, BufferFields, LenProperties
<1>4. /\ old \in Seq(Blocks) /\ Len(old) = n + 1
      /\ \A k \in 1..n : old[k] = b.blocks[k]
      /\ b.blocks[n + 1] \in Blocks
      /\ old[n + 1] = [b.blocks[n + 1] EXCEPT !.size = b.lbSize]
  BY <1>1, <1>2, SizedIs
<1> DEFINE last == b.blocks[n + 1]
           x == old[n + 1]
           new == [p \in DOMAIN b.pools |->
                     [k \in DOMAIN b.pools[p] |->
                        IF p = last.pool /\ k - (last.at + b.lbSize) \in DOMAIN data
                        THEN data[k - (last.at + b.lbSize)] ELSE b.pools[p][k]]]
<1>5. /\ x \in Blocks /\ x.size = b.lbSize /\ x.pool = last.pool /\ x.at = last.at
      /\ x.capacity = last.capacity /\ x.lent = last.lent
      /\ last.at \in Nat /\ last.capacity \in Nat
  BY <1>3, <1>4, BlockFields
<1>6. b.lbSize + Len(data) <= x.capacity
  <2>1. Last(b.blocks) = last
    BY <1>1 DEF Last
  <2> QED BY <1>5, <2>1 DEF Room
<1>7. Overwritten(b.pools, new, last.pool, last.at + b.lbSize, data)
  <2>1. last.at + b.lbSize \in Nat
    BY <1>3, <1>5
  <2>2. b.pools \in Seq(Seq(Int)) /\ data \in Seq(Int)
    BY <1>3
  <2>3. new = PoolsWith(b.pools, last.pool, last.at + b.lbSize, data)
    BY DEF PoolsWith
  <2> HIDE DEF new
  <2> QED BY <2>1, <2>2, <2>3, PoolsOverwritten
<1>8. /\ c \in Buffers /\ c.pools = new /\ c.lbSize = b.lbSize + Len(data)
      /\ c.size = b.size + Len(data) /\ c.blocks = b.blocks
      /\ c.nblocks = b.nblocks /\ c.npools = b.npools /\ c.poolUsed = b.poolUsed
  BY <1>1, <1>2, <1>7, CopiedIs
<1> HIDE DEF new, c
<1>9. Overwritten(b.pools, c.pools, x.pool, x.at + x.size, data)
  BY <1>5, <1>7, <1>8
<1>10. /\ grown \in Seq(Blocks) /\ Len(grown) = n + 1
       /\ \A k \in 1..n : grown[k] = b.blocks[k]
       /\ grown[n + 1] = [last EXCEPT !.size = c.lbSize]
  BY <1>1, <1>8, SizedIs
<1> DEFINE y == grown[n + 1]
<1>11. y = [x EXCEPT !.size = x.size + Len(data)]
  <2>1. last \in Blocks
    BY <1>4
  <2> HIDE DEF last
  <2>2. [last EXCEPT !.size = b.lbSize + Len(data)]
          = [[last EXCEPT !.size = b.lbSize] EXCEPT !.size = b.lbSize + Len(data)]
    BY <2>1 DEF Blocks
  <2> QED BY <1>4, <1>5, <1>8, <1>10, <2>2 DEF last
<1> HIDE DEF last, x, y, old, grown
<1>12. InItsPlace(x, b.pools, b.poolUsed)
  <2>1. n + 1 \in 1..Len(old)
    BY <1>4
  <2> QED BY <1>2, <2>1 DEF InPlaces, x
<1>13. ASSUME NEW k \in 1..n
       PROVE  /\ grown[k] = old[k]
              /\ InItsPlace(grown[k], c.pools, b.poolUsed)
              /\ BytesIn(c.pools, grown[k]) = BytesIn(b.pools, old[k])
  <2>1. k \in 1..Len(old) /\ n + 1 \in 1..Len(old) /\ k \in 1..((n + 1) - 1)
    BY <1>4
  <2>2. grown[k] = old[k] /\ old[k] \in Blocks
    BY <1>4, <1>10, <2>1, ElementOfSeq DEF old, grown
  <2>3. InItsPlace(old[k], b.pools, b.poolUsed) /\ Disjoint(old[k], x)
    BY <1>2, <2>1 DEF InPlaces, Apart, x
  <2>4. old[k].pool = Lent \/ old[k].pool # x.pool
          \/ old[k].at + old[k].size <= x.at + x.size \/ x.at + x.size + Len(data) <= old[k].at
    <3>1. PICK z \in Blocks : z = old[k]
      BY <2>2
    <3>2. /\ z.at \in Nat /\ z.capacity \in Nat /\ z.size \in Nat
          /\ x.at \in Nat /\ x.capacity \in Nat /\ x.size \in Nat
      BY <1>5, BlockFields
    <3>3. z.size <= z.capacity /\ x.size + Len(data) <= x.capacity
      BY <1>5, <1>6, <2>3, <3>1 DEF InItsPlace
    <3>4. CASE x.pool = Lent
      BY <3>4
    <3>5. z.at + z.capacity <= x.at => z.at + z.size <= x.at + x.size
      BY <3>2, <3>3
    <3>6. x.at + x.capacity <= z.at => x.at + x.size + Len(data) <= z.at
      BY <1>3, <3>2, <3>3
    <3>7. \/ z.pool = Lent \/ x.pool = Lent \/ z.pool # x.pool
          \/ z.at + z.capacity <= x.at \/ x.at + x.capacity <= z.at
      BY <2>3, <3>1 DEF Disjoint
    <3> QED BY <3>1, <3>5, <3>6, <3>7
  <2>5. x.at + x.size \in Nat
    BY <1>3, <1>5
  <2>6. /\ InItsPlace(old[k], c.pools, b.poolUsed)
        /\ BytesIn(c.pools, old[k]) = BytesIn(b.pools, old[k])
    <3>1. /\ b.pools \in Seq(Seq(Int)) /\ b.poolUsed \in Nat /\ data \in Seq(Int)
          /\ old[k] \in Blocks /\ InItsPlace(old[k], b.pools, b.poolUsed)
          /\ x.at + x.size \in Nat /\ x.pool \in Nat /\ c.pools \in Seq(Seq(Int))
          /\ Overwritten(b.pools, c.pools, x.pool, x.at + x.size, data)
      BY <1>3, <1>5, <1>8, <1>9, <2>2, <2>3, <2>5, BlockFields, BufferFields
    <3>2. Clear(old[k], x.pool, x.at + x.size, Len(data))
      BY <2>4 DEF Clear
    <3>3. PICK P \in Nat, new2 \in Seq(Seq(Int)), z \in Blocks, u \in Nat, pools \in Seq(Seq(Int)),
               used \in Nat :
            /\ z = old[k] /\ u = x.at + x.size /\ P = x.pool /\ new2 = c.pools
            /\ pools = b.pools /\ used = b.poolUsed
      BY <3>1
    <3>4. /\ Overwritten(pools, new2, P, u, data) /\ InItsPlace(z, pools, used)
          /\ Clear(z, P, u, Len(data))
      BY <3>1, <3>2, <3>3
    <3>5. InItsPlace(z, new2, used) /\ SameBytes(z, pools, new2)
      BY <3>4, OthersKeepTheirBytes
    <3> QED BY <3>3, <3>5 DEF SameBytes
  <2> QED BY <2>2, <2>6
<1>14. /\ InItsPlace(y, c.pools, b.poolUsed)
       /\ BytesIn(c.pools, y) = BytesIn(b.pools, x) \o data
  <2>1. CASE x.pool # Lent
    <3>1. /\ b.pools \in Seq(Seq(Int)) /\ b.poolUsed \in Nat /\ data \in Seq(Int) /\ x \in Blocks
          /\ InItsPlace(x, b.pools, b.poolUsed) /\ x.pool # Lent
          /\ Overwritten(b.pools, c.pools, x.pool, x.at + x.size, data)
          /\ x.size + Len(data) <= x.capacity /\ c.pools \in Seq(Seq(Int))
      BY <1>3, <1>5, <1>6, <1>8, <1>9, <1>12, <2>1, BufferFields
    <3>2. PICK upto \in Nat : upto = x.at + x.size
      BY <1>3, <1>5
    <3>3. Overwritten(b.pools, c.pools, x.pool, upto, data)
      BY <3>1, <3>2
    <3>4. PICK new2 \in Seq(Seq(Int)), z \in Blocks, pools \in Seq(Seq(Int)), used \in Nat :
            z = x /\ new2 = c.pools /\ pools = b.pools /\ used = b.poolUsed
      BY <3>1
    <3>5. /\ Overwritten(pools, new2, z.pool, upto, data) /\ InItsPlace(z, pools, used)
          /\ z.pool # Lent /\ z.size + Len(data) <= z.capacity /\ upto = z.at + z.size
          /\ y = [z EXCEPT !.size = z.size + Len(data)]
      BY <1>11, <3>1, <3>2, <3>3, <3>4
    <3>6. InItsPlace(y, new2, used) /\ Continues(z, pools, y, new2, data)
      BY <3>5, LastBlockGrows
    <3> QED BY <3>4, <3>6 DEF Continues
  <2>2. CASE x.pool = Lent
    <3>1. x.size = x.capacity /\ x.capacity \in Nat
      BY <1>5, <1>12, <2>2, BlockFields DEF InItsPlace
    <3>2. Len(data) = 0
      BY <1>3, <1>5, <1>6, <3>1
    <3>3. data = <<>>
      BY <3>2
    <3>4. x.size + Len(data) = x.size
      BY <1>3, <1>5, <3>2
    <3>5. y = x
      BY <1>5, <1>11, <3>4 DEF Blocks
    <3>6. InItsPlace(x, c.pools, b.poolUsed) /\ BytesIn(c.pools, x) = BytesIn(b.pools, x)
      BY <1>12, <2>2 DEF InItsPlace, BytesIn
    <3>7. BytesIn(b.pools, x) \in Seq(Int)
      BY <1>3, <1>5, <1>12, BytesAre
    <3> QED BY <3>3, <3>5, <3>6, <3>7, ConcatEmptySeq
  <2> QED BY <2>1, <2>2
<1>15. \A k \in 1..(n + 1) : k \in 1..n \/ k = n + 1
  OBVIOUS
<1>16. InPlaces(grown, c.pools, c.poolUsed)
  BY <1>8, <1>10, <1>13, <1>14, <1>15 DEF InPlaces, y, grown
<1>17. Apart(grown)
  <2>1. y.pool = x.pool /\ y.at = x.at /\ y.capacity = x.capacity
    <3>1. x.size + Len(data) \in Nat
      BY <1>3, <1>5
    <3> QED BY <1>5, <1>11, <3>1, BlockFields
  <2>2. \A k \in 1..(n + 1) : /\ grown[k].pool = old[k].pool /\ grown[k].at = old[k].at
                              /\ grown[k].capacity = old[k].capacity
    BY <1>13, <1>15, <2>1 DEF x, y
  <2>3. old \in Seq(Blocks) /\ grown \in Seq(Blocks) /\ Len(old) = n + 1 /\ Len(grown) = n + 1
    BY <1>4, <1>10 DEF old, grown
  <2> QED BY <1>2, <2>2, <2>3, StillApart
<1>18. Contents(c) = Contents(b) \o data
  <2> DEFINE s == Parts(b.pools, old)
             t == Parts(c.pools, grown)
  <2>1. /\ old \in Seq(Blocks) /\ grown \in Seq(Blocks) /\ Len(old) = n + 1
        /\ Len(grown) = n + 1 /\ c.pools \in Seq(Seq(Int)) /\ c.poolUsed \in Nat
    BY <1>4, <1>8, <1>10, BufferFields DEF old, grown
  <2>2. s \in Seq(Seq(Int)) /\ Len(s) = n + 1
        /\ \A k \in 1..(n + 1) : s[k] = BytesIn(b.pools, old[k])
    <3>1. /\ b.pools \in Seq(Seq(Int)) /\ b.poolUsed \in Nat /\ old \in Seq(Blocks)
          /\ InPlaces(old, b.pools, b.poolUsed)
      BY <1>2, <1>3, <2>1, BufferFields
    <3>2. /\ s \in Seq(Seq(Int)) /\ Len(s) = Len(old)
          /\ \A k \in 1..Len(old) : s[k] = BytesIn(b.pools, old[k])
      BY <3>1, PartsAre
    <3> QED BY <2>1, <3>2
  <2>3. t \in Seq(Seq(Int)) /\ Len(t) = n + 1
        /\ \A k \in 1..(n + 1) : t[k] = BytesIn(c.pools, grown[k])
    <3>1. /\ t \in Seq(Seq(Int)) /\ Len(t) = Len(grown)
          /\ \A k \in 1..Len(grown) : t[k] = BytesIn(c.pools, grown[k])
      BY <1>16, <2>1, PartsAre
    <3> QED BY <2>1, <3>1
  <2>4. Contents(b) = FlattenSeq(s) /\ Contents(c) = FlattenSeq(t)
    BY <1>1, <1>2, <1>8, ContentsAre DEF old, grown
  <2> HIDE DEF s, t
  <2>5. /\ n + 1 \in 1..(n + 1) /\ \A k \in 1..n : k \in 1..(n + 1)
    OBVIOUS
  <2>6. \A k \in 1..n : t[k] = s[k]
    BY <1>13, <2>2, <2>3, <2>5
  <2>7. t[n + 1] = s[n + 1] \o data
    BY <1>14, <2>2, <2>3, <2>5 DEF x, y
  <2>8. FlattenSeq(t) = FlattenSeq(s) \o data
    BY <2>2, <2>3, <2>6, <2>7, FlattenGrow
  <2> QED BY <2>4, <2>8
<1>19. Len(Contents(c)) = Len(Contents(b)) + Len(data)
  <2>1. Contents(b) \in Seq(Int) /\ data \in Seq(Int)
    BY ContentsType
  <2>2. Len(Contents(b) \o data) = Len(Contents(b)) + Len(data)
    BY ONLY <2>1, ConcatProperties
  <2> QED BY <1>18, <2>2
<1>20. /\ Len(c.blocks) \in 1..c.nblocks /\ Len(c.pools) \in 1..c.npools
       /\ Len(c.pools) = Len(b.pools)
  BY <1>8, <1>9 DEF Good, Overwritten
<1>21. Len(c.pools[Len(c.pools)]) = Len(b.pools[Len(b.pools)])
  <2>1. Len(b.pools) \in 1..Len(b.pools)
    <3>1. Len(b.pools) \in Nat /\ Len(b.pools) # 0
      BY <1>2, BufferFields DEF Good
    <3> QED BY <3>1
  <2>2. \A p \in 1..Len(b.pools) : Len(c.pools[p]) = Len(b.pools[p])
    BY <1>9 DEF Overwritten
  <2> QED BY <1>20, <2>1, <2>2
<1>22. c.poolUsed <= Len(c.pools[Len(c.pools)]) /\ PoolSize <= Len(c.pools[Len(c.pools)])
  BY <1>8, <1>21 DEF Good
<1>23. c.size = Len(Contents(c))
  BY <1>8, <1>19 DEF Good
<1>24. Good(c)
  BY <1>8, <1>16, <1>17, <1>20, <1>22, <1>23 DEF Good, grown
<1> QED BY <1>18, <1>24 DEF c
-----------------------------------------------------------------------------
(* The operations. *)

(* A block is opened when there is no room, and then there is.             *)
LEMMA OpenedIfFull ==
  ASSUME NEW b, Good(b), NEW data \in Seq(Int), NEW capacity \in Nat, Len(data) <= capacity
  PROVE  LET c == Copied(IF Room(b, Len(data)) THEN b ELSE OpenBlock(b, capacity),
                         data, Len(data))
         IN  Good(c) /\ Contents(c) = Contents(b) \o data
<1>1. CASE Room(b, Len(data))
  BY <1>1, CopiedAppends
<1>2. CASE ~Room(b, Len(data))
  <2> DEFINE o == OpenBlock(b, capacity)
  <2>1. /\ Good(o) /\ Contents(o) = Contents(b) /\ o.lbSize = 0
        /\ o.blocks[Len(o.blocks)].capacity = capacity
    BY OpenBlockIs
  <2> HIDE DEF o
  <2>2. Room(o, Len(data))
    <3>1. 0 + Len(data) <= capacity
      BY LenProperties
    <3> QED BY <2>1, <3>1 DEF Room, Last
  <2>3. /\ Good(Copied(o, data, Len(data)))
        /\ Contents(Copied(o, data, Len(data))) = Contents(o) \o data
    BY <2>1, <2>2, CopiedAppends
  <2> QED BY <1>2, <2>1, <2>3 DEF o
<1> QED BY <1>1, <1>2

(* write, put, copy_from: what they are given goes to the end.             *)
LEMMA WriteAppends ==
  ASSUME NEW b, Good(b), NEW data \in Seq(Int)
  PROVE  Good(write(b, data)) /\ Contents(write(b, data)) = Contents(b) \o data
<1>1. Len(data) \in Nat /\ Len(data) <= Len(data)
  BY LenProperties
<1> QED BY <1>1, OpenedIfFull DEF write

LEMMA PutAppends ==
  ASSUME NEW b, Good(b), NEW c \in Int
  PROVE  Good(put(b, c)) /\ Contents(put(b, c)) = Contents(b) \o <<c>>
<1>1. <<c>> \in Seq(Int) /\ Len(<<c>>) = 1
  OBVIOUS
<1>2. BlockSize \in Nat /\ 1 <= BlockSize
  BY WriteBufferAssumption
<1>3. Len(<<c>>) <= BlockSize
  BY <1>1, <1>2
<1>4. LET d == Copied(IF Room(b, Len(<<c>>)) THEN b ELSE OpenBlock(b, BlockSize),
                      <<c>>, Len(<<c>>))
      IN  Good(d) /\ Contents(d) = Contents(b) \o <<c>>
  BY <1>1, <1>2, <1>3, OpenedIfFull
<1> QED BY <1>1, <1>4 DEF put

LEMMA CopyFromAppends ==
  ASSUME NEW b, Good(b), NEW o, Good(o)
  PROVE  Good(copy_from(b, o)) /\ Contents(copy_from(b, o)) = Contents(b) \o Contents(o)
<1>1. Contents(o) \in Seq(Int) /\ o.size = Len(Contents(o))
  BY ContentsType DEF Good
<1>2. Len(Contents(o)) \in Nat /\ Len(Contents(o)) <= Len(Contents(o))
  BY <1>1, LenProperties
<1> QED BY <1>1, <1>2, OpenedIfFull DEF copy_from

(* A new buffer is good and empty.                                         *)
LEMMA ConstructedIs == Good(Constructed) /\ Contents(Constructed) = <<>>
<1> DEFINE x == Block(1, 0, BlockSize, <<>>)
<1>1. /\ PoolSize \in Nat /\ BlockSize \in Nat /\ BlockSize <= PoolSize
      /\ NBlocks \in Nat /\ NPools \in Nat /\ 1 <= NBlocks /\ 1 <= NPools
  BY WriteBufferAssumption
<1>2. malloc(PoolSize) \in Seq(Int) /\ Len(malloc(PoolSize)) = PoolSize
  BY <1>1, MallocIs
<1>3. PICK pool \in Seq(Int) : pool = malloc(PoolSize) /\ Len(pool) = PoolSize
  BY <1>2
<1>4. /\ x \in Blocks /\ x.pool = 1 /\ x.at = 0 /\ x.capacity = BlockSize /\ x.size = 0
  BY <1>1 DEF Block, Blocks
<1>5. Constructed = [pools |-> <<pool>>, npools |-> NPools, poolUsed |-> BlockSize,
                     blocks |-> <<x>>, nblocks |-> NBlocks, lbSize |-> 0, size |-> 0]
  BY <1>3 DEF Constructed
<1> DEFINE b == Constructed
<1> HIDE DEF x, b
<1>6. /\ <<pool>> \in Seq(Seq(Int)) /\ Len(<<pool>>) = 1 /\ <<pool>>[1] = pool
      /\ <<x>> \in Seq(Blocks) /\ Len(<<x>>) = 1 /\ <<x>>[1] = x
  BY <1>4
<1>7. /\ b \in Buffers /\ b.pools = <<pool>> /\ b.npools = NPools /\ b.poolUsed = BlockSize
      /\ b.blocks = <<x>> /\ b.nblocks = NBlocks /\ b.lbSize = 0 /\ b.size = 0
  BY <1>1, <1>5, <1>6 DEF b, Buffers
<1>8. Sized(b) \in Seq(Blocks) /\ Len(Sized(b)) = 1 /\ Sized(b)[1] = x
  <2>1. /\ Sized(b) \in Seq(Blocks) /\ Len(Sized(b)) = 0 + 1
        /\ Sized(b)[0 + 1] = [b.blocks[0 + 1] EXCEPT !.size = b.lbSize]
    <3>1. PICK n \in Nat : n = 0
      OBVIOUS
    <3>2. Len(b.blocks) = n + 1 /\ b \in Buffers
      BY <1>6, <1>7, <3>1
    <3> QED BY <3>1, <3>2, SizedIs
  <2>2. [x EXCEPT !.size = 0] = x
    BY <1>4 DEF Blocks
  <2> QED BY <1>6, <1>7, <2>1, <2>2
<1>9. InItsPlace(x, b.pools, b.poolUsed)
  <2>1. x.at + x.capacity = BlockSize
    BY <1>1, <1>4
  <2> QED BY <1>1, <1>3, <1>4, <1>6, <1>7, <2>1 DEF InItsPlace, Lent
<1>10. InPlaces(Sized(b), b.pools, b.poolUsed) /\ Apart(Sized(b))
  BY <1>8, <1>9 DEF InPlaces, Apart
<1>11. Contents(b) = <<>>
  <2> DEFINE s == Parts(b.pools, Sized(b))
             d == BytesIn(b.pools, x)
  <2>1. s \in Seq(Seq(Int)) /\ Len(s) = 1 /\ s[1] = d
    <3>1. b.pools \in Seq(Seq(Int)) /\ b.poolUsed \in Nat
      BY <1>7, BufferFields
    <3>2. /\ Parts(b.pools, Sized(b)) \in Seq(Seq(Int))
          /\ Len(Parts(b.pools, Sized(b))) = Len(Sized(b))
          /\ \A k \in 1..Len(Sized(b)) : Parts(b.pools, Sized(b))[k] = BytesIn(b.pools, Sized(b)[k])
      BY <1>8, <1>10, <3>1, PartsAre
    <3>3. 1 \in 1..Len(Sized(b))
      BY <1>8
    <3> QED BY <1>8, <3>2, <3>3
  <2>2. d = <<>>
    <3>1. b.pools \in Seq(Seq(Int)) /\ b.poolUsed \in Nat
      BY <1>7, BufferFields
    <3>2. d \in Seq(Int) /\ Len(d) = 0
      BY <1>4, <1>9, <3>1, BytesAre
    <3> QED BY <3>2
  <2>3. Contents(b) = FlattenSeq(s)
    <3>1. Len(b.blocks) = 0 + 1
      BY <1>6, <1>7
    <3> QED BY <1>7, <3>1, ContentsAre
  <2> HIDE DEF s, d
  <2>4. s = <<d>>
    BY <2>1
  <2>5. <<>> \in Seq(Int)
    OBVIOUS
  <2> QED BY <2>2, <2>3, <2>4, <2>5, FlattenOfOne
<1>12. Good(b)
  <2>1. b.size = Len(Contents(b))
    BY <1>7, <1>11
  <2>2. /\ Len(b.blocks) \in 1..b.nblocks /\ Len(b.pools) \in 1..b.npools
        /\ b.poolUsed <= Len(b.pools[Len(b.pools)]) /\ PoolSize <= Len(b.pools[Len(b.pools)])
    BY <1>1, <1>3, <1>6, <1>7
  <2> QED BY <1>7, <1>10, <2>1, <2>2 DEF Good
<1> QED BY <1>11, <1>12 DEF b

(* The strengthening implies what the runs check.                          *)
LEMMA GoodIsSound ==
  ASSUME NEW b, Good(b)
  PROVE  Sound(b)
<1>1. PICK n \in Nat : Len(b.blocks) = n + 1
  BY SomeBlock
<1>2. b \in Buffers /\ b.nblocks \in Nat /\ b.npools \in Nat
  BY BufferFields DEF Good
<1>3. PICK blocks \in Seq(Blocks) : blocks = Sized(b) /\ Len(blocks) = n + 1
  BY <1>1, <1>2, SizedIs
<1>4. Stored(b).blocks = blocks
  BY <1>1, <1>2, <1>3, StoredIs
<1>5. DOMAIN blocks = 1..(n + 1)
  BY <1>3, LenProperties
<1>6. ASSUME NEW k \in 1..(n + 1)
      PROVE  /\ blocks[k].size <= blocks[k].capacity
             /\ blocks[k].pool # Lent =>
                  blocks[k].at + blocks[k].capacity <= Len(b.pools[blocks[k].pool])
             /\ \A j \in 1..(k - 1) : Disjoint(blocks[j], blocks[k])
  <2>1. InItsPlace(blocks[k], b.pools, b.poolUsed)
    BY <1>3 DEF Good, InPlaces
  <2>2. \A j \in 1..(k - 1) : Disjoint(blocks[j], blocks[k])
    BY <1>3 DEF Good, Apart
  <2> QED BY <2>1, <2>2 DEF InItsPlace
<1>7. /\ Len(blocks) <= b.nblocks /\ Len(b.pools) <= b.npools
      /\ b.poolUsed <= Len(Last(b.pools))
      /\ b.size = Len(Contents(b))
  BY <1>1, <1>2, <1>3 DEF Good, Last
<1> QED BY <1>4, <1>5, <1>6, <1>7 DEF Sound
-----------------------------------------------------------------------------
(* The calls that write a value. *)

CallType ==
  {c \in [method : {"put", "write", "write_zerocopy"}, data : Seq(Int)] :
     c.method = "put" => Len(c.data) = 1}

(* Words whose bytes may be any numbers: no bound on sizes is needed.      *)
Wide == [1..8 -> Int]

WideValues ==
  [kind : {"uint", "int", "array", "map"}, x : Wide]
    \cup [kind : {"nil", "bool", "float", "double", "raw"}, x : Seq(Int)]

(* The values of the model are among them.                                 *)
LEMMA ValuesAreWide == Values \subseteq WideValues
<1>1. Byte \subseteq Int
  BY DEF Byte
<1>2. Word \subseteq Wide /\ Seq(Byte) \subseteq Seq(Int)
  <2>1. \A x \in Word : x \in Wide
    BY <1>1 DEF Word, Wide
  <2>2. ASSUME NEW x \in Seq(Byte) PROVE x \in Seq(Int)
    <3>1. /\ Len(x) \in Nat /\ DOMAIN x = 1..Len(x) /\ x \in [1..Len(x) -> Byte]
          /\ \A k \in 1..Len(x) : x[k] \in Int
      BY <1>1, LenProperties, ElementOfSeq
    <3>2. x = [k \in 1..Len(x) |-> x[k]]
      BY <3>1
    <3> QED BY <3>1, <3>2
  <2> QED BY <2>1, <2>2
<1> QED BY <1>2 DEF Values, WideValues

(* Calls that a buffer takes: with bytes, with one byte, and both.         *)
LEMMA OneCall ==
  ASSUME NEW method \in {"write", "write_zerocopy"}, NEW data \in Seq(Int)
  PROVE  Call(method, data) \in Seq(CallType)
<1>1. [method |-> method, data |-> data] \in CallType
  BY DEF CallType
<1> QED BY <1>1 DEF Call

LEMMA OnePut ==
  ASSUME NEW c \in Int
  PROVE  Call("put", <<c>>) \in Seq(CallType)
<1>1. <<c>> \in Seq(Int) /\ Len(<<c>>) = 1
  OBVIOUS
<1>2. [method |-> "put", data |-> <<c>>] \in CallType
  BY <1>1 DEF CallType
<1> QED BY <1>2 DEF Call

LEMMA PutAndWrite ==
  ASSUME NEW c \in Int, NEW data \in Seq(Int)
  PROVE  Call("put", <<c>>) \o Call("write", data) \in Seq(CallType)
<1>1. Call("put", <<c>>) \in Seq(CallType) /\ Call("write", data) \in Seq(CallType)
  BY OnePut, OneCall
<1> HIDE DEF Call
<1> QED BY <1>1, ConcatProperties

(* A word as a sequence of eight numbers.                                  *)
LEMMA WideIs ==
  ASSUME NEW x \in Wide
  PROVE  x \in Seq(Int) /\ Len(x) = 8 /\ \A k \in 1..8 : x[k] \in Int
<1>1. x = [k \in 1..8 |-> x[k]] /\ \A k \in 1..8 : x[k] \in Int
  BY DEF Wide
<1>2. 8 \in Nat
  OBVIOUS
<1> QED BY <1>1, <1>2

LEMMA LowIs ==
  ASSUME NEW x \in Wide, NEW n \in 1..8
  PROVE  Low(x, n) \in Seq(Int)
<1>1. x \in Seq(Int) /\ Len(x) = 8
  BY WideIs
<1>2. 9 - n \in Int /\ 8 \in Int /\ \A i \in (9 - n)..8 : x[i] \in Int
  BY DEF Wide
<1> QED BY <1>2, SubSeqProperties DEF Low

(* Eight bytes hold every number, so that a width is always found.         *)
LEMMA AllEight ==
  ASSUME NEW x \in Wide
  PROVE  IsUnsigned(x, 8) /\ IsSigned(x, 8)
<1>1. x \in Seq(Int) /\ Len(x) = 8
  BY WideIs
<1>2. Low(x, 8) = x
  <2>1. 9 - 8 = 1 /\ SubSeq(x, 1, 8) = x
    BY <1>1, SubSeqFull
  <2> QED BY <2>1 DEF Low
<1>3. ASSUME NEW d PROVE Filled(x, d) = x
  <2> DEFINE e == [k \in 1..(8 - Len(x)) |-> d]
  <2>1. e = <<>>
    <3>1. 1..(8 - Len(x)) = {}
      BY <1>1
    <3>2. e = [k \in {} |-> d]
      BY <3>1
    <3> QED BY <3>2
  <2> HIDE DEF e
  <2>2. <<>> \o x = x
    BY <1>1, ConcatEmptySeq
  <2> QED BY <2>1, <2>2 DEF Filled, e
<1> QED BY <1>2, <1>3 DEF IsUnsigned, IsSigned, ZeroExtended, SignExtended

(* One of the four widths is the narrowest that does.                      *)
LEMMA Narrowest ==
  ASSUME NEW S \in SUBSET (1..4), 4 \in S
  PROVE  Min(S) \in 1..4
<1>1. \E x \in S : \A y \in S : x <= y
  <2>1. \A k \in 1..4 : k \in {1, 2, 3, 4}
    OBVIOUS
  <2>2. 4 \in S /\ S \subseteq {1, 2, 3, 4}
    BY <2>1
  <2>3. CASE 1 \in S
    BY <2>2, <2>3
  <2>4. CASE 1 \notin S /\ 2 \in S
    BY <2>2, <2>4
  <2>5. CASE 1 \notin S /\ 2 \notin S /\ 3 \in S
    BY <2>2, <2>5
  <2>6. CASE 1 \notin S /\ 2 \notin S /\ 3 \notin S
    BY <2>2, <2>6
  <2> QED BY <2>3, <2>4, <2>5, <2>6
<1>2. Min(S) \in S
  BY <1>1 DEF Min
<1> QED BY <1>2
-----------------------------------------------------------------------------
(* The calls that write a header and a number, a number, a size, a string. *)
LEMMA NumberedType ==
  ASSUME NEW x \in Wide, NEW k \in 1..4
  PROVE  Numbered(Uints, k, x) \in Seq(CallType) /\ Numbered(Ints, k, x) \in Seq(CallType)
<1>1. k \in {1, 2, 3, 4}
  OBVIOUS
<1>2. Widths[k] \in 1..8
  BY <1>1 DEF Widths
<1>3. header[Uints[k]] \in Int /\ header[Ints[k]] \in Int
  BY <1>1 DEF header, Uints, Ints
<1>4. Low(x, Widths[k]) \in Seq(Int)
  BY <1>2, LowIs
<1> QED BY <1>3, <1>4, PutAndWrite DEF Numbered

LEMMA WidthExists ==
  ASSUME NEW x \in Wide
  PROVE  Unsigned(x) \in 1..4 /\ Signed(x) \in 1..4
<1>1. IsUnsigned(x, Widths[4]) /\ IsSigned(x, Widths[4])
  BY AllEight DEF Widths
<1>2. 4 \in {k \in 1..4 : IsUnsigned(x, Widths[k])} /\ 4 \in {k \in 1..4 : IsSigned(x, Widths[k])}
  BY <1>1
<1> QED BY <1>2, Narrowest DEF Unsigned, Signed

LEMMA NumberTypes ==
  ASSUME NEW x \in Wide
  PROVE  write_uint(x) \in Seq(CallType) /\ write_int(x) \in Seq(CallType)
<1>1. x[8] \in Int
  BY WideIs
<1>2. /\ Numbered(Uints, Unsigned(x), x) \in Seq(CallType)
      /\ Numbered(Ints, Signed(x), x) \in Seq(CallType)
  BY WidthExists, NumberedType
<1>3. write_uint_fixed(x[8]) \in Seq(CallType)
  <2>1. <<x[8] % 128>> \in Seq(Int)
    BY <1>1
  <2> QED BY <2>1, OneCall DEF write_uint_fixed
<1>4. write_int_fixed(x[8]) \in Seq(CallType)
  <2>1. <<((255 - x[8]) \div 32) * 32>> \in Seq(Int)
    BY <1>1
  <2> QED BY <2>1, OneCall DEF write_int_fixed
<1> QED BY <1>2, <1>3, <1>4 DEF write_uint, write_int

LEMMA SizeTypes ==
  ASSUME NEW x \in Wide
  PROVE  /\ write_array_size(x) \in Seq(CallType) /\ write_map_size(x) \in Seq(CallType)
         /\ WriteSize(x, 31, header.RAW_FIXED, header.RAW_16, header.RAW_32) \in Seq(CallType)
<1>1. ASSUME NEW max, NEW fixed \in Int, NEW h16 \in Int, NEW h32 \in Int
      PROVE  WriteSize(x, max, fixed, h16, h32) \in Seq(CallType)
  <2>1. fixed + x[8] \in Int
    <3>1. 8 \in 1..8
      OBVIOUS
    <3>2. x[8] \in Int
      BY <3>1, WideIs
    <3> QED BY <3>2
  <2>2. 2 \in 1..8 /\ 4 \in 1..8
    OBVIOUS
  <2>3. Low(x, 2) \in Seq(Int) /\ Low(x, 4) \in Seq(Int)
    BY <2>2, LowIs
  <2>4. /\ Call("put", <<fixed + x[8]>>) \in Seq(CallType)
        /\ Call("put", <<h16>>) \o Call("write", Low(x, 2)) \in Seq(CallType)
        /\ Call("put", <<h32>>) \o Call("write", Low(x, 4)) \in Seq(CallType)
    BY <2>1, <2>3, OnePut, PutAndWrite
  <2> QED BY <2>4 DEF WriteSize
<1>2. /\ header.ARRAY_FIXED \in Int /\ header.ARRAY_16 \in Int /\ header.ARRAY_32 \in Int
      /\ header.MAP_FIXED \in Int /\ header.MAP_16 \in Int /\ header.MAP_32 \in Int
      /\ header.RAW_FIXED \in Int /\ header.RAW_16 \in Int /\ header.RAW_32 \in Int
  BY DEF header
<1> QED BY <1>1, <1>2 DEF write_array_size, write_map_size

(* A size is a word.                                                       *)
LEMMA ToWordType ==
  ASSUME NEW n \in Nat
  PROVE  ToWord(n) \in Wide
<1> DEFINE b == <<n \div 65536, (n \div 256) % 256, n % 256>>
           z == [k \in 1..5 |-> 0]
           w == z \o b
<1>1. n \div 65536 \in Int /\ (n \div 256) % 256 \in Int /\ n % 256 \in Int
  OBVIOUS
<1>2. b \in Seq(Int) /\ Len(b) = 3
  BY <1>1
<1>3. z \in Seq(Int) /\ Len(z) = 5
  OBVIOUS
<1> HIDE DEF b, z
<1>4. w \in Seq(Int) /\ Len(w) = 8
  <2>1. w \in Seq(Int) /\ Len(w) = Len(z) + Len(b)
    <3>1. z \in Seq(Int) /\ b \in Seq(Int)
      BY <1>2, <1>3
    <3> QED BY ONLY <3>1, ConcatProperties
  <2> QED BY <1>2, <1>3, <2>1
<1>5. ToWord(n) = w
  <2>1. 8 - Len(b) = 5
    BY <1>2
  <2> QED BY <2>1 DEF ToWord, ZeroExtended, Filled, b, z
<1> HIDE DEF w
<1>6. w \in [1..8 -> Int]
  BY <1>4, LenProperties
<1> QED BY <1>5, <1>6 DEF Wide

LEMMA RawType ==
  ASSUME NEW data \in Seq(Int)
  PROVE  write_raw(data) \in Seq(CallType)
<1>1. ToWord(Len(data)) \in Wide
  BY LenProperties, ToWordType
<1>2. Call("write_zerocopy", data) \in Seq(CallType)
  BY OneCall
<1>3. WriteSize(ToWord(Len(data)), 31, header.RAW_FIXED, header.RAW_16, header.RAW_32)
        \in Seq(CallType)
  BY <1>1, SizeTypes
<1> QED BY <1>2, <1>3, ConcatProperties DEF write_raw

(* Each kind of value by itself: what its data is and how it is written.   *)
LEMMA WrittenIs ==
  ASSUME NEW v \in WideValues
  PROVE  /\ v.kind \in {"uint", "int", "array", "map"} => v.x \in Wide
         /\ v.kind \in {"nil", "bool", "float", "double", "raw"} => v.x \in Seq(Int)
         /\ v.kind \in {"uint", "int", "array", "map", "nil", "bool", "float", "double", "raw"}
         /\ v.kind = "uint" => Written(v) = write_uint(v.x)
         /\ v.kind = "int" => Written(v) = write_int(v.x)
         /\ v.kind = "nil" => Written(v) = Call("put", <<header.NIL>>)
         /\ v.kind = "bool" =>
              Written(v) = Call("put", <<IF v.x = <<1>> THEN header.TRUE ELSE header.FALSE>>)
         /\ v.kind = "float" => Written(v) = Call("put", <<header.FLOAT>>) \o Call("write", v.x)
         /\ v.kind = "double" => Written(v) = Call("put", <<header.DOUBLE>>) \o Call("write", v.x)
         /\ v.kind = "array" => Written(v) = write_array_size(v.x)
         /\ v.kind = "map" => Written(v) = write_map_size(v.x)
         /\ v.kind = "raw" => Written(v) = write_raw(v.x)
<1>1. /\ v.kind \in {"uint", "int", "array", "map"} => v.x \in Wide
      /\ v.kind \in {"nil", "bool", "float", "double", "raw"} => v.x \in Seq(Int)
      /\ v.kind \in {"uint", "int", "array", "map", "nil", "bool", "float", "double", "raw"}
  BY DEF WideValues
<1>2. v.kind = "uint" => Written(v) = write_uint(v.x)
  BY Zenon DEF Written
<1>3. v.kind = "int" => Written(v) = write_int(v.x)
  BY Zenon DEF Written
<1>4. v.kind = "nil" => Written(v) = Call("put", <<header.NIL>>)
  BY Zenon DEF Written
<1>5. v.kind = "bool" =>
        Written(v) = Call("put", <<IF v.x = <<1>> THEN header.TRUE ELSE header.FALSE>>)
  BY Zenon DEF Written
<1>6. v.kind = "float" => Written(v) = Call("put", <<header.FLOAT>>) \o Call("write", v.x)
  BY Zenon DEF Written
<1>7. v.kind = "double" => Written(v) = Call("put", <<header.DOUBLE>>) \o Call("write", v.x)
  BY Zenon DEF Written
<1>8. v.kind = "array" => Written(v) = write_array_size(v.x)
  BY Zenon DEF Written
<1>9. v.kind = "map" => Written(v) = write_map_size(v.x)
  BY Zenon DEF Written
<1>10. v.kind = "raw" => Written(v) = write_raw(v.x)
  BY Zenon DEF Written
<1> QED BY <1>1, <1>2, <1>3, <1>4, <1>5, <1>6, <1>7, <1>8, <1>9, <1>10

(* So a value is written with calls that a buffer takes.                   *)
LEMMA WrittenType ==
  ASSUME NEW v \in WideValues
  PROVE  Written(v) \in Seq(CallType)
<1>1. v.kind \in {"uint", "int", "array", "map", "nil", "bool", "float", "double", "raw"}
  BY WrittenIs
<1>2. CASE v.kind \in {"uint", "int", "array", "map"}
  <2>1. v.x \in Wide
    BY <1>2, WrittenIs
  <2>2. /\ write_uint(v.x) \in Seq(CallType) /\ write_int(v.x) \in Seq(CallType)
        /\ write_array_size(v.x) \in Seq(CallType) /\ write_map_size(v.x) \in Seq(CallType)
    BY <2>1, NumberTypes, SizeTypes
  <2> QED BY <1>2, <2>2, WrittenIs
<1>3. CASE v.kind \in {"nil", "bool", "float", "double", "raw"}
  <2>1. v.x \in Seq(Int)
    BY <1>3, WrittenIs
  <2>2. /\ header.NIL \in Int /\ header.TRUE \in Int /\ header.FALSE \in Int
        /\ header.FLOAT \in Int /\ header.DOUBLE \in Int
    BY DEF header
  <2>3. (IF v.x = <<1>> THEN header.TRUE ELSE header.FALSE) \in Int
    BY <2>2
  <2>4. /\ Call("put", <<header.NIL>>) \in Seq(CallType)
        /\ Call("put", <<IF v.x = <<1>> THEN header.TRUE ELSE header.FALSE>>) \in Seq(CallType)
    BY <2>2, <2>3, OnePut
  <2>5. /\ Call("put", <<header.FLOAT>>) \o Call("write", v.x) \in Seq(CallType)
        /\ Call("put", <<header.DOUBLE>>) \o Call("write", v.x) \in Seq(CallType)
    BY <2>1, <2>2, PutAndWrite
  <2>6. write_raw(v.x) \in Seq(CallType)
    BY <2>1, RawType
  <2> QED BY <1>3, <2>4, <2>5, <2>6, WrittenIs
<1> QED BY <1>1, <1>2, <1>3
-----------------------------------------------------------------------------
(* What calls do to a buffer. *)

(* And so are several values.                                              *)
LEMMA CallsType ==
  ASSUME NEW values \in Seq(WideValues)
  PROVE  Calls(values) \in Seq(CallType)
<1>1. Len(values) \in Nat /\ DOMAIN values = 1..Len(values)
  BY LenProperties
<1>2. \A k \in 1..Len(values) : Written(values[k]) \in Seq(CallType)
  BY ElementOfSeq, WrittenType
<1>3. [k \in DOMAIN values |-> Written(values[k])] \in Seq(Seq(CallType))
  BY <1>1, <1>2
<1> QED BY <1>3, FlattenAll DEF Calls

DataOf(calls) == [k \in DOMAIN calls |-> calls[k].data]

(* The bytes of the calls are what a plain stream would get.               *)
LEMMA DataIs ==
  ASSUME NEW calls \in Seq(CallType)
  PROVE  /\ DataOf(calls) \in Seq(Seq(Int)) /\ Len(DataOf(calls)) = Len(calls)
         /\ \A k \in 1..Len(calls) : DataOf(calls)[k] = calls[k].data
         /\ Encoded(calls) = FlattenSeq(DataOf(calls))
         /\ Encoded(calls) \in Seq(Int)
<1>1. Len(calls) \in Nat /\ DOMAIN calls = 1..Len(calls)
  BY LenProperties
<1>2. \A k \in 1..Len(calls) : calls[k].data \in Seq(Int)
  BY ElementOfSeq DEF CallType
<1>3. DataOf(calls) = [k \in 1..Len(calls) |-> calls[k].data]
  BY <1>1 DEF DataOf
<1>4. DataOf(calls) \in Seq(Seq(Int)) /\ Len(DataOf(calls)) = Len(calls)
  BY <1>1, <1>2, <1>3
<1>5. FlattenSeq(DataOf(calls)) \in Seq(Int)
  BY <1>4, FlattenAll
<1> QED BY <1>3, <1>4, <1>5 DEF Encoded, DataOf

(* One call on a good buffer.                                              *)
LEMMA CalledAppends ==
  ASSUME NEW b, Good(b), NEW call \in CallType
  PROVE  Good(Called(b, call)) /\ Contents(Called(b, call)) = Contents(b) \o call.data
<1>1. /\ call.method \in {"put", "write", "write_zerocopy"} /\ call.data \in Seq(Int)
      /\ call.method = "put" => Len(call.data) = 1
  BY DEF CallType
<1>2. CASE call.method = "put"
  <2>1. PICK data \in Seq(Int) : data = call.data /\ Len(data) = 1
    BY <1>1, <1>2
  <2>2. data[1] \in Int /\ data = <<data[1]>>
    BY <2>1
  <2>3. Called(b, call) = put(b, data[1])
    BY <1>2, <2>1 DEF Called
  <2> QED BY <2>1, <2>2, <2>3, PutAppends
<1>3. CASE call.method = "write"
  BY <1>1, <1>3, WriteAppends DEF Called
<1>4. CASE call.method = "write_zerocopy"
  BY <1>1, <1>4, ZerocopyAppends DEF Called
<1> QED BY <1>1, <1>2, <1>3, <1>4

(* f[i] is the buffer after i of the calls.                                *)
Does(f, b, calls, n) ==
  f = [i \in 0..n |-> IF i = 0 THEN b ELSE Called(f[i - 1], calls[i])]

(* There is such an f, for any number of calls.                            *)
LEMMA DoesExists ==
  ASSUME NEW b, NEW calls, NEW n \in Nat
  PROVE  \E f : Does(f, b, calls, n)
<1> DEFINE T == {k \in Nat : \E f : Does(f, b, calls, k)}
<1>1. 0 \in T
  <2> DEFINE g == [i \in 0..0 |-> b]
  <2>1. g = [i \in 0..0 |-> IF i = 0 THEN b ELSE Called(g[i - 1], calls[i])]
    <3>1. \A i \in 0..0 : i = 0
      OBVIOUS
    <3> QED BY <3>1
  <2>2. Does(g, b, calls, 0)
    BY <2>1 DEF Does
  <2> QED BY <2>2
<1>2. ASSUME NEW k \in Nat, k \in T PROVE k + 1 \in T
  <2>1. PICK f : Does(f, b, calls, k)
    BY <1>2
  <2> DEFINE g == [i \in 0..(k + 1) |-> IF i <= k THEN f[i] ELSE Called(f[k], calls[i])]
  <2>2. ASSUME NEW i \in 0..(k + 1)
        PROVE  g[i] = IF i = 0 THEN b ELSE Called(g[i - 1], calls[i])
    <3>1. CASE i <= k
      <4>1. i \in 0..k /\ g[i] = f[i] /\ (i # 0 => i - 1 \in 0..(k + 1) /\ g[i - 1] = f[i - 1])
        BY <3>1
      <4>2. f[i] = IF i = 0 THEN b ELSE Called(f[i - 1], calls[i])
        BY <2>1, <4>1 DEF Does
      <4> QED BY <4>1, <4>2
    <3>2. CASE ~(i <= k)
      <4>1. i = k + 1 /\ i # 0 /\ i - 1 = k /\ k \in 0..(k + 1) /\ k <= k
        BY <3>2
      <4> QED BY <3>2, <4>1
    <3> QED BY <3>1, <3>2
  <2>3. g = [i \in 0..(k + 1) |-> g[i]]
    OBVIOUS
  <2> HIDE DEF g
  <2>4. [i \in 0..(k + 1) |-> g[i]]
          = [i \in 0..(k + 1) |-> IF i = 0 THEN b ELSE Called(g[i - 1], calls[i])]
    BY <2>2
  <2>5. Does(g, b, calls, k + 1)
    BY <2>3, <2>4, Zenon DEF Does
  <2> QED BY <2>5
<1> HIDE DEF T
<1>3. n \in T
  BY <1>1, <1>2, InductionOnNat
<1> QED BY <1>3 DEF T

(* Three pieces are joined in any order.                                   *)
LEMMA JoinThree ==
  ASSUME NEW x \in Seq(Int), NEW y \in Seq(Int), NEW z \in Seq(Int)
  PROVE  (x \o y) \o z = x \o (y \o z)
BY SMT

(* A buffer collects the data of the calls in their order.                 *)
LEMMA DoAppends ==
  ASSUME NEW b, Good(b), NEW calls \in Seq(CallType)
  PROVE  Good(Do(b, calls)) /\ Contents(Do(b, calls)) = Contents(b) \o Encoded(calls)
<1> DEFINE f == CHOOSE f : Does(f, b, calls, Len(calls))
           n == Len(calls)
           s == DataOf(calls)
           F(k) == FlattenSeq(SubSeq(s, 1, k))
<1>1. n \in Nat
  BY LenProperties
<1>2. Does(f, b, calls, n)
  BY <1>1, DoesExists
<1>3. Do(b, calls) = f[n]
  BY DEF Do, Does
<1> HIDE DEF f
<1>4. f[0] = b /\ \A k \in 1..n : f[k] = Called(f[k - 1], calls[k])
  BY <1>1, <1>2 DEF Does
<1>5. s \in Seq(Seq(Int)) /\ Len(s) = n /\ (\A k \in 1..n : s[k] = calls[k].data)
      /\ Encoded(calls) = FlattenSeq(s)
  BY DataIs
<1>6. Contents(b) \in Seq(Int)
  BY ContentsType
<1> HIDE DEF s, n
<1> DEFINE T == {k \in Nat : k <= n => Good(f[k]) /\ Contents(f[k]) = Contents(b) \o F(k)}
<1>7. 0 \in T
  <2>1. F(0) = <<>>
    BY FlattenNone
  <2>2. Contents(b) \o <<>> = Contents(b)
    BY <1>6, ConcatEmptySeq
  <2> QED BY <1>4, <2>1, <2>2
<1>8. ASSUME NEW k \in Nat, k \in T PROVE k + 1 \in T
  <2> SUFFICES ASSUME k + 1 <= n
               PROVE  Good(f[k + 1]) /\ Contents(f[k + 1]) = Contents(b) \o F(k + 1)
    OBVIOUS
  <2>1. k + 1 \in 1..n /\ (k + 1) - 1 = k /\ k <= n /\ k \in 0..(n - 1) /\ k \in 0..n
    BY <1>1
  <2>2. Good(f[k]) /\ Contents(f[k]) = Contents(b) \o F(k)
    BY <1>8, <2>1
  <2>3. f[k + 1] = Called(f[k], calls[k + 1])
    BY <1>4, <2>1
  <2>4. calls[k + 1] \in CallType
    BY <2>1, ElementOfSeq DEF n
  <2>5. Good(f[k + 1]) /\ Contents(f[k + 1]) = (Contents(b) \o F(k)) \o s[k + 1]
    BY <1>5, <2>1, <2>2, <2>3, <2>4, CalledAppends
  <2>6. F(k + 1) = F(k) \o s[k + 1]
    BY <1>5, <2>1, FlattenOneMore
  <2>7. Contents(b) \in Seq(Int) /\ F(k) \in Seq(Int) /\ s[k + 1] \in Seq(Int)
    BY <1>5, <1>6, <2>1, FlattenType, ElementOfSeq
  <2> HIDE DEF F
  <2>8. PICK x \in Seq(Int), y \in Seq(Int), z \in Seq(Int) :
          x = Contents(b) /\ y = F(k) /\ z = s[k + 1]
    BY <2>7
  <2>9. (x \o y) \o z = x \o (y \o z)
    BY JoinThree
  <2>10. (Contents(b) \o F(k)) \o s[k + 1] = Contents(b) \o (F(k) \o s[k + 1])
    BY <2>8, <2>9
  <2> QED BY <2>5, <2>6, <2>10
<1> HIDE DEF T
<1>9. n \in T
  BY <1>1, <1>7, <1>8, InductionOnNat
<1>10. F(n) = FlattenSeq(s)
  BY <1>5, SubSeqFull
<1> QED BY <1>1, <1>3, <1>5, <1>9, <1>10 DEF T
-----------------------------------------------------------------------------
(* The text of a value is the same in both modules, which have the         *)
(* definitions of Wire each for itself.                                    *)

(* The conversions, the headers and the calls, from the bottom up.         *)
LEMMA SameWords ==
  ASSUME NEW x, NEW n
  PROVE  /\ Strings!ToWord(x) = ToWord(x) /\ Strings!Low(x, n) = Low(x, n)
         /\ Strings!IsUnsigned(x, n) <=> IsUnsigned(x, n)
         /\ Strings!Small(x, n) <=> Small(x, n)
         /\ Strings!FixedNegative(x) <=> FixedNegative(x)
         /\ Strings!Unsigned(x) = Unsigned(x) /\ Strings!Signed(x) = Signed(x)
<1> USE DEF Strings!ZeroExtended, ZeroExtended, Strings!SignExtended, SignExtended,
            Strings!Filled, Filled, Strings!Low, Low,
            Strings!IsUnsigned, IsUnsigned, Strings!IsSigned, IsSigned
<1>1. Strings!ToWord(x) = ToWord(x) /\ Strings!Low(x, n) = Low(x, n)
  BY DEF Strings!ToWord, ToWord
<1>2. Strings!IsUnsigned(x, n) <=> IsUnsigned(x, n)
  BY Zenon
<1>3. Strings!Small(x, n) <=> Small(x, n)
  BY Zenon DEF Strings!Small, Small
<1>4. Strings!FixedNegative(x) <=> FixedNegative(x)
  BY Zenon DEF Strings!FixedNegative, FixedNegative
<1>5. Strings!Unsigned(x) = Unsigned(x) /\ Strings!Signed(x) = Signed(x)
  BY Zenon DEF Strings!Unsigned, Unsigned, Strings!Signed, Signed, Strings!Min, Min,
               Strings!Widths, Widths
<1> QED BY <1>1, <1>2, <1>3, <1>4, <1>5

LEMMA SameCalls ==
  ASSUME NEW method, NEW data
  PROVE  Strings!Call(method, data) = Call(method, data)
BY DEF Strings!Call, Call

LEMMA SameHeaders ==
  Strings!header = header /\ Strings!Uints = Uints /\ Strings!Ints = Ints /\ Strings!Widths = Widths
BY DEF Strings!header, header, Strings!Uints, Uints, Strings!Ints, Ints, Strings!Widths, Widths

LEMMA SameNumbers ==
  ASSUME NEW x
  PROVE  Strings!write_uint(x) = write_uint(x) /\ Strings!write_int(x) = write_int(x)
<1>1. ASSUME NEW types, NEW k PROVE Strings!Numbered(types, k, x) = Numbered(types, k, x)
  BY SameWords, SameCalls, SameHeaders DEF Strings!Numbered, Numbered
<1>2. /\ Strings!write_uint_fixed(x[8]) = write_uint_fixed(x[8])
      /\ Strings!write_int_fixed(x[8]) = write_int_fixed(x[8])
  BY SameCalls DEF Strings!write_uint_fixed, write_uint_fixed,
                   Strings!write_int_fixed, write_int_fixed
<1>3. Strings!write_uint(x) = write_uint(x)
  BY <1>1, <1>2, SameWords, SameHeaders DEF Strings!write_uint, write_uint
<1>4. Strings!write_int(x) = write_int(x)
  BY <1>1, <1>2, SameWords, SameHeaders DEF Strings!write_int, write_int
<1> QED BY <1>3, <1>4

LEMMA SameSizes ==
  ASSUME NEW x
  PROVE  /\ Strings!write_array_size(x) = write_array_size(x)
         /\ Strings!write_map_size(x) = write_map_size(x)
         /\ Strings!write_raw(x) = write_raw(x)
<1>1. ASSUME NEW size, NEW max, NEW fixed, NEW h16, NEW h32
      PROVE  Strings!WriteSize(size, max, fixed, h16, h32) = WriteSize(size, max, fixed, h16, h32)
  BY SameWords, SameCalls DEF Strings!WriteSize, WriteSize
<1>2. /\ Strings!write_array_size(x) = write_array_size(x)
      /\ Strings!write_map_size(x) = write_map_size(x)
  BY <1>1, SameHeaders DEF Strings!write_array_size, write_array_size,
                           Strings!write_map_size, write_map_size
<1>3. Strings!write_raw(x) = write_raw(x)
  BY <1>1, SameHeaders, SameWords, SameCalls DEF Strings!write_raw, write_raw
<1> QED BY <1>2, <1>3

(* The recursion is the same function.                                     *)
LEMMA SameFlatten ==
  ASSUME NEW s
  PROVE  Strings!FlattenSeq(s) = FlattenSeq(s)
<1> DEFINE f == CHOOSE f : Gathers(f, s, Len(s))
<1>1. CASE Len(s) = 0
  BY <1>1 DEF FlattenSeq, Strings!FlattenSeq
<1>2. CASE Len(s) # 0
  <2>1. FlattenSeq(s) = f[Len(s)]
    BY <1>2 DEF FlattenSeq, Gathers
  <2>2. Strings!FlattenSeq(s) = f[Len(s)]
    BY <1>2 DEF Strings!FlattenSeq, Gathers
  <2> QED BY <2>1, <2>2
<1> QED BY <1>1, <1>2

(* One value, and several.                                                 *)
LEMMA SameWritten ==
  ASSUME NEW v \in WideValues
  PROVE  Strings!Written(v) = Written(v)
<1>1. v.kind \in {"uint", "int", "array", "map", "nil", "bool", "float", "double", "raw"}
  BY WrittenIs
<1>2. CASE v.kind = "uint"
  <2>1. Strings!Written(v) = Strings!write_uint(v.x) /\ Written(v) = write_uint(v.x)
    BY <1>2, Zenon DEF Strings!Written, Written
  <2> QED BY <2>1, SameNumbers
<1>3. CASE v.kind = "int"
  <2>1. Strings!Written(v) = Strings!write_int(v.x) /\ Written(v) = write_int(v.x)
    BY <1>3, Zenon DEF Strings!Written, Written
  <2> QED BY <2>1, SameNumbers
<1>4. CASE v.kind = "nil"
  <2>1. /\ Strings!Written(v) = Strings!Call("put", <<Strings!header.NIL>>)
        /\ Written(v) = Call("put", <<header.NIL>>)
    BY <1>4, Zenon DEF Strings!Written, Written
  <2> QED BY <2>1, SameCalls, SameHeaders
<1>5. CASE v.kind = "bool"
  <2>1. /\ Strings!Written(v) = Strings!Call("put", <<IF v.x = <<1>> THEN Strings!header.TRUE
                                                       ELSE Strings!header.FALSE>>)
        /\ Written(v) = Call("put", <<IF v.x = <<1>> THEN header.TRUE ELSE header.FALSE>>)
    BY <1>5, Zenon DEF Strings!Written, Written
  <2> QED BY <2>1, SameCalls, SameHeaders
<1>6. CASE v.kind = "float"
  <2>1. /\ Strings!Written(v) = Strings!Call("put", <<Strings!header.FLOAT>>)
                                  \o Strings!Call("write", v.x)
        /\ Written(v) = Call("put", <<header.FLOAT>>) \o Call("write", v.x)
    BY <1>6, Zenon DEF Strings!Written, Written
  <2> QED BY <2>1, SameCalls, SameHeaders
<1>7. CASE v.kind = "double"
  <2>1. /\ Strings!Written(v) = Strings!Call("put", <<Strings!header.DOUBLE>>)
                                  \o Strings!Call("write", v.x)
        /\ Written(v) = Call("put", <<header.DOUBLE>>) \o Call("write", v.x)
    BY <1>7, Zenon DEF Strings!Written, Written
  <2> QED BY <2>1, SameCalls, SameHeaders
<1>8. CASE v.kind = "array"
  <2>1. Strings!Written(v) = Strings!write_array_size(v.x) /\ Written(v) = write_array_size(v.x)
    BY <1>8, Zenon DEF Strings!Written, Written
  <2> QED BY <2>1, SameSizes
<1>9. CASE v.kind = "map"
  <2>1. Strings!Written(v) = Strings!write_map_size(v.x) /\ Written(v) = write_map_size(v.x)
    BY <1>9, Zenon DEF Strings!Written, Written
  <2> QED BY <2>1, SameSizes
<1>10. CASE v.kind = "raw"
  <2>1. Strings!Written(v) = Strings!write_raw(v.x) /\ Written(v) = write_raw(v.x)
    BY <1>10, Zenon DEF Strings!Written, Written
  <2> QED BY <2>1, SameSizes
<1> QED BY <1>1, <1>2, <1>3, <1>4, <1>5, <1>6, <1>7, <1>8, <1>9, <1>10

LEMMA SameText ==
  ASSUME NEW values \in Seq(WideValues)
  PROVE  Strings!Text(values) = Encoded(Calls(values))
<1>1. DOMAIN values = 1..Len(values)
  BY LenProperties
<1>2. \A k \in DOMAIN values : Strings!Written(values[k]) = Written(values[k])
  BY <1>1, ElementOfSeq, SameWritten
<1>3. [k \in DOMAIN values |-> Strings!Written(values[k])]
        = [k \in DOMAIN values |-> Written(values[k])]
  BY <1>2
<1>4. Strings!Calls(values) = Calls(values)
  BY <1>3, SameFlatten DEF Strings!Calls, Calls
<1>5. Strings!Encoded(Calls(values)) = Encoded(Calls(values))
  BY SameFlatten DEF Strings!Encoded, Encoded
<1> QED BY <1>4, <1>5 DEF Strings!Text
-----------------------------------------------------------------------------
(* The values that the writer itself adds: ids, counts and sizes.          *)
LEMMA NumberIs ==
  ASSUME NEW kind \in {"uint", "int", "array", "map"}, NEW n \in Nat
  PROVE  /\ Number(kind, n) \in WideValues /\ Number(kind, n).kind = kind
         /\ Number(kind, n).x = ToWord(n)
         /\ Strings!Number(kind, n) = Number(kind, n)
<1>1. ToWord(n) \in Wide /\ Strings!ToWord(n) = ToWord(n)
  BY ToWordType, SameWords
<1> QED BY <1>1 DEF Number, Value, Strings!Number, Strings!Value, WideValues

(* The text of one value, of the values of a field, of a field.            *)
LEMMA CallsOfOne ==
  ASSUME NEW v \in WideValues
  PROVE  Calls(<<v>>) = Written(v) /\ Strings!Text(<<v>>) = Encoded(Written(v))
<1>1. Written(v) \in Seq(CallType)
  BY WrittenType
<1>2. [k \in DOMAIN <<v>> |-> Written(<<v>>[k])] = <<Written(v)>>
  OBVIOUS
<1>3. Calls(<<v>>) = Written(v)
  BY <1>1, <1>2, FlattenOfOne DEF Calls
<1>4. <<v>> \in Seq(WideValues)
  OBVIOUS
<1> QED BY <1>3, <1>4, SameText

LEMMA ValuesAsCalls ==
  ASSUME NEW values \in Seq(Values)
  PROVE  /\ values \in Seq(WideValues) /\ Calls(values) \in Seq(CallType)
         /\ Strings!Text(values) = Encoded(Calls(values))
         /\ Encoded(Calls(values)) \in Seq(Int)
         /\ values = <<>> => Encoded(Calls(values)) = <<>>
<1>1. values \in Seq(WideValues)
  <2>1. /\ Len(values) \in Nat /\ DOMAIN values = 1..Len(values)
        /\ values \in [1..Len(values) -> Values]
        /\ \A k \in 1..Len(values) : values[k] \in WideValues
    BY ValuesAreWide, LenProperties, ElementOfSeq
  <2>2. values = [k \in 1..Len(values) |-> values[k]]
    BY <2>1
  <2> QED BY <2>1, <2>2
<1>2. Calls(values) \in Seq(CallType) /\ Strings!Text(values) = Encoded(Calls(values))
  BY <1>1, CallsType, SameText
<1>3. Encoded(Calls(values)) \in Seq(Int)
  BY <1>2, DataIs
<1>4. ASSUME values = <<>> PROVE Encoded(Calls(values)) = <<>>
  <2>1. Len([k \in DOMAIN values |-> Written(values[k])]) = 0
    BY <1>4
  <2>2. Calls(values) = <<>>
    BY <1>4, <2>1 DEF Calls, FlattenSeq
  <2> QED BY <2>2 DEF Encoded, FlattenSeq
<1> QED BY <1>1, <1>2, <1>3, <1>4

LEMMA FieldIs ==
  ASSUME NEW id \in Nat, NEW value \in Seq(Values)
  PROVE  /\ Field(id, value) \in Seq(WideValues)
         /\ Strings!Field(id, value) = Field(id, value)
<1>1. <<Number("uint", id)>> \in Seq(WideValues)
  BY NumberIs
<1>2. value \in Seq(WideValues)
  BY ValuesAsCalls
<1>3. <<Number("uint", id)>> \o value \in Seq(WideValues)
  BY <1>1, <1>2, ConcatProperties
<1> QED BY <1>3, NumberIs DEF Field, Strings!Field

(* What is known of the buffers between two steps: both are good, and what *)
(* has no fields has no bytes.                                             *)
WriterInv ==
  /\ Good(fields) /\ Good(instances)
  /\ nfields \in Nat
  /\ nfields = 0 => Contents(fields) = <<>>
  /\ told = [nfields |-> told.nfields, fields |-> told.fields, instances |-> told.instances]
  /\ told.nfields \in Nat
  /\ nfields <= told.nfields

(* The initial state, and each action: the invariant is kept and the step  *)
(* is one of StoreText.                                                    *)
LEMMA InitInv == Init => WriterInv
BY ConstructedIs DEF Init, WriterInv

LEMMA InitText == Init => Strings!Init
BY ConstructedIs DEF Init, Strings!Init, Closed, Strings!Closed

LEMMA OpenStep ==
  ASSUME WriterInv, NEW n \in 0..MaxInstances, Open(n)
  PROVE  WriterInv' /\ Strings!Open(n)
<1>1. n \in Nat
  BY FieldsAssumption
<1>2. ToWord(n) \in Wide
  BY <1>1, ToWordType
<1>3. write_array_size(ToWord(n)) \in Seq(CallType)
  BY <1>2, SizeTypes
<1>4. /\ Good(instances')
      /\ Contents(instances)' = Contents(instances) \o Encoded(write_array_size(ToWord(n)))
  BY <1>3, DoAppends DEF Open, WriterInv
<1>5. /\ Number("array", n) \in WideValues /\ Number("array", n).kind = "array"
      /\ Number("array", n).x = ToWord(n) /\ Strings!Number("array", n) = Number("array", n)
  BY <1>1, NumberIs
<1>6. Strings!Text(<<Strings!Number("array", n)>>) = Encoded(write_array_size(ToWord(n)))
  <2>1. Written(Number("array", n)) = write_array_size(ToWord(n))
    BY <1>5, WrittenIs
  <2> QED BY <1>5, <2>1, CallsOfOne
<1>7. WriterInv'
  BY <1>4 DEF Open, WriterInv
<1> QED BY <1>4, <1>6, <1>7 DEF Open, Strings!Open, Closed, Strings!Closed

LEMMA WriteFieldStep ==
  ASSUME WriterInv, NEW value \in FieldValues, WriteField(value)
  PROVE  WriterInv' /\ Strings!WriteField(value)
<1>1. value \in Seq(Values) /\ nfields \in Nat
  BY FieldsAssumption DEF WriterInv
<1>2. /\ Field(nfields, value) \in Seq(WideValues)
      /\ Strings!Field(nfields, value) = Field(nfields, value)
  BY <1>1, FieldIs
<1>3. Calls(Field(nfields, value)) \in Seq(CallType)
  BY <1>2, CallsType
<1>4. /\ Good(fields')
      /\ Contents(fields)' = Contents(fields) \o Encoded(Calls(Field(nfields, value)))
  BY <1>3, DoAppends DEF WriteField, WriterInv
<1>5. Strings!Text(Strings!Field(nfields, value)) = Encoded(Calls(Field(nfields, value)))
  BY <1>2, SameText
<1>6. nfields < MaxFields /\ nfields' = nfields + 1 /\ nfields' \in Nat /\ nfields' # 0
  BY <1>1, FieldsAssumption DEF WriteField, WriterInv
<1>7. WriterInv'
  <2>1. told'.nfields = told.nfields + 1
    BY DEF WriteField, WriterInv
  <2>2. told' = [nfields |-> told'.nfields, fields |-> told'.fields, instances |-> told'.instances]
    BY DEF WriteField, WriterInv
  <2>3. told'.nfields \in Nat /\ nfields' <= told'.nfields
    BY <1>6, <2>1 DEF WriterInv
  <2> QED BY <1>4, <1>6, <2>2, <2>3 DEF WriteField, WriterInv
<1> QED BY <1>4, <1>5, <1>6, <1>7 DEF WriteField, Strings!WriteField

LEMMA CloseInstanceStep ==
  ASSUME WriterInv, NEW lazy \in LazyFields, CloseInstance(lazy)
  PROVE  WriterInv' /\ Strings!CloseInstance(lazy)
<1> DEFINE n == nfields + Len(lazy)
           size == write_map_size(ToWord(n))
           counted == Do(instances, size)
           bytes == Encoded(Calls(FlattenSeq(lazy)))
<1>1. lazy \in Seq(Seq(Values)) /\ nfields \in Nat /\ Len(lazy) \in Nat
  BY FieldsAssumption, LenProperties DEF WriterInv
<1>2. FlattenSeq(lazy) \in Seq(Values)
  BY <1>1, FlattenAll
<1>3. /\ bytes \in Seq(Int)
      /\ Strings!Text(Strings!FlattenSeq(lazy)) = bytes
  BY <1>2, ValuesAsCalls, SameFlatten
<1>4. n \in Nat
  BY <1>1
<1>5. size \in Seq(CallType) /\ Strings!Text(<<Strings!Number("map", n)>>) = Encoded(size)
  <2>1. ToWord(n) \in Wide
    BY <1>4, ToWordType
  <2>2. /\ Number("map", n) \in WideValues /\ Number("map", n).kind = "map"
        /\ Number("map", n).x = ToWord(n) /\ Strings!Number("map", n) = Number("map", n)
    BY <1>4, NumberIs
  <2>3. Written(Number("map", n)) = size
    BY <2>2, WrittenIs
  <2>4. size \in Seq(CallType)
    BY <2>1, SizeTypes
  <2> HIDE DEF n, size
  <2>5. Strings!Text(<<Strings!Number("map", n)>>) = Encoded(size)
    BY <2>2, <2>3, CallsOfOne
  <2> QED BY <2>4, <2>5
<1>6. instances' = IF n = 0 THEN counted
                   ELSE copy_from(IF bytes # <<>> THEN write(counted, bytes) ELSE counted, fields)
  BY DEF CloseInstance, write_lazy
<1>7. n = 0 => nfields = 0 /\ bytes = <<>>
  <2>1. ASSUME n = 0 PROVE bytes = <<>>
    <3>1. nfields = 0 /\ Len(lazy) = 0
      BY <1>1, <2>1
    <3>2. lazy = <<>>
      BY <1>1, <3>1
    <3>3. FlattenSeq(lazy) = <<>>
      BY <3>2 DEF FlattenSeq
    <3> QED BY <1>2, <3>3, ValuesAsCalls
  <2> QED BY <1>1, <2>1
<1> HIDE DEF n, size, bytes
<1>8. Good(counted) /\ Contents(counted) = Contents(instances) \o Encoded(size)
  BY <1>5, DoAppends DEF WriterInv
<1> HIDE DEF counted
<1>9. /\ Good(instances')
      /\ Contents(instances)' = Contents(counted) \o bytes \o Contents(fields)
  <2>1. Contents(counted) \in Seq(Int) /\ Contents(counted) \o <<>> = Contents(counted)
    BY <1>8, ContentsType, ConcatEmptySeq
  <2>2. CASE n = 0
    <3>1. Contents(fields) = <<>> /\ bytes = <<>>
      BY <1>7, <2>2 DEF WriterInv
    <3> QED BY <1>6, <1>8, <2>1, <2>2, <3>1
  <2>3. CASE n # 0
    <3> DEFINE kept == IF bytes # <<>> THEN write(counted, bytes) ELSE counted
    <3>1. Good(kept) /\ Contents(kept) = Contents(counted) \o bytes
      BY <1>3, <1>8, <2>1, WriteAppends
    <3> HIDE DEF kept
    <3>2. /\ Good(copy_from(kept, fields))
          /\ Contents(copy_from(kept, fields)) = Contents(kept) \o Contents(fields)
      BY <3>1, CopyFromAppends DEF WriterInv
    <3>3. instances' = copy_from(kept, fields)
      BY <1>6, <2>3 DEF kept
    <3> QED BY <3>1, <3>2, <3>3
  <2> QED BY <2>2, <2>3
<1>10. /\ nfields' = 0 /\ fields' = Constructed /\ left > 0 /\ left' = left - 1 /\ out' = out
       /\ told' = [told EXCEPT !.fields = <<>>,
                               !.instances = @ \o <<Number("map", n)>> \o FlattenSeq(lazy)
                                               \o told.fields]
  BY DEF CloseInstance, n
<1>11. WriterInv'
  <2>1. told'.nfields = told.nfields
    BY <1>10 DEF WriterInv
  <2>2. told' = [nfields |-> told'.nfields, fields |-> told'.fields, instances |-> told'.instances]
    BY <1>10 DEF WriterInv
  <2>3. Good(fields') /\ Contents(fields)' = <<>>
    BY <1>10, ConstructedIs
  <2>4. nfields' \in Nat /\ told'.nfields \in Nat /\ nfields' <= told'.nfields
    BY <1>10, <2>1 DEF WriterInv
  <2> QED BY <1>9, <2>2, <2>3, <2>4 DEF WriterInv
<1>12. Contents(instances)' = Contents(instances)
                                \o Strings!Text(<<Strings!Number("map", nfields + Len(lazy))>>)
                                \o Strings!Text(Strings!FlattenSeq(lazy)) \o Contents(fields)
  BY <1>3, <1>5, <1>8, <1>9 DEF n
<1>13. Contents(fields)' = <<>>
  BY <1>10, ConstructedIs
<1> QED BY <1>10, <1>11, <1>12, <1>13 DEF Strings!CloseInstance

LEMMA CloseStoreStep ==
  ASSUME WriterInv, CloseStore
  PROVE  WriterInv' /\ Strings!CloseStore
<1>1. PICK n \in Nat : n = Len(Contents(instances)) /\ instances.size = n
  BY ContentsType, LenProperties DEF WriterInv, Good
<1>2. Written(Number("uint", n)) = write_uint(ToWord(n))
  <2>1. /\ Number("uint", n) \in WideValues /\ Number("uint", n).kind = "uint"
        /\ Number("uint", n).x = ToWord(n)
    BY NumberIs
  <2> QED BY <2>1, WrittenIs
<1>3. Strings!Text(<<Strings!Number("uint", n)>>) = Encoded(write_uint(ToWord(n)))
  BY <1>1, <1>2, NumberIs, CallsOfOne
<1>4. Good(instances') /\ Contents(instances)' = <<>>
  BY ConstructedIs DEF CloseStore
<1>5. WriterInv'
  BY <1>4 DEF CloseStore, WriterInv
<1>6. out' = out \o Strings!Text(<<Strings!Number("uint", n)>>) \o Contents(instances)
  BY <1>1, <1>3 DEF CloseStore
<1>7. out' = out \o Strings!Text(<<Strings!Number("uint", Len(Contents(instances)))>>)
              \o Contents(instances)
  BY <1>1, <1>6
<1> QED BY <1>4, <1>5, <1>7 DEF CloseStore, Strings!CloseStore, Closed, Strings!Closed

LEMMA WriterStep ==
  ASSUME WriterInv, [Next]_vars
  PROVE  WriterInv' /\ [Strings!Next]_(Strings!textVars)
<1>1. CASE \E n \in 0..MaxInstances : Open(n)
  BY <1>1, OpenStep DEF Strings!Next
<1>2. CASE \E value \in FieldValues : WriteField(value)
  BY <1>2, WriteFieldStep DEF Strings!Next
<1>3. CASE \E lazy \in LazyFields : CloseInstance(lazy)
  BY <1>3, CloseInstanceStep DEF Strings!Next
<1>4. CASE CloseStore
  BY <1>4, CloseStoreStep DEF Strings!Next
<1>5. CASE UNCHANGED vars
  BY <1>5 DEF vars, WriterInv, Strings!textVars
<1> QED BY <1>1, <1>2, <1>3, <1>4, <1>5 DEF Next

(* In every state of the writer both buffers are good, and a writer that   *)
(* has counted no field has none in the buffer (write_instance,            *)
(* Writer::write).                                                         *)
THEOREM WriterInvariant == Spec => []WriterInv
<1>1. WriterInv /\ [Next]_vars => WriterInv'
  BY WriterStep
<1> QED BY InitInv, <1>1, PTL DEF Spec

(* Whatever is written, and however large blocks and pools are, no block   *)
(* of WriteBuffer reaches beyond its pool, into another block or beyond    *)
(* its capacity, and the size is that of the contents.                     *)
THEOREM BuffersStaySound == Spec => []BuffersSound
<1>1. WriterInv => BuffersSound
  BY GoodIsSound DEF WriterInv, BuffersSound
<1> QED BY WriterInvariant, <1>1, PTL

(* A store is written as if the buffers were strings: each byte once, in   *)
(* the order of the calls, lent strings between copied bytes, and the size *)
(* that is announced is that of what follows (Writer::write).              *)
THEOREM StoreImplementsText == Spec => ImplementsText
<1>1. WriterInv /\ [Next]_vars => [Strings!Next]_(Strings!textVars)
  BY WriterStep
<1> QED BY WriterInvariant, InitText, <1>1, PTL DEF Spec, ImplementsText, Strings!Spec
=============================================================================
