----------------------------- MODULE WriteBuffer -----------------------------
(***************************************************************************)
(* io::WriteBuffer, as operators on the record that one is. Bytes are      *)
(* written into blocks that are cut from pools of memory; write_zerocopy   *)
(* makes a block of the caller's bytes instead, which lie in no pool.      *)
(*                                                                         *)
(* _current_block and _current_pool are the last of blocks and pools,      *)
(* _lb_capacity is the last block's, and _lb_upto the end of what has been *)
(* written into it; its own size is out of date, lbSize counts.            *)
(***************************************************************************)
EXTENDS Integers, SequencesExt, FiniteSetsExt

CONSTANTS
  BlockSize,   \* _block_size
  NBlocks,     \* nblocks, the room for blocks at first
  PoolSize,    \* _pool_size
  NPools       \* npools, the room for pools at first

(* The constructor takes what it is given; no caller breaks this.          *)
ASSUME WriteBufferAssumption ==
  /\ PoolSize \in Nat
  /\ BlockSize \in 1..PoolSize
  /\ NBlocks \in Nat \ {0}
  /\ NPools \in Nat \ {0}

Lent == 0               \* the pool of the blocks that lie in none
Uninitialised == -1     \* what malloc leaves in a byte

malloc(n) == [k \in 1..n |-> Uninitialised]

Block(pool, at, capacity, lent) ==
  [pool |-> pool, at |-> at, capacity |-> capacity, size |-> Len(lent), lent |-> lent]

Constructed ==
  [pools |-> <<malloc(PoolSize)>>, npools |-> NPools, poolUsed |-> BlockSize,
   blocks |-> <<Block(1, 0, BlockSize, <<>>)>>, nblocks |-> NBlocks,
   lbSize |-> 0, size |-> 0]

(* Every call that opens a block stores the size of the one it leaves.     *)
Stored_Not(b) == b

Stored(b) == [b EXCEPT !.blocks[Len(b.blocks)].size = b.lbSize]

next_block(b) ==
  IF Len(b.blocks) = b.nblocks THEN [b EXCEPT !.nblocks = 2 * @] ELSE b

next_pool(b) ==
  IF Len(b.pools) = b.npools THEN [b EXCEPT !.npools = 2 * @] ELSE b

require_pool_EmptyOnly(b, nbytes) ==
  IF nbytes > PoolSize
  THEN [next_pool(b) EXCEPT !.pools = Append(@, malloc(nbytes)), !.poolUsed = 0]
  ELSE b

require_pool(b, nbytes) ==
  IF b.poolUsed + nbytes > PoolSize
  THEN [next_pool(b) EXCEPT !.pools = Append(@, malloc(Max({PoolSize, nbytes}))),
                            !.poolUsed = 0]
  ELSE b

OpenBlock(b, capacity) ==
  LET r == require_pool(next_block(Stored(b)), capacity)
  IN  [r EXCEPT !.blocks = Append(@, Block(Len(r.pools), r.poolUsed, capacity, <<>>)),
                !.poolUsed = @ + capacity,
                !.lbSize = 0]

Room(b, nbytes) == b.lbSize + nbytes <= Last(b.blocks).capacity

(* The bytes go to _lb_upto, and nbytes of them are counted.               *)
Copied(b, bytes, nbytes) ==
  LET block == Last(b.blocks)
      upto == block.at + b.lbSize
      Memory(p) == [k \in DOMAIN b.pools[p] |->
                      IF p = block.pool /\ k - upto \in DOMAIN bytes
                      THEN bytes[k - upto] ELSE b.pools[p][k]]
  IN  [b EXCEPT !.pools = [p \in DOMAIN @ |-> Memory(p)],
                !.lbSize = @ + nbytes,
                !.size = @ + nbytes]

put(b, c) == Copied(IF Room(b, 1) THEN b ELSE OpenBlock(b, BlockSize), <<c>>, 1)

write(b, data) ==
  LET nbytes == Len(data)
  IN  Copied(IF Room(b, nbytes) THEN b ELSE OpenBlock(b, nbytes), data, nbytes)

write_zerocopy(b, data) ==
  [next_block(Stored(b)) EXCEPT
     !.blocks = Append(@, Block(Lent, 0, Len(data), data)),
     !.lbSize = Len(data),
     !.size = @ + Len(data)]

Bytes(b, block) ==
  IF block.pool = Lent THEN SubSeq(block.lent, 1, block.size)
  ELSE SubSeq(b.pools[block.pool], block.at + 1, block.at + block.size)

(* What copy_to writes to a stream.                                        *)
Contents(b) ==
  LET s == Stored(b)
  IN  FlattenSeq([k \in DOMAIN s.blocks |-> Bytes(s, s.blocks[k])])

(* The whole of o goes into one block.                                     *)
copy_from(b, o) ==
  Copied(IF Room(b, o.size) THEN b ELSE OpenBlock(b, o.size), Contents(o), o.size)

-----------------------------------------------------------------------------
Disjoint(x, y) ==
  \/ x.pool = Lent \/ y.pool = Lent \/ x.pool # y.pool
  \/ x.at + x.capacity <= y.at \/ y.at + y.capacity <= x.at

(* The bookkeeping holds together: the arrays have room for what they      *)
(* hold, no block reaches beyond its pool or into another block, none      *)
(* holds more than it can, and the size is that of the contents.           *)
Sound(b) ==
  LET blocks == Stored(b).blocks
  IN  /\ Len(blocks) <= b.nblocks
      /\ Len(b.pools) <= b.npools
      /\ \A k \in DOMAIN blocks :
           /\ blocks[k].size <= blocks[k].capacity
           /\ blocks[k].pool # Lent =>
                blocks[k].at + blocks[k].capacity <= Len(b.pools[blocks[k].pool])
           /\ \A j \in 1..(k - 1) : Disjoint(blocks[j], blocks[k])
      /\ b.poolUsed <= Len(Last(b.pools))
      /\ b.size = Len(Contents(b))
=============================================================================
