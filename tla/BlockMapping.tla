---------------------------- MODULE BlockMapping ----------------------------
(***************************************************************************)
(* Which GPU block goes to which part of which file: transfer.py and the   *)
(* two calls of build_block_mapping in reactor.py.  A storage block is     *)
(* `Factor' GPU blocks long; a part is its place in the storage block.     *)
(***************************************************************************)
EXTENDS Integers, Sequences

CONSTANT Factor     \* gpu_blocks_per_storage_block

ASSUME FactorAssumption == Factor \in Nat \ {0}

Least(m, n) == IF m < n THEN m ELSE n

\* split_block_ids_for_files: the first file may begin in its middle.
FirstSize(blocks, first) == Least(Len(blocks), Factor - (first % Factor))
ChunkEnd(blocks, first, i) == Least(FirstSize(blocks, first) + (i - 1) * Factor, Len(blocks))
Chunk(blocks, first, i) ==
  SubSeq(blocks, IF i = 1 THEN 1 ELSE ChunkEnd(blocks, first, i - 1) + 1,
         ChunkEnd(blocks, first, i))
SplitLinesUp(blocks, files, first) ==
  files = 0 \/ ChunkEnd(blocks, first, files) = Len(blocks)

\* _expand_block_ids: the n parts of each block, without the first `skip'.
Expand(blocks, n, skip) ==
  [k \in 1..(Len(blocks) * n - skip) |->
     <<blocks[((k - 1 + skip) \div n) + 1], (k - 1 + skip) % n>>]

SkipNothing(src, n, dst) == 0   \* mutant: a file starts at its first part

\* build_block_mapping; a source longer than the destination loses its
\* first parts, anything else that does not fit is refused.
Skip(src, n, dst)            == (-Len(dst)) % n
LinesUp(src, n, dst, m)      == Len(dst) * m = Len(src) * n - Skip(src, n, dst)
Mapping(src, n, dst, m) ==
  [k \in 1..(Len(dst) * m) |->
     [from |-> Expand(src, n, Skip(src, n, dst))[k], to |-> Expand(dst, m, 0)[k]]]

\* A storage block is gathered from a chunk, and scattered to one.
StoreMapping(slot, chunk) == Mapping(chunk, 1, <<slot>>, Factor)
LoadMapping(slot, chunk)  == Mapping(<<slot>>, Factor, chunk, 1)
=============================================================================
