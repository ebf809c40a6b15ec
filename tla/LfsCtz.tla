------------------------------- MODULE LfsCtz -------------------------------
(***************************************************************************)
(* The backwards skip list that holds a file's blocks: lfs_ctz_* of        *)
(* lib/littlefs/lfs.c, with the bit counts of lfs_util.h. Block n (from 0) *)
(* of a file starts with ctz(n) + 1 pointers, the i-th one to block        *)
(* n - 2^i. A word stands for the four bytes of a pointer; word is the     *)
(* content of the blocks, word[b][i + 1] at offset i of block b.           *)
(***************************************************************************)
EXTENDS Integers, Sequences

CONSTANT BlockWords

ASSUME BlockWordsAssumption == BlockWords \in Nat \ 0..3

Null == -1     \* LFS_BLOCK_NULL
Inline == -2   \* LFS_BLOCK_INLINE
Lost == -3     \* where a read reports LFS_ERR_CORRUPT

Lesser(a, b) == IF a < b THEN a ELSE b
Greater(a, b) == IF a > b THEN a ELSE b

RECURSIVE Popc(_), Ctz(_), Npw2(_), CtzWalk(_, _, _, _), CtzBlocks(_, _, _)

Popc(n) == IF n = 0 THEN 0 ELSE (n % 2) + Popc(n \div 2)
Ctz(n) == IF n % 2 = 1 THEN 0 ELSE 1 + Ctz(n \div 2)
Npw2(n) == IF n <= 1 THEN 0 ELSE 1 + Npw2((n + 1) \div 2)

\* lfs_ctz_index: the block of a file that holds a position, and the offset.
CtzIndex(size) ==
  LET b == BlockWords - 2
      i == (size - (Popc(size \div b - 1) + 2)) \div b
  IN IF size \div b = 0 THEN [index |-> 0, off |-> size]
     ELSE [index |-> i, off |-> size - b * i - Popc(i)]

\* Variant: a jump may be one power of two too far.
SkipOver(current, target) == Lesser(Npw2(current - target + 1), Ctz(current))

\* How far the next pointer to follow jumps, as a power of two.
Skip(current, target) == Lesser(Npw2(current - target + 1) - 1, Ctz(current))

CtzWalk(word, head, current, target) ==
  IF current <= target \/ head \notin DOMAIN word THEN head
  ELSE LET skip == Skip(current, target)
       IN CtzWalk(word, IF skip < Len(word[head]) THEN word[head][skip + 1] ELSE Lost,
                  current - 2^skip, target)

\* lfs_ctz_find
CtzFind(word, head, size, pos) ==
  IF size = 0 THEN [block |-> Null, off |-> 0]
  ELSE [block |-> CtzWalk(word, head, CtzIndex(size - 1).index, CtzIndex(pos).index),
        off |-> CtzIndex(pos).off]

\* lfs_ctz_traverse: every block, two pointers at a time where there are two.
CtzBlocks(word, head, index) ==
  IF index = 0 THEN {head}
  ELSE IF head \notin DOMAIN word THEN {Lost}
  ELSE LET count == 2 - (index % 2)
       IN {head} \cup
          IF Len(word[head]) < count THEN {Lost}
          ELSE {word[head][i] : i \in 1..count - 1}
               \cup CtzBlocks(word, word[head][count], index - count)

CtzTraverse(word, head, size) ==
  IF size = 0 THEN {} ELSE CtzBlocks(word, head, CtzIndex(size - 1).index)

\* lfs_ctz_extend, the first words of a new block behind a file of this size:
\* a copy of its last block when that is incomplete, or else pointers.
CtzExtend(word, head, size) ==
  IF size = 0 THEN <<>>
  ELSE LET last == CtzIndex(size - 1)
           skips == Ctz(last.index + 1) + 1
       IN IF last.off + 1 # BlockWords THEN SubSeq(word[head], 1, last.off + 1)
          ELSE LET pointer[i \in 1..skips] ==
                     IF i = 1 THEN head ELSE word[pointer[i - 1]][i - 1]
               IN pointer
=============================================================================
