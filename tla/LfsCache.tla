------------------------------ MODULE LfsCache -------------------------------
(***************************************************************************)
(* LittleFS's access to the block device through a program cache and a     *)
(* read cache. An action is a call of lfs_bd_prog, _flush, _sync or _erase *)
(* from start to end, or one round of lfs_bd_read, for one user at a time. *)
(* Offsets count units of which ReadSize make a read and ProgSize a        *)
(* program.                                                                *)
(***************************************************************************)
EXTENDS Integers, Sequences

CONSTANTS
  CacheBlocks,
  BlockSize,    \* of a block and of either cache, as the driver configures them
  ReadSize, ProgSize,
  WornBlocks,   \* their last unit does not take a program any more
  Reads,        \* tried: offset, length and hint
  MaxErases     \* bound of the run

\* lfs_init demands that a cache hold whole reads and programs; a program is
\* of whole reads, as the driver has one size for both.
ASSUME CacheAssumption ==
  /\ CacheBlocks \subseteq Nat /\ WornBlocks \subseteq CacheBlocks
  /\ ReadSize \in Nat \ {0} /\ ProgSize \in Nat \ {0} /\ BlockSize \in Nat \ {0}
  /\ ProgSize % ReadSize = 0 /\ BlockSize % ProgSize = 0
  /\ \A r \in Reads : r \in Nat \X Nat \X (Nat \ {0})

VARIABLES
  cells,        \* block -> its units: 0 erased, else the generation written
  pcache,       \* [block, off, size, buffer], block NoBlock when it is empty
  rcache,
  latest,       \* what each block holds once everything is flushed
  stale,        \* the read cache's block was written or erased since it was loaded
  flushed,      \* result of the last flush
  erases,
  reading       \* the call of lfs_bd_read under way

lfsCacheVars == <<cells, pcache, rcache, latest, stale, flushed, erases, reading>>

NoBlock == -1
Cells == 0..BlockSize - 1
EmptyCache == [block |-> NoBlock, off |-> 0, size |-> 0, buffer |-> <<>>]
NoRead == [block |-> NoBlock, off |-> 0, size |-> 0, hint |-> 0, data |-> <<>>, fresh |-> FALSE]

Least(a, b) == IF a < b THEN a ELSE b
AlignDown(a, n) == a - (a % n)
AlignUpTo(a, n) == AlignDown(a + n - 1, n)

\* The n units from off on, of a block or of what a cache holds.
OnDisk(d, block, off, n) == [i \in 1..n |-> d[block][off + i - 1]]
InCache(c, off, n) == [i \in 1..n |-> c.buffer[off - c.off + i]]

Loaded(d, block, off, n) ==
  [block |-> block, off |-> off, size |-> n, buffer |-> OnDisk(d, block, off, n)]

-----------------------------------------------------------------------------
(***************************************************************************)
(* The rounds of lfs_bd_read: what lies in the program cache comes from    *)
(* there, then what lies in the read cache; the rest is read past the      *)
(* caches when it is long enough, and otherwise loaded into the read cache *)
(* first. A read is fresh if it does not begin with a stale cache.         *)
(***************************************************************************)
BeginRead(block, off, size, hint) ==
  /\ reading = NoRead /\ off + size <= BlockSize
  /\ reading' = [block |-> block, off |-> off, size |-> size, hint |-> hint, data |-> <<>>,
                 fresh |-> ~(stale /\ rcache.block = block)]
  /\ UNCHANGED <<cells, pcache, rcache, latest, stale, flushed, erases>>

Within(c) ==
  reading.block = c.block /\ reading.off >= c.off /\ reading.off < c.off + c.size

\* diff, or what lies in front of the cache, which takes priority.
Ahead(c, diff) ==
  IF reading.block = c.block /\ reading.off < c.off THEN Least(diff, c.off - reading.off) ELSE diff

\* Variant: the program cache takes no priority over what follows in the other.
ReachPast == reading.size

Reach == Ahead(pcache, reading.size)

RestOf(c) == c.size - (reading.off - c.off)

Taken(n, data) ==
  /\ reading' = [reading EXCEPT !.off = @ + n, !.size = @ - n, !.data = @ \o data]
  /\ UNCHANGED <<cells, pcache, rcache, latest, stale, flushed, erases>>

ReadProgrammed ==
  /\ reading.size > 0 /\ Within(pcache)
  /\ LET n == Least(reading.size, RestOf(pcache)) IN Taken(n, InCache(pcache, reading.off, n))

ReadCached ==
  /\ reading.size > 0 /\ ~Within(pcache) /\ Within(rcache)
  /\ LET n == Least(Reach, RestOf(rcache)) IN Taken(n, InCache(rcache, reading.off, n))

Uncached == reading.size > 0 /\ ~Within(pcache) /\ ~Within(rcache)

Bypasses ==
  reading.size >= reading.hint /\ reading.off % ReadSize = 0 /\ reading.size >= ReadSize

Direct == AlignDown(Ahead(rcache, Reach), ReadSize)

ReadDevice ==
  /\ Uncached /\ Bypasses
  /\ Taken(Direct, OnDisk(cells, reading.block, reading.off, Direct))

Line ==
  LET start == AlignDown(reading.off, ReadSize)
      end   == Least(AlignUpTo(reading.off + reading.hint, ReadSize), BlockSize)
  IN  Loaded(cells, reading.block, start, Least(end - start, BlockSize))

LoadCache ==
  /\ Uncached /\ ~Bypasses
  /\ rcache' = Line /\ stale' = FALSE
  /\ UNCHANGED <<cells, pcache, latest, flushed, erases, reading>>

EndRead ==
  /\ reading # NoRead /\ reading.size = 0
  /\ reading' = NoRead
  /\ UNCHANGED <<cells, pcache, rcache, latest, stale, flushed, erases>>

BdRead == ReadProgrammed \/ ReadCached \/ ReadDevice \/ LoadCache \/ EndRead

-----------------------------------------------------------------------------
\* What the device holds after a program of the cache: a worn unit stays.
AfterProg(pc) ==
  [cells EXCEPT ![pc.block] = [o \in Cells |->
    IF o < pc.off \/ o >= pc.off + pc.size \/ (pc.block \in WornBlocks /\ o = BlockSize - 1)
    THEN @[o] ELSE pc.buffer[o - pc.off + 1]]]

\* Variant: the read cache is not dropped before the read back.
FlushedKeeps(pc, rc, validate) ==
  IF pc.block = NoBlock
  THEN pcache' = pc /\ rcache' = rc /\ flushed' = "ok" /\ UNCHANGED <<cells, stale>>
  ELSE /\ cells' = AfterProg(pc) /\ rcache' = rc /\ pcache' = EmptyCache
       /\ stale' = (~validate /\ (stale \/ rc.block = pc.block)) /\ flushed' = "ok"

\* lfs_bd_flush of the cache pc: emptied unless what is read back differs.
Flushed(pc, rc, validate) ==
  IF pc.block = NoBlock
  THEN /\ pcache' = pc /\ rcache' = rc /\ flushed' = "ok"
       /\ stale' = (stale /\ rc = rcache) /\ UNCHANGED cells
  ELSE LET back == Loaded(AfterProg(pc), pc.block, pc.off, AlignUpTo(pc.size, ProgSize))
           good == \A i \in 1..pc.size : back.buffer[i] = pc.buffer[i]
       IN  /\ cells' = AfterProg(pc)
           /\ rcache' = IF validate THEN back ELSE rc
           /\ stale' = (~validate /\ ((stale /\ rc = rcache) \/ rc.block = pc.block))
           /\ IF validate /\ ~good THEN flushed' = "corrupt" /\ pcache' = pc
              ELSE flushed' = "ok" /\ pcache' = EmptyCache

BdFlush(validate) ==
  reading = NoRead /\ Flushed(pcache, rcache, validate) /\ UNCHANGED <<latest, erases, reading>>

\* lfs_bd_sync drops the read cache, then flushes.
BdSync ==
  reading = NoRead /\ Flushed(pcache, EmptyCache, FALSE) /\ UNCHANGED <<latest, erases, reading>>

\* lfs_bd_prog of n units behind what the block holds; a full cache is flushed.
BdProg(block, off, n, validate) ==
  LET pc == IF pcache.block = NoBlock
            THEN [EmptyCache EXCEPT !.block = block, !.off = off] ELSE pcache
      filled == [pc EXCEPT !.size = @ + n, !.buffer = @ \o [i \in 1..n |-> erases]]
  IN  /\ reading = NoRead
      /\ pc.block = block /\ off = pc.off + pc.size /\ off + n <= BlockSize
      /\ off % ProgSize = 0 \/ pc = pcache
      /\ \A o \in Cells : o >= off => latest[block][o] = 0
      /\ latest' = [latest EXCEPT ![block] =
           [o \in Cells |-> IF o \in off..off + n - 1 THEN erases ELSE @[o]]]
      /\ IF filled.size = BlockSize THEN Flushed(filled, rcache, validate)
         ELSE pcache' = filled /\ UNCHANGED <<cells, rcache, stale, flushed>>
      /\ UNCHANGED <<erases, reading>>

\* lfs_bd_erase, for a block with nothing of it in the program cache.
BdErase(block) ==
  /\ reading = NoRead /\ erases < MaxErases /\ pcache.block # block
  /\ cells' = [cells EXCEPT ![block] = [o \in Cells |-> 0]]
  /\ latest' = [latest EXCEPT ![block] = [o \in Cells |-> 0]]
  /\ stale' = (stale \/ rcache.block = block) /\ erases' = erases + 1
  /\ UNCHANGED <<pcache, rcache, flushed, reading>>

\* A caller that was told of a bad block drops what it had for it.
DropBad ==
  /\ flushed = "corrupt"
  /\ pcache' = EmptyCache /\ flushed' = "ok"
  /\ latest' = [latest EXCEPT ![pcache.block] = cells[pcache.block]]
  /\ UNCHANGED <<cells, rcache, stale, erases, reading>>

LfsCacheInit ==
  /\ cells = [b \in CacheBlocks |-> [o \in Cells |-> 0]] /\ latest = cells
  /\ pcache = EmptyCache /\ rcache = EmptyCache /\ reading = NoRead
  /\ stale = FALSE /\ flushed = "ok" /\ erases = 1

LfsCacheNext ==
  \/ DropBad
  \/ /\ flushed = "ok"
     /\ \/ BdSync \/ BdRead
        \/ \E validate \in BOOLEAN :
             \/ BdFlush(validate)
             \/ \E b \in CacheBlocks, o \in Cells, n \in 1..BlockSize : BdProg(b, o, n, validate)
        \/ \E b \in CacheBlocks : BdErase(b)
        \/ \E b \in CacheBlocks, r \in Reads : BeginRead(b, r[1], r[2], r[3])

LfsCacheSpec == LfsCacheInit /\ [][LfsCacheNext]_lfsCacheVars

-----------------------------------------------------------------------------
(***************************************************************************)
(* Whatever the caches hold, a read returns what was programmed last, at   *)
(* every offset, length and hint, unless it began with a stale cache.      *)
(***************************************************************************)
ReadsLatest ==
  reading.fresh /\ reading.block \notin WornBlocks =>
    LET n == Len(reading.data) IN
    reading.data = OnDisk(latest, reading.block, reading.off - n, n)

\* And it comes to an end: a round past the caches reads something, and what a
\* load brings is what the next round looks for.
ReadsOn ==
  Uncached => IF Bypasses THEN Direct > 0 ELSE Within(Line)

CacheSound == ReadsLatest /\ ReadsOn

(***************************************************************************)
(* A flush that is validated and succeeds has left the block on the device *)
(* as it was programmed, on a block that takes programs or not.            *)
(***************************************************************************)
ValidatedStep ==
  \A b \in CacheBlocks :
    (pcache.block = b /\ ~stale' /\ pcache' = EmptyCache /\ rcache'.block = b) =>
      cells'[b] = latest'[b]

ValidatedIsWritten == [][ValidatedStep]_lfsCacheVars
=============================================================================
