------------------------------ MODULE LfsFile -------------------------------
(***************************************************************************)
(* Files and the block allocator: lfs_file_* and lfs_alloc_* of            *)
(* lib/littlefs/lfs.c, with what lfs_fs_traverse_ says of files. A file is *)
(* inline in its directory's log or a list of blocks (LfsCtz). A write     *)
(* fills fresh blocks through the file's cache, which is as large as a     *)
(* block; a flush copies what is behind them and a commit (atomic here:    *)
(* LfsCommit) puts the new list in place of the old one. A file has at     *)
(* most one handle, opened to read and write.                              *)
(***************************************************************************)
EXTENDS LfsCtz, FiniteSets, SequencesExt

CONSTANTS
  FileIds, FileBlocks,   \* block numbers from 0: lfs->block_count of them
  Window,                \* bits of the lookahead buffer
  InlineMax, FileMax,
  BadBlocks,             \* the blocks whose programs do not read back
  Data, Lengths, Sizes,  \* what is written, how much, where
  MaxCalls, MaxResets    \* bounds of the run

VARIABLES
  blocks,    \* the words of each block
  inodes,    \* the struct each file's entry holds on disk
  look,      \* lfs->lookahead
  handles,   \* lfs_file_t
  call,      \* the sync or close that runs, between its flush and its commit
  want,      \* what a file was last made to hold
  saved,     \* what it held when it was last synced
  seen,      \* what the last read returned, and should have
  bounds

lfsFileVars == <<blocks, inodes, look, handles, call, want, saved, seen, bounds>>

BlockCount == Cardinality(FileBlocks)
Missing == [kind |-> "none"]
Idle == [file |-> 0, closes |-> FALSE]
Unopened == [open |-> FALSE, inline |-> FALSE, writing |-> FALSE, reading |-> FALSE,
             dirty |-> FALSE, erred |-> FALSE, append |-> FALSE, head |-> Null,
             size |-> 0, pos |-> 0, off |-> 0, block |-> Null, cache |-> <<>>]

(***************************************************************************)
(* A call works on [blocks, look, h, err]: the state it changes, its       *)
(* handle and the first error. Words in the handle's cache are read there. *)
(***************************************************************************)
View(bs, h) == IF h.writing /\ ~h.inline THEN [bs EXCEPT ![h.block] = h.cache] ELSE bs

\* Variant: the blocks of a write that has not been flushed are left out.
InUseFlushed(st, f) ==
  LET of(h) == IF h.dirty /\ ~h.inline THEN CtzTraverse(View(st.blocks, h), h.head, h.size) ELSE {}
  IN UNION {of(IF g = f THEN st.h ELSE handles[g]) : g \in FileIds}
     \cup UNION {CtzTraverse(st.blocks, inodes[g].head, inodes[g].size) :
                 g \in {x \in FileIds : inodes[x].kind = "ctz"}}

\* lfs_fs_traverse_, of files: the lists on disk, then those of open files,
\* and the blocks that are being written.
InUse(st, f) ==
  LET of(h) ==
        (IF h.dirty /\ ~h.inline
         THEN CtzTraverse(View(st.blocks, h), h.head, h.size) ELSE {}) \cup
        (IF h.writing /\ ~h.inline
         THEN CtzTraverse(View(st.blocks, h), h.block, h.pos) ELSE {})
  IN UNION {of(IF g = f THEN st.h ELSE handles[g]) : g \in FileIds}
     \cup UNION {CtzTraverse(st.blocks, inodes[g].head, inodes[g].size) :
                 g \in {x \in FileIds : inodes[x].kind = "ctz"}}

\* What follows a call that may fail.
Then(st, Step(_)) == IF st.err # "" THEN st ELSE Step(st)

Checkpoint(st) == [st EXCEPT !.look.ckpoint = BlockCount]

\* lfs_alloc_scan: the next window. A list that does not read drops it.
Scan(st, f) ==
  LET start == (st.look.start + st.look.next) % BlockCount
      window(used) ==
        IF Lost \in used
        THEN [st EXCEPT !.err = "corrupt",
                !.look = [start |-> start, next |-> 0, size |-> 0, used |-> {}, ckpoint |-> BlockCount]]
        ELSE [st EXCEPT !.look = [start |-> start, next |-> 0, size |-> Lesser(Window, @.ckpoint),
                                  used |-> {(b - start) % BlockCount : b \in used}, ckpoint |-> @.ckpoint]]
  IN window(InUse(st, f))

RECURSIVE Alloc(_, _), FlushedCache(_, _), Programmed(_, _, _), Chunks(_, _, _)

\* lfs_alloc: the block is in got.
Alloc(st, f) ==
  LET free == {i \in st.look.next..st.look.size - 1 : i \notin st.look.used}
      first == CHOOSE i \in free : \A j \in free : i <= j
      rest == free \ {first}
      next == IF rest = {} THEN st.look.size ELSE CHOOSE i \in rest : \A j \in rest : i <= j
      to(n) == [st.look EXCEPT !.next = n, !.ckpoint = @ - (n - st.look.next)]
      look2 == to(st.look.size)
  IN IF free # {}
     THEN [st EXCEPT !.got = (st.look.start + first) % BlockCount, !.look = to(next)]
     ELSE IF look2.ckpoint <= 0 THEN [st EXCEPT !.err = "nospc", !.look = look2]
     ELSE Then(Scan([st EXCEPT !.look = look2], f), LAMBDA s : Alloc(s, f))

\* lfs_file_relocate: what the file has in its block goes to a fresh one.
Relocated(st, f, words) ==
  Then(Alloc(st, f), LAMBDA s :
    [s EXCEPT !.blocks[s.got] = <<>>, !.h.block = s.got, !.h.cache = words, !.h.writing = TRUE])

\* lfs_bd_flush of a file's cache, and the relocation of a block that went bad.
FlushedCache(st, f) ==
  IF st.err # "" THEN st
  ELSE IF st.h.block \notin BadBlocks THEN [st EXCEPT !.blocks[st.h.block] = st.h.cache]
  ELSE FlushedCache(Relocated(st, f, SubSeq(st.h.cache, 1, st.h.off)), f)

\* lfs_bd_prog into the handle's cache, which programs the block once it is
\* full; pos has not moved yet when a bad block is noticed.
Programmed(st, f, words) ==
  LET h == st.h
      cache == SubSeq(h.cache, 1, h.off) \o words
      cached == [st EXCEPT !.h.cache =
                   cache \o IF h.inline THEN SubSeq(h.cache, Len(cache) + 1, Len(h.cache)) ELSE <<>>]
  IN IF h.inline \/ Len(cache) < BlockWords THEN cached
     ELSE IF h.block \notin BadBlocks THEN [cached EXCEPT !.blocks[h.block] = cache]
     ELSE Then(Relocated(cached, f, SubSeq(cache, 1, h.off)), LAMBDA s : Programmed(s, f, words))

\* Where the next word goes: the inline cache, or a fresh block that extends
\* the one found in front of it.
NewBlock(st, f) ==
  LET h == st.h
      fill(s, erased, words) ==
        [s EXCEPT !.blocks = erased, !.h.block = s.got, !.h.writing = TRUE,
                  !.h.cache = words, !.h.off = Len(words)]
      extend(s, erased) == fill(s, erased, CtzExtend(erased, s.h.block, h.pos))
      behind(from) ==
        IF h.pos > 0 /\ from \notin FileBlocks THEN [st EXCEPT !.err = "corrupt"]
        ELSE Then(Alloc(Checkpoint([st EXCEPT !.h.block = from]), f),
                  LAMBDA s : extend(s, [s.blocks EXCEPT ![s.got] = <<>>]))
  IN IF h.inline THEN [st EXCEPT !.h.block = Inline, !.h.off = h.pos, !.h.writing = TRUE]
     ELSE behind(IF ~h.writing /\ h.pos > 0
                 THEN CtzFind(st.blocks, h.head, h.size, h.pos - 1).block ELSE h.block)

Chunks(st, f, words) ==
  LET moved(s, diff) == Checkpoint([s EXCEPT !.h.pos = @ + diff, !.h.off = @ + diff])
      part(s, diff) ==
        Then(Programmed(s, f, SubSeq(words, 1, diff)),
             LAMBDA p : Chunks(moved(p, diff), f, SubSeq(words, diff + 1, Len(words))))
  IN IF words = <<>> THEN st
     ELSE Then(IF ~st.h.writing \/ st.h.off = BlockWords THEN NewBlock(st, f) ELSE st,
               LAMBDA s : part(s, Lesser(Len(words), BlockWords - s.h.off)))

\* lfs_file_outline, for a write that does not fit inline
Outlined(st, f, n) ==
  IF ~st.h.inline \/ Greater(st.h.pos + n, st.h.size) <= InlineMax THEN st
  ELSE Then(Relocated(Checkpoint([st EXCEPT !.h.off = st.h.pos]), f, SubSeq(st.h.cache, 1, st.h.pos)),
            LAMBDA s : [s EXCEPT !.h.inline = FALSE])

FlushedWrite(st, f, words) ==
  LET marked(s) == IF s.err # "" THEN [s EXCEPT !.h.erred = TRUE] ELSE s
  IN Then(st, LAMBDA x : marked(Then(Outlined(x, f, Len(words)), LAMBDA o : Chunks(o, f, words))))

\* lfs_file_flushedread, a word at a time; what is read is added to data.
ReadWord(st) ==
  LET h == st.h
      read(found, words) ==
        IF found.off >= Len(words) THEN [st EXCEPT !.err = "corrupt"]
        ELSE [st EXCEPT !.h.reading = TRUE, !.h.block = found.block, !.h.off = found.off + 1,
                        !.h.pos = @ + 1, !.data = Append(@, words[found.off + 1])]
      at(found) ==
        read(found, IF h.inline THEN h.cache
                    ELSE IF found.block \in FileBlocks THEN st.blocks[found.block] ELSE <<>>)
  IN IF st.err # "" THEN st
     ELSE at(IF h.reading /\ h.off # BlockWords THEN [block |-> h.block, off |-> h.off]
             ELSE IF h.inline THEN [block |-> Inline, off |-> h.pos]
             ELSE CtzFind(st.blocks, h.head, h.size, h.pos))

FlushedRead(st, n) ==
  FoldLeft(LAMBDA s, i : ReadWord(s), [st EXCEPT !.data = <<>>],
           [i \in 1..Lesser(n, Greater(0, st.h.size - st.h.pos)) |-> i])

(***************************************************************************)
(* lfs_file_flush: the rest of the old file goes behind what was written,  *)
(* and the handle has the new list. A failure leaves pos where it is.      *)
(***************************************************************************)
\* Variant: the words behind the ones that were written are forgotten.
FlushTail(st, f) == st

FlushedTail(st, f) ==
  LET behind(tail) == IF tail.err # "" THEN [st EXCEPT !.err = tail.err]
                      ELSE FlushedWrite(st, f, tail.data)
  IN IF st.h.pos >= st.h.size THEN st
     ELSE behind(FlushedRead([st EXCEPT !.h.reading = FALSE], st.h.size))

Flush(st, f) ==
  LET listed(s) ==
        [s EXCEPT !.h.head = s.h.block, !.h.size = s.h.pos, !.h.pos = st.h.pos,
                  !.h.writing = FALSE, !.h.reading = FALSE, !.h.dirty = TRUE,
                  !.h.cache = IF s.h.inline THEN @ ELSE <<>>,
                  !.h.block = Null, !.h.off = 0]
  IN IF ~st.h.writing THEN [st EXCEPT !.h.reading = FALSE]
     ELSE Then(IF ~st.h.inline THEN FlushedCache(FlushedTail(st, f), f)
               ELSE [st EXCEPT !.h.pos = Greater(st.h.pos, st.h.size)], listed)

SizeOf(h) == IF h.writing THEN Greater(h.pos, h.size) ELSE h.size

Zeros(n) == [i \in 1..n |-> 0]

\* lfs_file_seek_; hit says that the place is in the cache of a reader.
SeekTo(st, f, npos, hit) ==
  LET h == st.h
      at == CtzIndex(npos)
  IN IF st.err # "" \/ h.pos = npos THEN st
     ELSE IF hit /\ h.reading /\ h.off # BlockWords /\ CtzIndex(h.pos).index = at.index
     THEN [st EXCEPT !.h.pos = npos, !.h.off = at.off]
     ELSE Then(Flush(st, f), LAMBDA s : [s EXCEPT !.h.pos = npos])

\* lfs_file_write_, with the zeros between the end and a place behind it
WriteAt(st, f, words) ==
  LET filled(p) ==
        IF p.h.writing \/ p.h.pos <= p.h.size THEN p
        ELSE FoldLeft(LAMBDA x, v : FlushedWrite(x, f, <<v>>),
                      [p EXCEPT !.h.pos = p.h.size], Zeros(p.h.pos - p.h.size))
      write(p) ==
        IF p.h.pos + Len(words) > FileMax THEN p
        ELSE Then(FlushedWrite(filled(p), f, words), LAMBDA w : [w EXCEPT !.h.erred = FALSE])
  IN Then(IF st.h.reading THEN Flush(st, f) ELSE st,
          LAMBDA s : write(IF s.h.append /\ s.h.pos < s.h.size THEN [s EXCEPT !.h.pos = s.h.size] ELSE s))

\* lfs_file_truncate_
Shrunk(st, f, size) ==
  LET inlined(r) ==
        [r EXCEPT !.h.head = Inline, !.h.size = size, !.h.dirty = TRUE,
                  !.h.reading = TRUE, !.h.inline = TRUE, !.h.cache = r.data]
      cut(s, head) ==
        [s EXCEPT !.h.pos = size, !.h.head = head, !.h.block = head, !.h.size = size,
                  !.h.dirty = TRUE, !.h.reading = TRUE]
  IN IF size <= InlineMax THEN Then(FlushedRead(SeekTo(st, f, 0, FALSE), size), inlined)
     ELSE Then(Flush(st, f),
               LAMBDA s : cut(s, CtzFind(s.blocks, s.h.head, s.h.size, size - 1).block))

Truncated(st, f, size) ==
  LET old == SizeOf(st.h)
      grown(s) == FoldLeft(LAMBDA x, v : Then(x, LAMBDA y : WriteAt(y, f, <<v>>)), s, Zeros(size - old))
  IN SeekTo(CASE size < old -> Shrunk(st, f, size)
              [] size = old -> st
              [] size > old -> grown(SeekTo(st, f, old, FALSE)), f, st.h.pos, FALSE)

(***************************************************************************)
(* The calls of the application.                                           *)
(***************************************************************************)
Struct(h) == IF h.inline THEN [kind |-> "inline", data |-> SubSeq(h.cache, 1, h.size)]
             ELSE [kind |-> "ctz", head |-> h.head, size |-> h.size]

\* What a struct on disk stands for.
ListContent(bs, head, size) ==
  LET read(s) == IF s.err # "" THEN <<Lost>> ELSE s.data
  IN read(FlushedRead([blocks |-> bs, err |-> "", data |-> <<>>,
                       h |-> [Unopened EXCEPT !.head = head, !.size = size]], size))

Content(struct) ==
  CASE struct.kind = "none" -> <<>>
    [] struct.kind = "inline" -> struct.data
    [] struct.kind = "ctz" -> ListContent(blocks, struct.head, struct.size)

Works(f) == call = Idle /\ handles[f].open
Allowed == bounds.calls < MaxCalls /\ bounds' = [bounds EXCEPT !.calls = @ + 1]
Begin(f) == [blocks |-> blocks, look |-> look, h |-> handles[f], err |-> "", got |-> 0,
             data |-> <<>>]
Ends(st, f) == /\ blocks' = st.blocks
               /\ look' = st.look
               /\ handles' = [handles EXCEPT ![f] = st.h]

LfsFileInit ==
  /\ blocks = [b \in FileBlocks |-> <<>>]
  /\ inodes = [f \in FileIds |-> Missing]
  /\ look = [start |-> 0, next |-> 0, size |-> 0, used |-> {}, ckpoint |-> BlockCount]
  /\ handles = [f \in FileIds |-> Unopened]
  /\ call = Idle
  /\ want = [f \in FileIds |-> <<>>]
  /\ saved = want
  /\ seen = [got |-> <<>>, due |-> <<>>]
  /\ bounds = [calls |-> 0, resets |-> 0]

\* lfs_file_opencfg_: an entry that is not there is created, with a commit.
OpenFile(f, trunc, append) ==
  /\ call = Idle /\ ~handles[f].open /\ Allowed
  /\ LET node == IF inodes[f] = Missing THEN [kind |-> "inline", data |-> <<>>] ELSE inodes[f]
         new == [Unopened EXCEPT !.open = TRUE, !.append = append]
         data == IF trunc THEN <<>> ELSE node.data
     IN /\ inodes' = [inodes EXCEPT ![f] = node]
        /\ handles' = [handles EXCEPT ![f] =
             IF ~trunc /\ node.kind = "ctz"
             THEN [new EXCEPT !.head = node.head, !.size = node.size]
             ELSE [new EXCEPT !.inline = TRUE, !.head = Inline, !.cache = data,
                              !.size = Len(data), !.dirty = trunc /\ inodes[f] # Missing]]
  /\ want' = [want EXCEPT ![f] = IF trunc THEN <<>> ELSE saved[f]]
  /\ UNCHANGED <<blocks, look, call, saved, seen>>

Written(w, start, words, end) ==
  [i \in 1..Greater(Len(w), end) |->
    IF i <= end /\ i > start THEN words[i - start] ELSE IF i <= Len(w) THEN w[i] ELSE 0]

WriteFile(f, n, v) ==
  /\ Works(f) /\ handles[f].pos + n <= FileMax /\ Allowed
  /\ LET words == [i \in 1..n |-> v + i]
         h == handles[f]
         start == IF h.append /\ h.pos < h.size THEN h.size ELSE h.pos
     IN \E st \in {WriteAt(Begin(f), f, words)} :
          /\ Ends(st, f)
          /\ want' = [want EXCEPT ![f] = Written(@, start, words, st.h.pos)]
  /\ UNCHANGED <<inodes, call, saved, seen>>

ReadFile(f, n) ==
  /\ Works(f) /\ Allowed
  /\ \E s \in {IF handles[f].writing THEN Flush(Begin(f), f) ELSE Begin(f)} :
     \E st \in {Then(s, LAMBDA x : FlushedRead(x, n))} :
        /\ Ends(st, f)
        /\ seen' = IF st.err = "nospc" THEN seen
                   ELSE [got |-> IF st.err # "" THEN <<Lost>> ELSE st.data,
                         due |-> SubSeq(want[f], s.h.pos + 1, Lesser(s.h.pos + n, Len(want[f])))]
  /\ UNCHANGED <<inodes, call, want, saved>>

SeekFile(f, pos, hit) ==
  /\ Works(f) /\ Allowed
  /\ Ends(SeekTo(Begin(f), f, pos, hit), f)
  /\ UNCHANGED <<inodes, call, want, saved, seen>>

TruncateFile(f, size) ==
  /\ Works(f) /\ Allowed
  /\ \E st \in {Truncated(Begin(f), f, size)}, w \in {want[f]} :
        /\ Ends(st, f)
        /\ want' = [want EXCEPT ![f] =
             IF st.err = "" THEN SubSeq(w \o Zeros(Greater(0, size - Len(w))), 1, size)
             ELSE IF size < Len(w) THEN w
             ELSE w \o Zeros(Greater(0, st.h.pos - Len(w)))]
  /\ UNCHANGED <<inodes, call, saved, seen>>

\* lfs_file_sync_ and lfs_file_close_, up to the commit
SyncFile(f, closes) ==
  /\ Works(f) /\ Allowed
  /\ \E st \in {IF handles[f].erred THEN Begin(f) ELSE Flush(Begin(f), f)} :
     LET h == IF st.err # "" THEN [st.h EXCEPT !.erred = TRUE] ELSE st.h
         commits == ~h.erred /\ h.dirty
     IN /\ Ends([st EXCEPT !.h = IF closes /\ ~commits THEN Unopened ELSE h], f)
        /\ call' = IF commits THEN [file |-> f, closes |-> closes] ELSE Idle
        /\ want' = IF closes /\ ~commits THEN [want EXCEPT ![f] = saved[f]] ELSE want
  /\ UNCHANGED <<inodes, saved, seen>>

CommitFile ==
  /\ call # Idle
  /\ LET f == call.file
     IN /\ inodes' = [inodes EXCEPT ![f] = Struct(handles[f])]
        /\ saved' = [saved EXCEPT ![f] = want[f]]
        /\ handles' = [handles EXCEPT ![f] =
             IF call.closes THEN Unopened ELSE [@ EXCEPT !.dirty = FALSE]]
  /\ call' = Idle
  /\ UNCHANGED <<blocks, look, want, seen, bounds>>

RemoveFile(f) ==
  /\ call = Idle /\ ~handles[f].open /\ inodes[f] # Missing /\ Allowed
  /\ inodes' = [inodes EXCEPT ![f] = Missing]
  /\ saved' = [saved EXCEPT ![f] = <<>>]
  /\ want' = [want EXCEPT ![f] = <<>>]
  /\ UNCHANGED <<blocks, look, handles, call, seen>>

\* The power goes, and lfs_mount_ starts the allocator anywhere.
ResetFiles ==
  /\ bounds.resets < MaxResets
  /\ bounds' = [bounds EXCEPT !.resets = @ + 1]
  /\ \E b \in FileBlocks :
       look' = [start |-> b, next |-> 0, size |-> 0, used |-> {}, ckpoint |-> BlockCount]
  /\ handles' = [f \in FileIds |-> Unopened]
  /\ call' = Idle
  /\ want' = saved
  /\ UNCHANGED <<blocks, inodes, saved, seen>>

LfsFileNext ==
  \/ \E f \in FileIds :
       \/ \E trunc, append \in BOOLEAN : OpenFile(f, trunc, append)
       \/ \E n \in Lengths, v \in Data : WriteFile(f, n, v)
       \/ \E n \in Lengths : ReadFile(f, n)
       \/ \E pos \in Sizes, hit \in BOOLEAN : SeekFile(f, pos, hit)
       \/ \E size \in Sizes : TruncateFile(f, size)
       \/ \E closes \in BOOLEAN : SyncFile(f, closes)
       \/ RemoveFile(f)
  \/ CommitFile
  \/ ResetFiles

(***************************************************************************)
(* Properties                                                              *)
(***************************************************************************)
\* A read returns what the file was last made to hold, whatever was written,
\* sought, truncated, flushed or relocated before.
ReadsBack == seen.got = seen.due

\* At any moment the disk holds what each file held when it was last synced: a
\* power cut loses nothing that was synced, and no block of it is reused.
SyncedSurvives == \A f \in FileIds : Content(inodes[f]) = saved[f]

\* The blocks of a write that has not been flushed hold what was written, also
\* after one of them went bad and was relocated: lfs.h lets prog "return
\* LFS_ERR_CORRUPT if the block should be considered bad", and lfs_file_relocate
\* moves "what exists into new block". In the code the allocator may then look
\* at a list whose last block the handle's pos does not cover yet, so that it
\* hands out, and erases, a block the list still needs.
WrittenKept ==
  \A f \in FileIds : LET h == handles[f] IN
    h.writing /\ ~h.inline => ListContent(View(blocks, h), h.block, h.pos) = SubSeq(want[f], 1, h.pos)
=============================================================================
