------------------------------- MODULE LfsDir --------------------------------
(***************************************************************************)
(* One directory of LittleFS: a chain of metadata pairs, each a log of     *)
(* tags. An entry is known by its id, the number of entries before it in   *)
(* the pair; CREATE and DELETE tags renumber the entries behind them. A    *)
(* commit appends to the log of a pair or compacts it, which may split the *)
(* pair or drop it; the handles open on the directory are then renumbered. *)
(* Names are numbers in the order names have on the disk.                  *)
(***************************************************************************)
EXTENDS Integers, Sequences, FiniteSets

CONSTANTS
  Names, Values,   \* what entries are called, and may hold
  Marked,          \* bound of the run: the names that are given an attribute
  PairIds,         \* metadata pairs, numbered from 1
  MaxLog,          \* tags a log has room for
  MaxCount         \* entries a compacted pair has room for

VARIABLES
  pairs,     \* [log, chain, file, dir]: the logs, the pairs in their order,
             \* and an open file and an open directory (LFS's mlist)
  moved,     \* lfs->gdisk: the entry whose move was cut off, pair 0 for none
  entries,   \* history: what the directory should hold
  strayed    \* history: a handle was led to another entry

lfsDirVars == <<pairs, moved, entries, strayed>>

Gone   == -1     \* LFS_ERR_NOENT, and the size 0x3ff of a removed attribute
NoMove == [pair |-> 0, id |-> 0]
NoFile == [open |-> FALSE, name |-> 0, live |-> FALSE, pair |-> 0, id |-> 0]
NoDir  == [open |-> FALSE, pair |-> 0, id |-> 0, seen |-> {}, stay |-> {}, twice |-> FALSE, done |-> FALSE]

Tag(type, id, v) == [type |-> type, id |-> id, v |-> v, src |-> 0]
Noop == Tag("noop", 0, 0)

\* LFS_FROM_MOVE: the attributes of entry "from" of a pair become those of "to".
MoveTag(to, from, src) == [type |-> "move", id |-> to, v |-> from, src |-> src]

Splice(t) == CASE t.type = "create" -> 1 [] t.type = "delete" -> -1 [] OTHER -> 0

RECURSIVE Fold(_, _, _)
Fold(op(_, _), base, seq) ==
  IF seq = <<>> THEN base ELSE Fold(op, op(base, Head(seq)), Tail(seq))

RECURSIVE Flatten(_)
Flatten(seqs) == IF seqs = <<>> THEN <<>> ELSE Head(seqs) \o Flatten(Tail(seqs))

-----------------------------------------------------------------------------
(***************************************************************************)
(* lfs_dir_fetchmatch: forwards through the log, with the number of        *)
(* entries so far and the best match for a name: the entry itself, or the  *)
(* first one that sorts behind it (then "ok" is FALSE).                    *)
(***************************************************************************)
NoMatch == [id |-> 1023, ok |-> FALSE]

Counted(count, t) ==
  IF t.type = "name" /\ t.id >= count THEN t.id + 1 ELSE count + Splice(t)

Count(log) == Fold(Counted, 0, log)

Matched(best, t, name) ==
  LET spliced ==
        IF t.type = "delete" /\ t.id = best.id THEN [best EXCEPT !.ok = FALSE]
        ELSE IF Splice(t) # 0 /\ best # NoMatch /\ t.id <= best.id
             THEN [best EXCEPT !.id = @ + Splice(t)] ELSE best
  IN  IF t.type # "name" THEN spliced
      ELSE IF t.v = name THEN [id |-> t.id, ok |-> TRUE]
      ELSE IF t.id = best.id THEN NoMatch
      ELSE IF t.v > name /\ t.id <= best.id THEN [id |-> t.id, ok |-> FALSE]
      ELSE best

\* The entry of a cut-off move is passed over.
Found(ps, mv, p, name) ==
  LET without(best) ==
        IF mv.pair # p \/ best = NoMatch THEN best
        ELSE IF mv.id = best.id THEN [best EXCEPT !.ok = FALSE]
        ELSE IF mv.id < best.id THEN [best EXCEPT !.id = @ - 1] ELSE best
  IN  without(Fold(LAMBDA b, t : Matched(b, t, name), NoMatch, ps.log[p]))

\* lfs_dir_find: along the chain to the entry, or to the place for it.
Find(ps, mv, name) ==
  LET place(k, at, size) ==
        [pair |-> ps.chain[k], last |-> k = Len(ps.chain), ok |-> at.ok, below |-> at.id < size,
         id |-> IF at.id < size THEN at.id ELSE size]
      stop(places) ==
        places[CHOOSE k \in DOMAIN places :
          /\ places[k].last \/ places[k].ok \/ places[k].below
          /\ \A j \in 1..k - 1 : ~(places[j].ok \/ places[j].below)]
  IN  stop([k \in DOMAIN ps.chain |->
             place(k, Found(ps, mv, ps.chain[k], name), Count(ps.log[ps.chain[k]]))])

-----------------------------------------------------------------------------
\* Variant: a DELETE is not passed over.
RECURSIVE GetFromNoDelete(_, _, _, _)
GetFromNoDelete(log, type, id, d) ==
  IF log = <<>> THEN Gone
  ELSE LET t == log[Len(log)]
           spliced == t.type = "create" /\ t.id <= id - d
       IN  IF spliced /\ t.id = id - d THEN Gone
           ELSE IF t.type = type /\ t.id = id - d THEN t.v
           ELSE GetFromNoDelete(SubSeq(log, 1, Len(log) - 1), type, id, IF spliced THEN d + 1 ELSE d)

(***************************************************************************)
(* lfs_dir_getslice: backwards through the log; d is by how much the ids   *)
(* have shifted since the tag that is looked at.                           *)
(***************************************************************************)
RECURSIVE GetFrom(_, _, _, _)
GetFrom(log, type, id, d) ==
  IF log = <<>> THEN Gone
  ELSE LET t == log[Len(log)]
           spliced == Splice(t) # 0 /\ t.id <= id - d
           d2 == IF spliced THEN d + Splice(t) ELSE d
       IN  IF spliced /\ t.type = "create" /\ t.id = id - d THEN Gone
           ELSE IF t.type = type /\ t.id = id - d2 THEN t.v
           ELSE GetFrom(SubSeq(log, 1, Len(log) - 1), type, id, d2)

Get(ps, mv, p, type, id) ==
  IF mv.pair = p /\ mv.id = id THEN Gone
  ELSE GetFrom(ps.log[p], type, id, IF mv.pair = p /\ mv.id < id THEN -1 ELSE 0)

-----------------------------------------------------------------------------
\* Variant: ids are not adjusted to the entries created and deleted later.
FilteredUnshifted(f, t) ==
  IF f = Noop \/ t.type = "move" THEN f
  ELSE IF \/ t.type = f.type /\ t.id = f.id
          \/ f.type = "attr" /\ f.v = Gone
          \/ t.type = "delete" /\ t.id = f.id
       THEN Noop ELSE f

(***************************************************************************)
(* lfs_dir_traverse with lfs_dir_traverse_filter: what the tags behind it  *)
(* leave of tag f, which is nothing, or f with another id.                 *)
(***************************************************************************)
Filtered(f, t) ==
  IF f = Noop \/ t.type = "move" THEN f
  ELSE IF \/ t.type = f.type /\ t.id = f.id
          \/ f.type = "attr" /\ f.v = Gone
          \/ t.type = "delete" /\ t.id = f.id
       THEN Noop
  ELSE IF Splice(t) # 0 /\ t.id <= f.id THEN [f EXCEPT !.id = @ + Splice(t)] ELSE f

Unique(log, i) ==
  IF Splice(log[i]) # 0 THEN Noop
  ELSE Fold(Filtered, log[i], SubSeq(log, i + 1, Len(log)))

\* The attributes a move brings along.
Attributes(log, from, to) ==
  Flatten([i \in DOMAIN log |->
    LET f == Unique(log, i)
    IN  IF f.type \in {"struct", "attr"} /\ f.id = from
        THEN <<[f EXCEPT !.id = to]>> ELSE <<>>])

Written(ps, t, diff) ==
  CASE t.type = "noop" -> <<>>
    [] t.type = "move" -> Attributes(ps.log[t.src], t.v, t.id + diff)
    [] OTHER           -> <<[t EXCEPT !.id = @ + diff]>>

Appended(ps, p, attrs) ==
  ps.log[p] \o Flatten([i \in DOMAIN attrs |-> Written(ps, attrs[i], 0)])

\* lfs_dir_compact of the entries from begin to end.
Compacted(ps, p, attrs, begin, end) ==
  LET all == ps.log[p] \o attrs
  IN  Flatten([i \in DOMAIN all |->
        LET f == Unique(all, i)
        IN  IF f.id \in begin..end - 1 THEN Written(ps, f, -begin) ELSE <<>>])

-----------------------------------------------------------------------------
(***************************************************************************)
(* lfs_dir_relocatingcommit. A pair that lost its last entry is dropped    *)
(* unless it is the first; the tags are appended if they fit and the rest  *)
(* of the block is known to be erased, which it may not be after power was *)
(* lost, or else the pair is compacted, and split when it holds too much   *)
(* (lfs_dir_splittingcompact).                                             *)
(***************************************************************************)
PosOf(chain, p) == CHOOSE k \in DOMAIN chain : chain[k] = p

NewCount(ps, p, attrs) ==
  Fold(LAMBDA c, t : c + Splice(t), Count(ps.log[p]), attrs)

Drops(ps, p, attrs) ==
  /\ \E i \in DOMAIN attrs : attrs[i].type = "delete"
  /\ NewCount(ps, p, attrs) = 0 /\ PosOf(ps.chain, p) > 1

Outcomes(ps, p, attrs, erased) ==
  LET k    == PosOf(ps.chain, p)
      free == PairIds \ {ps.chain[j] : j \in DOMAIN ps.chain}
      compacted(begin, end) == Compacted(ps, p, attrs, begin, end)
      split(q, half, count) ==
        [ps EXCEPT !.log = [@ EXCEPT ![q] = compacted(half, count), ![p] = compacted(0, half)],
                   !.chain = SubSeq(@, 1, k) \o <<q>> \o SubSeq(@, k + 1, Len(@))]
      rewritten(count) ==
        IF count <= MaxCount \/ free = {} THEN [ps EXCEPT !.log[p] = compacted(0, count)]
        ELSE split(CHOOSE q \in free : \A r \in free : q <= r, count \div 2, count)
      outcome(full) ==
        IF Drops(ps, p, attrs)
        THEN [ps EXCEPT !.log[p] = <<>>,
                        !.chain = SubSeq(@, 1, k - 1) \o SubSeq(@, k + 1, Len(@))]
        ELSE IF erased /\ Len(full) <= MaxLog THEN [ps EXCEPT !.log[p] = full]
        ELSE rewritten(NewCount(ps, p, attrs))
  IN  {outcome(Appended(ps, p, attrs))}

\* Variant: a handle at the id of a new entry keeps its id.
RenumberedLate(h, t, isdir) ==
  IF t.type = "delete" /\ h.id = t.id /\ ~isdir THEN [h EXCEPT !.pair = 0]
  ELSE IF t.type = "delete" /\ h.id > t.id THEN [h EXCEPT !.id = @ - 1]
  ELSE IF t.type = "create" /\ h.id > t.id THEN [h EXCEPT !.id = @ + 1] ELSE h

(***************************************************************************)
(* fixmlist: what a commit of attrs does to the id of a handle on the      *)
(* pair. An open file whose entry is deleted loses its pair; then a handle *)
(* whose id lies behind the pair's end goes on to the next one.            *)
(***************************************************************************)
Renumbered(h, t, isdir) ==
  IF t.type = "delete" /\ h.id = t.id /\ ~isdir THEN [h EXCEPT !.pair = 0]
  ELSE IF t.type = "delete" /\ h.id > t.id THEN [h EXCEPT !.id = @ - 1]
  ELSE IF t.type = "create" /\ h.id >= t.id THEN [h EXCEPT !.id = @ + 1] ELSE h

\* A file that lost its pair is led on like any other handle.
RECURSIVE Led(_, _, _, _)
Led(h, chain, k, log) ==
  IF k >= Len(chain) \/ h.id < Count(log[chain[k]]) THEN h
  ELSE Led([h EXCEPT !.pair = chain[k + 1], !.id = @ - Count(log[chain[k]])], chain, k + 1, log)

Fixed(h, ps, new, p, attrs, isdir) ==
  IF ~h.open \/ h.pair # p THEN h
  ELSE LET g == Fold(LAMBDA x, t : Renumbered(x, t, isdir), h, attrs)
           k == PosOf(ps.chain, p)
       IN  IF ~Drops(ps, p, attrs) THEN Led(g, new.chain, k, new.log)
           ELSE IF k < Len(ps.chain) THEN Led([g EXCEPT !.pair = new.chain[k]], new.chain, k, new.log)
           ELSE [g EXCEPT !.pair = 0]

Committed(ps, p, attrs, erased) ==
  {[new EXCEPT !.file = Fixed(@, ps, new, p, attrs, FALSE),
               !.dir  = Fixed(@, ps, new, p, attrs, TRUE)] : new \in Outcomes(ps, p, attrs, erased)}

\* The open file was the last entry of a pair that is not the last, and is deleted.
Strays(ps, new) == new.file.open /\ ~new.file.live /\ new.file.pair # 0

-----------------------------------------------------------------------------
LfsDirInit ==
  /\ pairs = [log |-> [p \in PairIds |-> <<>>], chain |-> <<1>>, file |-> NoFile, dir |-> NoDir]
  /\ moved = NoMove /\ entries = <<>> /\ strayed = FALSE

Present == DOMAIN entries
Put(f, n, v) == [m \in DOMAIN f \cup {n} |-> IF m = n THEN v ELSE f[m]]
Without(f, n) == [m \in DOMAIN f \ {n} |-> f[m]]

\* Names that were made, removed or renamed are not in "stay" any more, and
\* a handle of such a name is not live.
Touched(ps, ns) ==
  [ps EXCEPT !.dir.stay = @ \ ns, !.file.live = @ /\ ps.file.name \notin ns]

\* One commit, with the history that goes with it.
Commit(ps, p, attrs, erased) ==
  \E new \in Committed(ps, p, attrs, erased) :
    pairs' = new /\ strayed' = (strayed \/ Strays(ps, new))

\* lfs_file_opencfg_ of a new file: its own handle is not renumbered.
Create(n) ==
  \E at \in {Find(pairs, moved, n)} :
      LET attrs == <<Tag("create", at.id, 0), Tag("name", at.id, n), Tag("struct", at.id, 0)>>
      IN
      /\ moved = NoMove /\ ~at.ok
      /\ Commit(Touched(pairs, {n}), at.pair, attrs, TRUE)
      /\ entries' = Put(entries, n, [struct |-> 0, attr |-> Gone])
      /\ UNCHANGED moved

Remove(n) ==
  \E at \in {Find(pairs, moved, n)} :
      /\ moved = NoMove /\ at.ok
      /\ Commit(Touched(pairs, {n}), at.pair, <<Tag("delete", at.id, 0)>>, TRUE)
      /\ entries' = Without(entries, n)
      /\ UNCHANGED moved

\* lfs_rename_: the attributes of its first commit.
RenameAttrs(old, new, to) ==
  LET samepair == old.pair = new.pair
      newoldid == IF samepair /\ ~new.ok /\ new.id <= old.id THEN old.id + 1 ELSE old.id
  IN  <<IF new.ok THEN Tag("delete", new.id, 0) ELSE Noop,
        Tag("create", new.id, 0), Tag("name", new.id, to), MoveTag(new.id, old.id, old.pair),
        IF samepair THEN Tag("delete", newoldid, 0) ELSE Noop>>

Renamed(n, to) == Put(Without(entries, n), to, entries[n])

Rename(n, to) ==
  \E old \in {Find(pairs, moved, n)}, new \in {Find(pairs, moved, to)} :
      LET attrs == RenameAttrs(old, new, to)
          ps  == Touched(pairs, {n, to})
      IN
      /\ moved = NoMove /\ n # to /\ old.ok
      /\ IF old.pair = new.pair THEN Commit(ps, old.pair, attrs, TRUE)
         ELSE \E mid \in Committed(ps, new.pair, attrs, TRUE) :
                Commit(mid, old.pair, <<Tag("delete", old.id, 0)>>, TRUE)
      /\ entries' = Renamed(n, to)
      /\ UNCHANGED moved

\* Power is lost between the two commits: the handles are gone, and mounting
\* finds the move in the global state.
RenameCut(n, to) ==
  \E old \in {Find(pairs, moved, n)}, new \in {Find(pairs, moved, to)} :
      /\ moved = NoMove /\ n # to /\ old.ok /\ old.pair # new.pair
      /\ \E mid \in Outcomes(pairs, new.pair, RenameAttrs(old, new, to), TRUE) :
           pairs' = [mid EXCEPT !.file = NoFile, !.dir = NoDir]
      /\ moved' = [pair |-> old.pair, id |-> old.id]
      /\ entries' = Renamed(n, to)
      /\ UNCHANGED strayed

\* lfs_fs_demove, which the next operation that writes begins with.
Demove ==
  /\ moved # NoMove /\ moved' = NoMove
  /\ \E erased \in BOOLEAN :
       Commit(pairs, moved.pair, <<Tag("delete", moved.id, 0)>>, erased)
  /\ UNCHANGED entries

\* lfs_setattr_ and lfs_removeattr_.
SetAttr(n, v) ==
  \E at \in {Find(pairs, moved, n)} :
      /\ moved = NoMove /\ at.ok
      /\ Commit(pairs, at.pair, <<Tag("attr", at.id, v)>>, TRUE)
      /\ entries' = [entries EXCEPT ![n].attr = v]
      /\ UNCHANGED moved

Open(n) ==
  \E at \in {Find(pairs, moved, n)} :
      /\ moved = NoMove /\ ~pairs.file.open /\ ~pairs.dir.open /\ at.ok
      /\ pairs' = [pairs EXCEPT !.file =
           [open |-> TRUE, name |-> n, live |-> TRUE, pair |-> at.pair, id |-> at.id]]
      /\ UNCHANGED <<moved, entries, strayed>>

\* lfs_file_sync_: an entry that is gone is not written.
Sync(v) ==
  LET f == pairs.file
  IN  /\ moved = NoMove /\ f.open /\ f.pair # 0
      /\ Commit(pairs, f.pair, <<Tag("struct", f.id, v)>>, TRUE)
      /\ entries' = IF f.live THEN [entries EXCEPT ![f.name].struct = v] ELSE entries
      /\ UNCHANGED moved

Close ==
  /\ pairs.file.open
  /\ pairs' = [pairs EXCEPT !.file = NoFile]
  /\ UNCHANGED <<moved, entries, strayed>>

OpenDir ==
  /\ moved = NoMove /\ ~pairs.dir.open /\ ~pairs.file.open
  /\ pairs' = [pairs EXCEPT !.dir =
       [NoDir EXCEPT !.open = TRUE, !.pair = pairs.chain[1], !.stay = Present]]
  /\ UNCHANGED <<moved, entries, strayed>>

\* lfs_dir_read_: the next entry, in the next pair if this one has no more.
ReadDir ==
  LET d  == pairs.dir
      k  == PosOf(pairs.chain, d.pair)
      on == d.id = Count(pairs.log[d.pair])
      p  == IF on THEN pairs.chain[k + 1] ELSE d.pair
      id == IF on THEN 0 ELSE d.id
      n  == Get(pairs, moved, p, "name", id)
  IN  /\ d.open /\ ~d.done
      /\ pairs' = [pairs EXCEPT !.dir =
           IF d.pair = 0 \/ (on /\ k = Len(pairs.chain)) THEN [d EXCEPT !.done = TRUE]
           ELSE [d EXCEPT !.pair = p, !.id = id + 1, !.seen = @ \cup {n},
                          !.twice = @ \/ (n \in d.seen /\ n \in d.stay)]]
      /\ UNCHANGED <<moved, entries, strayed>>

CloseDir ==
  /\ pairs.dir.open
  /\ pairs' = [pairs EXCEPT !.dir = NoDir]
  /\ UNCHANGED <<moved, entries, strayed>>

LfsDirNext ==
  \/ \E n \in Names : Create(n) \/ Remove(n) \/ Open(n)
  \/ \E n, to \in Names : Rename(n, to) \/ RenameCut(n, to)
  \/ \E n \in Marked, v \in {Gone, 1} : SetAttr(n, v)
  \/ \E v \in Values : Sync(v)
  \/ Demove \/ Close \/ OpenDir \/ ReadDir \/ CloseDir

-----------------------------------------------------------------------------
\* A name is found if and only if it is present, with what was written last;
\* the contents of an entry right behind that of a cut-off move may be "lost".
Agrees(n, lost) ==
  \E at \in {Find(pairs, moved, n)} :
      /\ at.ok <=> n \in Present
      /\ n \notin Present
         \/ (lost /\ moved.pair = at.pair /\ moved.id = at.id)
         \/ entries[n] = [struct |-> Get(pairs, moved, at.pair, "struct", at.id),
                          attr   |-> Get(pairs, moved, at.pair, "attr", at.id)]

(***************************************************************************)
(* However the log got its splices, and however often it was compacted,    *)
(* split, dropped or cut off in a move: the directory has the entries it   *)
(* should have, with their data and attributes, up to the one entry that a *)
(* cut-off move hides until it is completed.                               *)
(***************************************************************************)
DirAgrees == strayed \/ \A n \in Names : Agrees(n, TRUE)

\* The same of every entry: "synthetic moves" hide the moved entry alone.
DirAgreesAlways == strayed \/ \A n \in Names : Agrees(n, FALSE)

\* An open file stays with its entry while others come and go.
HandleFollows ==
  ~strayed /\ pairs.file.open /\ pairs.file.live =>
    \E at \in {Find(pairs, moved, pairs.file.name)} :
      at.pair = pairs.file.pair /\ at.id = pairs.file.id

\* A file that is removed while it is open leads nowhere.
RemovedIsDetached == pairs.file.open /\ ~pairs.file.live => pairs.file.pair = 0

\* An entry that is there all the time is read once, whatever happens to others.
ReadsEach ==
  LET d == pairs.dir
  IN  d.open => ~d.twice /\ (d.done => d.stay \subseteq d.seen)
=============================================================================
