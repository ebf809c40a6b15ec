------------------------------- MODULE LfsTree -------------------------------
(***************************************************************************)
(* The directories of LittleFS: metadata pairs that are reached from their *)
(* parents and threaded on one list of tails. mkdir, remove and rename     *)
(* take several commits; what is between them is on the disk as global     *)
(* state, spread over the pairs as differences. A commit may move the pair *)
(* to a fresh block, upon which parent and predecessor follow. Power is    *)
(* lost between any two commits. A commit is atomic (LfsCommit); a pair    *)
(* holds names instead of ids, and splits no more (LfsDir).                *)
(***************************************************************************)
EXTENDS Integers, Sequences, FiniteSets, TLC, Functions

CONSTANTS
  TreeBlocks,   \* 0, 1, ...; the superblock's pair is {0, 1}
  TreeNames,    \* numbers
  Dirs, Files,  \* what a name may stand for, numbers from 1
  MaxOps, MaxMoves, MaxCuts  \* bounds of the run

VARIABLES
  disk,   \* the newest commit of each block
  ram,    \* gstate (orphans and move), gdisk and gdelta
  op,     \* the operation that runs, its step and its copies of pairs
  held,   \* the copy of a pair that hangs in lfs->mlist
  fix,    \* lfs_dir_orphaningcommit after a pair was relocated
  scan,   \* lfs_fs_deorphan
  left,   \* what is left of the bounds
  tree,   \* history: the entries that should be there
  faults  \* history: stale commits, what asserts exclude, moves of a directory
          \* into itself, relocations after a cut

lfsTreeVars == <<disk, ram, op, held, fix, scan, left, tree, faults>>

Root    == 0
Super   == {0, 1}
Nothing == [kind |-> "none", obj |-> 0, pair |-> {}]
Blank   == [rev |-> 0, names |-> [n \in TreeNames |-> Nothing], tail |-> {}, split |-> FALSE,
            delta |-> {}]
NoMdir  == [pair |-> {}, at |-> 0, body |-> Blank]
NoOp    == [kind |-> "idle", step |-> 0, cwd |-> NoMdir, dir |-> NoMdir, name |-> 0,
            entry |-> Nothing, after |-> {}]
NoFix   == [stage |-> "none", lpair |-> {}, ldir |-> NoMdir, hasparent |-> FALSE,
            orphans |-> FALSE]
NoScan  == [pass |-> 2, pdir |-> NoMdir, more |-> FALSE, powerloss |-> FALSE]
FirstPass(powerloss) ==
  [pass |-> 0, more |-> FALSE, powerloss |-> powerloss,
   pdir |-> [NoMdir EXCEPT !.body.tail = Super, !.body.split = TRUE]]

Xor(a, b) == (a \ b) \cup (b \ a)
Met(p, q) == p \cap q # {}      \* lfs_pair_cmp: a block in common

-----------------------------------------------------------------------------
\* lfs_dir_fetch: the block with the newer revision.
Fetch(d, p) ==
  LET b == CHOOSE x \in p : \A y \in p : d[y].rev <= d[x].rev
  IN  [pair |-> p, at |-> b, body |-> d[b]]

RECURSIVE Threaded(_, _, _)
Threaded(d, p, n) ==
  IF p = {} \/ n = 0 THEN <<>> ELSE <<p>> \o Threaded(d, Fetch(d, p).body.tail, n - 1)

List(d) == Threaded(d, Super, Cardinality(TreeBlocks))
Pairs(d) == Range(List(d))

Gstate(r) == r.move \cup IF r.orphans > 0 THEN {[kind |-> "orphans", pair |-> {}, name |-> 0]} ELSE {}

RECURSIVE Summed(_, _)
Summed(d, l) == IF l = <<>> THEN {} ELSE Xor(Fetch(d, Head(l)).body.delta, Summed(d, Tail(l)))

\* The global state a mount finds.
OnDisk(d) == Summed(d, List(d))
MovesOf(g) == {a \in g : a.kind = "move"}

\* Variant: an entry that is being moved away is seen as well.
SeenTwice(g, m, n) == m.body.names[n]

\* An entry that is being moved away is not seen.
Seen(g, m, n) ==
  IF \E a \in MovesOf(g) : Met(a.pair, m.pair) /\ a.name = n THEN Nothing ELSE m.body.names[n]

FirstOf(s, l) == CHOOSE x \in s : \E i \in DOMAIN l :
  l[i] = x.m.pair /\ \A y \in s, j \in DOMAIN l : l[j] = y.m.pair => i <= j

Parents(d, g, p) ==
  {x \in [m : {Fetch(d, q) : q \in Pairs(d)}, n : TreeNames] :
     Met(Seen(g, x.m, x.n).pair, p)}

Preds(d, p) ==
  {x \in [m : {Fetch(d, q) : q \in Pairs(d)}] : Met(x.m.body.tail, p)}

-----------------------------------------------------------------------------
Used == UNION (Pairs(disk)
               \cup {disk[b].names[n].pair : b \in UNION Pairs(disk), n \in TreeNames}
               \cup {fix.lpair, fix.ldir.pair, op.dir.pair, op.cwd.pair, held.pair})
Fresh == TreeBlocks \ Used
LowestOf(s) == CHOOSE x \in s : \A y \in s : x <= y

Outcome(d, r, m, old, status) ==
  [disk |-> d, ram |-> r, m |-> m, dir |-> m, old |-> old, status |-> status, faults |-> {}]

(***************************************************************************)
(* lfs_dir_relocatingcommit of pair m: the entries of names change, and    *)
(* the tail if there is one. Either the pair's newest block takes the      *)
(* commit, with the global state, or a fresh block takes all of the pair,  *)
(* without it, as nothing leads there yet.                                 *)
(***************************************************************************)
Appended(r, m, body) ==
  LET b == [body EXCEPT !.delta = Xor(@, Xor(r.gdelta, Xor(Gstate(r), r.gdisk)))]
  IN  Outcome([disk EXCEPT ![m.at] = b], [r EXCEPT !.gdisk = Gstate(r), !.gdelta = {}],
              [m EXCEPT !.body = b], m.pair, "done")

\* Variant: the fresh block takes the global state as well.
RelocatedWithState(r, m, body) ==
  LET n == LowestOf(Fresh)
      b == [body EXCEPT !.rev = @ + 1, !.delta = Xor(@, Xor(r.gdelta, Xor(Gstate(r), r.gdisk)))]
  IN  Outcome([disk EXCEPT ![n] = b], [r EXCEPT !.gdisk = Gstate(r), !.gdelta = {}],
              [pair |-> {n, m.at}, at |-> n, body |-> b], m.pair, "relocated")

Relocated(r, m, body) ==
  LET n == LowestOf(Fresh)
      b == [body EXCEPT !.rev = @ + 1, !.delta = Xor(@, r.gdelta)]
  IN  Outcome([disk EXCEPT ![n] = b], [r EXCEPT !.gdelta = {}],
              [pair |-> {n, m.at}, at |-> n, body |-> b], m.pair, "relocated")

Written(r, m, names, tails) ==
  LET body == [disk[m.at] EXCEPT !.names = names @@ @,
                                 !.tail = tails[1], !.split = tails[2]]
      bad == IF Fetch(disk, m.pair) # m THEN {"stale"} ELSE {}
  IN  {[Appended(r, m, body) EXCEPT !.faults = bad]}
      \cup IF m.pair = Super \/ Fresh = {} \/ left.moves = 0 THEN {}
           ELSE {[Relocated(r, m, body) EXCEPT !.faults = bad]}

\* A pair that a deletion empties is dropped from its directory; there must be
\* a place for its predecessor ("pdir").
Outcomes(r, m, names, tails, pdir) ==
  LET after == [m EXCEPT !.body.names = names @@ @, !.body.tail = tails[1],
                         !.body.split = tails[2]]
      empties == /\ m.pair # Super
                 /\ \E n \in DOMAIN names : names[n] = Nothing
                 /\ \A n \in TreeNames : after.body.names[n] = Nothing
      preds == {x \in Preds(disk, m.pair) : x.m.body.split}
  IN  IF empties /\ ~pdir
      THEN {[Outcome(disk, r, m, m.pair, "failed") EXCEPT !.faults = {"no pdir"}]}
      ELSE IF ~empties \/ preds = {} THEN Written(r, m, names, tails)
      ELSE {[c EXCEPT !.dir = after] :
              c \in Written([r EXCEPT !.gdelta = Xor(@, disk[m.at].delta)],
                            FirstOf(preds, List(disk)).m, <<>>, tails)}

\* The tail as it is.
TailOf(m) == <<m.body.tail, m.body.split>>

\* fixmlist, and the state that the loop of lfs_dir_orphaningcommit starts in.
Took(c, h) ==
  /\ disk' = c.disk /\ ram' = c.ram
  /\ held' = IF Met(h.pair, c.old) THEN c.m ELSE h
  /\ faults' = faults \cup c.faults
       \cup IF c.status = "relocated" /\ left.cuts < MaxCuts THEN {"relocated after a cut"} ELSE {}
  /\ left' = [left EXCEPT !.moves = IF c.status = "relocated" THEN @ - 1 ELSE @]

Began(c) ==
  fix' = IF c.status # "relocated" THEN NoFix
         ELSE [NoFix EXCEPT !.stage = "parent", !.lpair = c.old, !.ldir = c.m]

\* "fix pending move in this pair? this looks like an optimization but is in
\* fact _required_ since relocating may outdate the move."
\* Variant: it is left to the operation that prepared it.
MovesHereNever(r, m) == {}

MovesHere(r, m) == {a \in r.move : Met(a.pair, m.pair)}
Settled(r, m)   == IF MovesHere(r, m) = {} THEN r ELSE [r EXCEPT !.move = {}]
Cleared(r, m)   == [n \in {a.name : a \in MovesHere(r, m)} |-> Nothing]

Ended(orphans) ==
  /\ fix' = NoFix
  /\ scan' = IF ~orphans THEN scan
             ELSE IF scan.pass < 2 THEN [scan EXCEPT !.more = TRUE]
             ELSE IF ram'.orphans > 0 THEN FirstPass(FALSE) ELSE scan

\* The parent gets the pair's new address, and may itself have to move.
FixParent ==
  /\ fix.stage = "parent"
  /\ LET found == Parents(disk, ram.gdisk, fix.lpair)
         x == FirstOf(found, List(disk))
         r == Settled([ram EXCEPT !.orphans = @ + 1], x.m)
         e == [x.m.body.names[x.n] EXCEPT !.pair = fix.ldir.pair]
     IN  IF found = {}
         THEN /\ fix' = [fix EXCEPT !.stage = "pred"]
              /\ UNCHANGED <<disk, ram, held, left, faults>>
         ELSE \E c \in Outcomes(r, x.m, Cleared(ram, x.m) @@ (x.n :> e), TailOf(x.m), FALSE) :
              /\ Took(c, held)
              /\ fix' = IF c.status = "relocated"
                        THEN [fix EXCEPT !.lpair = c.old, !.ldir = c.m, !.orphans = TRUE]
                        ELSE [fix EXCEPT !.stage = "pred", !.hasparent = TRUE]
  /\ UNCHANGED <<op, scan, tree>>

\* Then the predecessor's tail.
FixPred ==
  /\ fix.stage = "pred"
  /\ LET found == Preds(disk, fix.lpair)
         x == FirstOf(found, List(disk))
         r == Settled([ram EXCEPT !.orphans = IF @ > 0 /\ fix.hasparent THEN @ - 1 ELSE @], x.m)
     IN  IF found = {}
         THEN Ended(fix.orphans) /\ UNCHANGED <<disk, ram, held, left, faults>>
         ELSE \E c \in Outcomes(r, x.m, Cleared(ram, x.m), <<fix.ldir.pair, x.m.body.split>>, FALSE) :
              /\ Took(c, held)
              /\ IF c.status = "relocated"
                 THEN /\ fix' = [fix EXCEPT !.stage = "parent", !.lpair = c.old, !.ldir = c.m,
                                            !.hasparent = FALSE]
                      /\ UNCHANGED scan
                 ELSE Ended(fix.orphans)
  /\ UNCHANGED <<op, tree>>

-----------------------------------------------------------------------------
\* lfs_fs_deorphan, one pair of the list at a time.
Scanning == scan.pass < 2 /\ fix = NoFix

NextPass ==
  /\ Scanning /\ scan.pdir.body.tail = {}
  /\ LET pass == IF scan.more THEN 0 ELSE scan.pass + 1
     IN  /\ scan' = IF pass = 2 THEN NoScan ELSE [FirstPass(scan.powerloss) EXCEPT !.pass = pass]
         /\ ram' = IF pass = 2 THEN [ram EXCEPT !.orphans = 0] ELSE ram
  /\ UNCHANGED <<disk, op, held, fix, left, tree, faults>>

NextPair ==
  /\ Scanning /\ scan.pdir.body.tail # {}
  /\ LET pdir == scan.pdir
         tail == pdir.body.tail
         dir == Fetch(disk, tail)
         found == Parents(disk, ram.gdisk, tail)
         x == FirstOf(found, List(disk))
         linked == x.m.body.names[x.n].pair
         Then(r, names, tails) == \E c \in Outcomes(r, pdir, names, tails, TRUE) :
           /\ Took(c, held) /\ Began(c)
           /\ scan' = [scan EXCEPT !.pdir = c.dir]
     IN  IF ~pdir.body.split /\ scan.pass = 0 /\ found # {} /\ linked # tail
         THEN Then(Settled(ram, pdir), Cleared(ram, pdir), <<linked, FALSE>>)
         ELSE IF ~pdir.body.split /\ scan.pass = 1 /\ found = {} /\ scan.powerloss
         THEN Then([ram EXCEPT !.gdelta = Xor(@, dir.body.delta)], <<>>,
                   <<dir.body.tail, dir.body.split>>)
         ELSE /\ scan' = [scan EXCEPT !.pdir = dir]
              /\ UNCHANGED <<disk, ram, held, fix, left, faults>>
  /\ UNCHANGED <<op, tree>>

-----------------------------------------------------------------------------
Chain(d, p) ==
  LET behind(b) == IF b.split THEN <<p, b.tail>> ELSE <<p>> IN behind(Fetch(d, p).body)

\* Each directory that a mount reaches from the root, with its first pair.
Below(d, g, s) == s \cup
  {<<e.obj, e.pair>> : e \in {f \in
     {Seen(g, Fetch(d, p), n) : n \in TreeNames, p \in UNION {Range(Chain(d, x[2])) : x \in s}} :
     f.kind = "dir"}}
PlacesIn(d, g) == Below(d, g, Below(d, g, {<<Root, Super>>}))
Places(d) == PlacesIn(d, OnDisk(d))

\* What a mount sees: <<directory, name, file or directory>>.
TreeIn(d, g) ==
  {t \in UNION {{<<x[1], n, Seen(g, Fetch(d, p), n).obj>> :
                   n \in TreeNames, p \in Range(Chain(d, x[2]))} : x \in PlacesIn(d, g)} :
     t[3] # 0}
Tree(d) == TreeIn(d, OnDisk(d))

Home(x, n) ==
  LET c == Chain(disk, x[2])
  IN  Fetch(disk, IF Len(c) = 2 /\ \A k \in TreeNames : k <= n THEN c[2] ELSE c[1])
EntryAt(x, n) == Home(x, n).body.names[n]
LastPair(x) == Fetch(disk, Chain(disk, x[2])[Len(Chain(disk, x[2]))])

Quiet == fix = NoFix /\ scan = NoScan
Idle  == op = NoOp /\ Quiet

Empty(m) == ~m.body.split /\ \A n \in TreeNames : m.body.names[n] = Nothing

-----------------------------------------------------------------------------
LfsTreeInit ==
  /\ \/ disk = [b \in TreeBlocks |-> IF b = 0 THEN [Blank EXCEPT !.rev = 1] ELSE Blank]
     \/ \E o \in Files, n \in TreeNames :
          /\ \A k \in TreeNames : k <= n
          /\ disk = [b \in TreeBlocks |->
               CASE b = 0 -> [Blank EXCEPT !.rev = 1, !.tail = {2, 3}, !.split = TRUE]
                 [] b = 2 -> [Blank EXCEPT !.rev = 1,
                                !.names[n] = [kind |-> "file", obj |-> o, pair |-> {}]]
                 [] OTHER -> Blank]
  /\ ram = [orphans |-> 0, move |-> {}, gdisk |-> {}, gdelta |-> {}]
  /\ op = NoOp /\ held = NoMdir /\ fix = NoFix /\ scan = NoScan
  /\ left = [ops |-> MaxOps, moves |-> MaxMoves, cuts |-> MaxCuts]
  /\ tree = Tree(disk) /\ faults = {}

\* lfs_fs_forceconsistency: what the next operation does first.
Demove ==
  /\ Idle
  /\ \E a \in MovesOf(ram.gdisk) :
       LET m == Fetch(disk, a.pair)
       IN  \E c \in Outcomes([ram EXCEPT !.move = {}], m, (a.name :> Nothing), TailOf(m), TRUE) :
             Took(c, held) /\ Began(c)
  /\ UNCHANGED <<op, scan, tree>>

Deorphan ==
  /\ Idle /\ MovesOf(ram.gdisk) = {} /\ ram.orphans > 0
  /\ scan' = FirstPass(TRUE)
  /\ UNCHANGED <<disk, ram, op, held, fix, left, tree, faults>>

Ready == Idle /\ left.ops > 0 /\ MovesOf(ram.gdisk) = {} /\ ram.orphans = 0

Starts(kind, step, cwd, dir, n, e, after) ==
  op' = [kind |-> kind, step |-> step, cwd |-> cwd, dir |-> dir, name |-> n, entry |-> e,
         after |-> after]

\* What an LFS_ASSERT excludes. The asserts are compiled out, so the code goes
\* on from there; the model does not.
Excluded(which) ==
  faults' = faults \cup {which} /\ UNCHANGED <<disk, ram, op, held, fix, scan, left, tree>>

\* lfs_file_opencfg of a name that is new.
CreateFile(x, n, o) ==
  /\ Ready /\ x \in Places(disk) /\ EntryAt(x, n) = Nothing
  /\ \A t \in tree : t[3] # o
  /\ LET m == Home(x, n)
         e == [kind |-> "file", obj |-> o, pair |-> {}]
     IN  \E c \in Outcomes(ram, m, (n :> e), TailOf(m), TRUE) :
           /\ Took(c, held) /\ Began(c)
           /\ Starts("create", 3, m, NoMdir, n, e, tree \cup {<<x[1], n, o>>})
  /\ UNCHANGED <<scan, tree>>

(***************************************************************************)
(* lfs_mkdir_: the new pair is written with the tail of the directory's    *)
(* last pair, threaded behind that pair if it is not the one that gets the *)
(* entry, and entered.                                                     *)
(***************************************************************************)
Mkdir(x, n, o) ==
  /\ Ready /\ x \in Places(disk) /\ EntryAt(x, n) = Nothing
  /\ \A t \in tree : t[3] # o
  /\ Cardinality(Fresh) >= 2
  /\ LET a == LowestOf(Fresh)
         b == LowestOf(Fresh \ {a})
         m == [pair |-> {a, b}, at |-> a, body |-> Blank]
         new == [Blank EXCEPT !.rev = 1, !.tail = LastPair(x).body.tail]
         c == Appended(ram, m, new)
         e == [kind |-> "dir", obj |-> o, pair |-> {a, b}]
     IN  /\ disk' = [c.disk EXCEPT ![b] = Blank] /\ ram' = c.ram
         /\ Starts("mkdir", IF Home(x, n).body.split THEN 1 ELSE 2, Home(x, n),
                   [c.m EXCEPT !.pair = {a, b}], n, e, tree \cup {<<x[1], n, o>>})
  /\ UNCHANGED <<held, fix, scan, left, tree, faults>>

MkdirThread ==
  /\ op.kind = "mkdir" /\ op.step = 1 /\ Quiet
  /\ LET m == Fetch(disk, op.cwd.body.tail)
     IN  \E c \in Outcomes([ram EXCEPT !.orphans = @ + 1], m, <<>>, <<op.dir.pair, FALSE>>, TRUE) :
           Took(c, op.cwd) /\ Began(c)
  /\ op' = [op EXCEPT !.step = 2]
  /\ UNCHANGED <<scan, tree>>

MkdirEnter ==
  /\ op.kind = "mkdir" /\ op.step = 2 /\ Quiet
  /\ LET hung == held # NoMdir
         cwd == IF hung THEN held ELSE op.cwd
         r   == IF hung THEN [ram EXCEPT !.orphans = @ - 1] ELSE ram
     IN  IF r.orphans < 0 THEN Excluded("no orphan")
         ELSE /\ \E c \in Outcomes(r, cwd, (op.name :> op.entry),
                    IF cwd.body.split THEN TailOf(cwd) ELSE <<op.dir.pair, FALSE>>, TRUE) :
                      Took(c, NoMdir) /\ Began(c)
              /\ op' = [op EXCEPT !.step = 3]
              /\ UNCHANGED <<scan, tree>>

\* lfs_remove_: an empty directory hangs in the list of open ones meanwhile.
Remove(x, n) ==
  /\ Ready /\ x \in Places(disk) /\ EntryAt(x, n) # Nothing
  /\ \E e \in {EntryAt(x, n)}, m \in {Home(x, n)} :
     LET dir == IF e.kind = "dir" THEN Fetch(disk, e.pair) ELSE NoMdir
         r   == IF e.kind = "dir" THEN [ram EXCEPT !.orphans = @ + 1] ELSE ram
     IN  /\ e.kind = "dir" => Empty(dir)
         /\ \E c \in Outcomes(r, m, (n :> Nothing), TailOf(m), TRUE) : Took(c, dir) /\ Began(c)
         /\ Starts("remove", 2, m, NoMdir, n, e, tree \ {<<x[1], n, e.obj>>})
  /\ UNCHANGED <<scan, tree>>

(***************************************************************************)
(* lfs_rename_: the new entry replaces an empty directory or a file, with  *)
(* the move pending if the old entry is in another pair. Nothing keeps a   *)
(* directory from being moved into itself or below.                        *)
(***************************************************************************)
Within(y, e) == e.kind = "dir" /\ (e.obj = y[1] \/ \E i \in TreeNames : <<e.obj, i, y[1]>> \in tree)

Rename(x, n, y, k) ==
  /\ Ready /\ {x, y} \subseteq Places(disk) /\ <<x, n>> # <<y, k>>
  /\ \E e \in {EntryAt(x, n)}, prev \in {EntryAt(y, k)},
        old \in {Home(x, n)}, new \in {Home(y, k)} :
     LET same == Met(old.pair, new.pair)
         dir  == IF prev.kind = "dir" THEN Fetch(disk, prev.pair) ELSE NoMdir
         r    == [ram EXCEPT !.orphans = IF prev.kind = "dir" THEN @ + 1 ELSE @,
                             !.move = IF same THEN @
                                      ELSE {[kind |-> "move", pair |-> old.pair, name |-> n]}]
     IN  /\ e # Nothing /\ prev.kind \in {e.kind, "none"}
         /\ prev.kind = "dir" => Empty(dir)
         /\ \E c \in Outcomes(r, new, (k :> e) @@ IF same THEN (n :> Nothing) ELSE <<>>,
                              TailOf(new), TRUE) :
              /\ Took([c EXCEPT !.faults = @ \cup IF Within(y, e) THEN {"into itself"} ELSE {}], dir)
              /\ Began(c)
         /\ Starts("rename", 1, old, NoMdir, n, e,
                   (tree \ {<<x[1], n, e.obj>>, <<y[1], k, prev.obj>>}) \cup {<<y[1], k, e.obj>>})
  /\ UNCHANGED <<scan, tree>>

\* The entry is deleted where it was, unless a relocation did that already.
RenameDelete ==
  /\ op.kind = "rename" /\ op.step = 1 /\ Quiet
  /\ op' = [op EXCEPT !.step = 2]
  /\ IF ram.move = {}
     THEN UNCHANGED <<disk, ram, held, fix, left, faults>>
     ELSE \E c \in Outcomes([ram EXCEPT !.move = {}], op.cwd, (op.name :> Nothing),
                            TailOf(op.cwd), TRUE) :
            Took(c, held) /\ Began(c)
  /\ UNCHANGED <<scan, tree>>

Dropping == op.kind \in {"remove", "rename"} /\ op.step = 2 /\ Quiet
Dropped  == op' = [op EXCEPT !.step = 3] /\ UNCHANGED <<scan, tree>>

\* Nothing is orphaned, or what was removed is no directory.
NothingToDrop ==
  /\ Dropping
  /\ \/ ram.orphans = 0 /\ held' = NoMdir /\ Dropped /\ UNCHANGED <<disk, ram, fix, left, faults>>
     \/ ram.orphans > 0 /\ held = NoMdir /\ Excluded("not a directory")

\* lfs_dir_drop: the directory that was removed is taken off the list. If it is
\* not there the call fails, with the orphan counted off.
Drop ==
  /\ Dropping /\ ram.orphans > 0 /\ held # NoMdir
  /\ LET preds == Preds(disk, held.pair)
         r == [ram EXCEPT !.orphans = @ - 1]
     IN  \/ /\ preds = {}
            /\ ram' = r /\ held' = NoMdir /\ UNCHANGED <<disk, fix, left, faults>>
         \/ /\ preds # {}
            /\ \E c \in Outcomes([r EXCEPT !.gdelta = Xor(@, Fetch(disk, held.pair).body.delta)],
                                FirstOf(preds, List(disk)).m, <<>>, TailOf(held), TRUE) :
                 Took(c, NoMdir) /\ Began(c)
  /\ Dropped

Return ==
  /\ op.step = 3 /\ Quiet
  /\ op' = NoOp /\ tree' = op.after /\ left' = [left EXCEPT !.ops = @ - 1]
  /\ UNCHANGED <<disk, ram, held, fix, scan, faults>>

\* Power is lost, and the file system mounted again (lfs_mount_).
Cut ==
  /\ left.cuts > 0 /\ ~Idle
  /\ LET g == OnDisk(disk)
     IN  ram' = [orphans |-> IF g = MovesOf(g) THEN 0 ELSE 1, move |-> MovesOf(g),
                 gdisk |-> g, gdelta |-> {}]
  /\ op' = NoOp /\ held' = NoMdir /\ fix' = NoFix /\ scan' = NoScan
  /\ left' = [left EXCEPT !.cuts = @ - 1]
  /\ tree' = Tree(disk)
  /\ UNCHANGED <<disk, faults>>

LfsTreeNext ==
  \/ Demove \/ Deorphan \/ NextPass \/ NextPair \/ FixParent \/ FixPred
  \/ \E x \in Places(disk), n \in TreeNames :
       \/ \E o \in Files : CreateFile(x, n, o)
       \/ \E o \in Dirs : Mkdir(x, n, o)
       \/ Remove(x, n)
       \/ \E y \in Places(disk), k \in TreeNames : Rename(x, n, y, k)
  \/ MkdirThread \/ MkdirEnter \/ RenameDelete \/ NothingToDrop \/ Drop \/ Return \/ Cut

-----------------------------------------------------------------------------
\* What an assertion excludes, or a directory moved into itself or below.
Failed == faults \cap {"no pdir", "no orphan", "not a directory", "into itself"} # {}

\* Whenever power is lost, a mount finds the tree as it was before the operation
\* or as it is after it. What was moved into itself is lost.
AtomicTree == Failed \/ Tree(disk) \in {tree, IF op = NoOp THEN tree ELSE op.after}

(***************************************************************************)
(* Unless the global state on the disk speaks of orphans, the list threads *)
(* the pairs of the tree, each once, and no other. So after a mount the    *)
(* first operation repairs what a cut left, which it is "needed at most    *)
(* once after poweron" to do.                                              *)
(***************************************************************************)
Reached == UNION {Range(Chain(disk, x[2])) : x \in Places(disk)}

OrphansFlagged ==
  Failed \/ (\E g \in {OnDisk(disk)} : g # MovesOf(g))
  \/ /\ Pairs(disk) = Reached
     /\ Cardinality(Reached) = Len(List(disk))

\* The same for the cuts that no relocation follows.
CutsFlagged == "relocated after a cut" \in faults \/ OrphansFlagged

\* No commit goes out from a copy of a pair that another commit has outdated.
FreshCommits == "stale" \notin faults

\* A pair that a commit empties is dropped: its predecessor can be asked for.
DropsAreExpected == "no pdir" \notin faults
=============================================================================
