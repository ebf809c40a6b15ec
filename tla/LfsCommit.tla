------------------------------ MODULE LfsCommit ------------------------------
(***************************************************************************)
(* How LittleFS commits to one metadata pair on a flash that may lose      *)
(* power in every program and erase, and whose worn blocks refuse both or  *)
(* take a program without storing it.                                      *)
(* Every operation looks the pair up on the disk, so nothing is kept in    *)
(* memory between two commits. What a commit says is its number.           *)
(***************************************************************************)
EXTENDS Integers, Sequences, FiniteSets

CONSTANTS
  Blocks,       \* numbered
  Units,        \* program units of a block
  Worn,         \* the blocks that may refuse or lose a program
  BlockCycles,  \* cfg->block_cycles
  Revs,         \* number of revision counts, 2^32 on the disk
  MaxCommits    \* bound of the run

\* The pair in the beginning is 2 and 1, and 0 stands for no block; a commit
\* takes up to two units; more revisions fit between two that are compared than
\* between two relocations.
ASSUME CommitAssumption ==
  /\ {1, 2} \subseteq Blocks /\ 0 \notin Blocks
  /\ Units \in Nat \ {0, 1}
  /\ BlockCycles \in Nat \ {0} /\ Revs \in Nat
  /\ BlockCycles + 2 < Revs \div 2

VARIABLES
  disk,       \* the units of each block
  linked,     \* the pair as the parent directory names it
  super,      \* the pair is that of the superblock, which cannot move
  pc, job,    \* the commit under way
  committed,  \* history: what the last commit that returned said
  kept,       \* history: the block that the last relocation against wear kept
  aliased,    \* history: the next one kept it too
  reprogrammed  \* history: a unit was programmed that was not erased

lfsCommitVars == <<disk, linked, super, pc, job, committed, kept, aliased, reprogrammed>>

\* Part k of n of commit v; the first unit of a block begins with the revision.
Part(k, n, v, rev) == [kind |-> "part", k |-> k, n |-> n, v |-> v, rev |-> rev]
Junk(rev) == [kind |-> "junk", k |-> 0, n |-> 0, v |-> 0, rev |-> rev]
Erased    == [kind |-> "erased", k |-> 0, n |-> 0, v |-> 0, rev |-> Revs - 1]
AllErased == [u \in 1..Units |-> Erased]

NoJob == [pair |-> <<0, 0>>, rev |-> 0, at |-> 0, k |-> 0, n |-> 0, v |-> 0,
          compact |-> FALSE, tired |-> FALSE, relocated |-> FALSE, wear |-> FALSE]

-----------------------------------------------------------------------------
\* lfs_scmp: the sign of the difference, across the wrap.
Scmp(a, b) == ((a - b + Revs \div 2) % Revs) - Revs \div 2

(***************************************************************************)
(* lfs_dir_fetchmatch: the block with the newer revision, or else the      *)
(* other one, up to its last commit with a valid checksum. The rest of the *)
(* block is erased if the unit behind is as that commit's forward checksum *)
(* says; the last unit of a block has none behind it.                      *)
(***************************************************************************)
Follows(b, u) ==
  /\ b[u].kind = "part"
  /\ IF u = 1 \/ b[u - 1].k = b[u - 1].n THEN b[u].k = 1
     ELSE b[u].k = b[u - 1].k + 1 /\ b[u].v = b[u - 1].v

ValidEnds(b) == {u \in 1..Units : b[u].k = b[u].n /\ \A w \in 1..u : Follows(b, w)}

LastOf(s) == CHOOSE x \in s : \A y \in s : y <= x

\* Variant: what follows a commit is taken for erased.
ErasableAlways(b, off) == off < Units

Erasable(b, off) == off < Units /\ b[off + 1] = Erased

\* Variant: the revisions are compared as plain numbers.
NewerPlain(d, pair) ==
  IF d[pair[2]][1].rev > d[pair[1]][1].rev THEN <<pair[2], pair[1]>> ELSE pair

Newer(d, pair) ==
  IF Scmp(d[pair[2]][1].rev, d[pair[1]][1].rev) > 0 THEN <<pair[2], pair[1]>> ELSE pair

Fetch(d, pair) ==
  LET first == Newer(d, pair)
      good(p) == ValidEnds(d[p[1]]) # {}
      p    == IF good(first) THEN first ELSE <<first[2], first[1]>>
      off  == LastOf(ValidEnds(d[p[1]]))
  IN  IF ~good(p) THEN [pair |-> p, rev |-> 0, off |-> 0, v |-> -1, erased |-> FALSE]
      ELSE [pair |-> p, rev |-> d[p[1]][1].rev, off |-> off, v |-> d[p[1]][off].v,
            erased |-> Erasable(d[p[1]], off)]

-----------------------------------------------------------------------------
\* (block_cycles + 1) | 1
Modulus == IF BlockCycles % 2 = 0 THEN BlockCycles + 1 ELSE BlockCycles + 2

\* Variant: the modulus may be even.
NeedsRelocationAliased(rev) == (rev + 1) % (BlockCycles + 1) = 0

NeedsRelocation(rev) == (rev + 1) % Modulus = 0

\* lfs_dir_alloc: the revision goes on from what the block that is not
\* written holds, up to the next multiple of the modulus.
AlignUp(rev) == ((((rev + Modulus - 1) % Revs) \div Modulus) * Modulus) % Revs

LfsCommitInit ==
  /\ super \in BOOLEAN /\ linked = <<2, 1>>
  /\ \E old \in {Erased} \cup {Part(1, 1, 0, r) : r \in {0, Modulus, Revs - 2}} :
       disk = [b \in Blocks |->
         CASE b = 1 -> [AllErased EXCEPT ![1] = old]
           [] b = 2 -> [AllErased EXCEPT ![1] = Part(1, 1, 1, (AlignUp(old.rev) + 1) % Revs)]
           [] OTHER -> [u \in 1..Units |-> Junk(0)]]
  /\ pc = "idle" /\ job = NoJob /\ committed = 1
  /\ kept = 0 /\ aliased = FALSE /\ reprogrammed = FALSE

\* lfs_dir_relocatingcommit: append if that is possible.
BeginCommit == \E n \in 1..2 :
  LET f == Fetch(disk, linked)
  IN  /\ pc = "idle" /\ committed < MaxCommits
      /\ job' = [NoJob EXCEPT !.pair = f.pair, !.rev = f.rev, !.n = n, !.v = committed + 1,
                              !.at = f.off + 1]
      /\ pc' = IF f.erased /\ f.off + n <= Units THEN "prog" ELSE "compact"
      /\ UNCHANGED <<disk, linked, super, committed, kept, aliased, reprogrammed>>

\* lfs_dir_compact: the other block is rewritten, or replaced when it has
\* been written often enough.
Compact ==
  /\ pc = "compact"
  /\ LET tired == NeedsRelocation(job.rev)
     IN  /\ job' = [job EXCEPT !.rev = (@ + 1) % Revs, !.tired = tired, !.compact = TRUE,
                               !.at = 1, !.k = 0]
         /\ pc' = IF tired /\ ~super THEN "relocate" ELSE "erase"
  /\ UNCHANGED <<disk, linked, super, committed, kept, aliased, reprogrammed>>

Refused == IF job.compact THEN "relocate" ELSE "compact"

Erase ==
  /\ pc = "erase"
  /\ \/ disk' = [disk EXCEPT ![job.pair[2]] = AllErased] /\ pc' = "prog"
     \/ job.pair[2] \in Worn /\ pc' = Refused /\ UNCHANGED disk
  /\ UNCHANGED <<job, linked, super, committed, kept, aliased, reprogrammed>>

Target == IF job.compact THEN job.pair[2] ELSE job.pair[1]

\* A unit that was not erased keeps some of the bits it had.
UnitProgrammed(b, u, part) ==
  [disk EXCEPT ![b][u] = IF @ = Erased THEN part ELSE Junk(@.rev)]

Prog ==
  /\ pc = "prog" /\ job.k < job.n
  /\ \/ /\ \/ disk' = UnitProgrammed(Target, job.at, Part(job.k + 1, job.n, job.v, job.rev))
           \/ Target \in Worn /\ disk' = [disk EXCEPT ![Target][job.at] = Junk(@.rev)]
        /\ reprogrammed' = (reprogrammed \/ disk[Target][job.at] # Erased)
        /\ job' = [job EXCEPT !.at = @ + 1, !.k = @ + 1]
        /\ pc' = pc
     \/ /\ Target \in Worn /\ pc' = Refused
        /\ UNCHANGED <<disk, job, reprogrammed>>
  /\ UNCHANGED <<linked, super, committed, kept, aliased>>

\* Variant: it is not.
IntactAlways == TRUE

\* The end of lfs_dir_commitcrc: what was written is read back.
Intact == \A i \in 1..job.n :
  disk[Target][job.at - i] = Part(job.n + 1 - i, job.n, job.v, job.rev)

Verify ==
  /\ pc = "prog" /\ job.k = job.n
  /\ pc' = IF ~Intact THEN Refused ELSE IF job.relocated THEN "link" ELSE "idle"
  /\ committed' = IF pc' = "idle" THEN job.v ELSE committed
  /\ job' = IF pc' = "idle" THEN NoJob ELSE job
  /\ UNCHANGED <<disk, linked, super, kept, aliased, reprogrammed>>

\* A fresh block takes the place of the one to write. Without one a tired
\* block is used once more, and a refused commit fails; the superblock's
\* pair stays where it is.
Relocate ==
  /\ pc = "relocate"
  /\ LET free == Blocks \ {job.pair[1], job.pair[2], linked[1], linked[2]}
     IN  IF super \/ (free = {} /\ ~job.tired)
         THEN pc' = "idle" /\ job' = NoJob
         ELSE /\ pc' = "erase"
              /\ \E b \in IF free = {} THEN {job.pair[2]} ELSE free :
                   job' = [job EXCEPT !.pair[2] = b, !.relocated = TRUE, !.tired = FALSE,
                                      !.wear = job.tired /\ free # {}, !.at = 1, !.k = 0]
  /\ UNCHANGED <<disk, linked, super, committed, kept, aliased, reprogrammed>>

\* The parent's commit of the new pair (lfs_dir_orphaningcommit).
Link ==
  /\ pc = "link"
  /\ linked' = <<job.pair[2], job.pair[1]>>
  /\ kept' = IF job.wear THEN job.pair[1] ELSE 0
  /\ aliased' = (aliased \/ (job.wear /\ kept = job.pair[1]))
  /\ committed' = job.v /\ pc' = "idle" /\ job' = NoJob
  /\ UNCHANGED <<disk, super, reprogrammed>>

(***************************************************************************)
(* Power is lost. A program leaves its unit as it was or in any state, an  *)
(* erase any part of the block. The mount that follows may find the commit *)
(* that was under way; otherwise the last that returned still counts.      *)
(***************************************************************************)
SomeRevs == {job.rev, (job.rev + 1) % Revs}

\* An erase that was cut off: the first unit may still be there.
HalfErased(old, stale, left) == [u \in 1..Units |-> IF u = 1 /\ stale THEN old[1] ELSE left]

Torn ==
  CASE pc = "prog" /\ job.k < job.n ->
         {disk} \cup {[disk EXCEPT ![Target][job.at] = Junk(r)] : r \in SomeRevs}
    [] pc = "erase" ->
         {disk} \cup {[disk EXCEPT ![job.pair[2]] = HalfErased(@, stale, left)] :
             stale \in BOOLEAN, left \in {Erased} \cup {Junk(r) : r \in SomeRevs}}
    [] OTHER -> {disk}

PowerLoss ==
  /\ pc # "idle"
  /\ disk' \in Torn
  /\ pc' = "idle" /\ job' = NoJob
  /\ committed' = IF Fetch(disk', linked).v = job.v THEN job.v ELSE committed
  /\ UNCHANGED <<linked, super, kept, aliased, reprogrammed>>

LfsCommitNext ==
  \/ BeginCommit \/ Compact \/ Erase \/ Prog \/ Verify \/ Relocate \/ Link \/ PowerLoss

LfsCommitSpec == LfsCommitInit /\ [][LfsCommitNext]_lfsCommitVars

-----------------------------------------------------------------------------
(***************************************************************************)
(* At every instant a mount would find the last commit that returned or    *)
(* the one under way, and between commits nothing but the former.          *)
(***************************************************************************)
AtomicCommits ==
  /\ Fetch(disk, linked).v # -1
  /\ Fetch(disk, linked).v \in {committed} \cup IF pc = "idle" THEN {} ELSE {job.v}

\* No unit is programmed twice without an erase in between.
ProgramsErased == ~reprogrammed

CommitsSafe == AtomicCommits /\ ProgramsErased

\* Relocations against wear take turns between the two blocks of the pair.
WearIsSpread == ~aliased
=============================================================================
