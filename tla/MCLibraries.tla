----------------------------- MODULE MCLibraries -----------------------------
(***************************************************************************)
(* Instances of the libraries the firmware is built on: LittleFS, the      *)
(* formatter, the vectors, the display and what draws on it. A behaviour   *)
(* is one of the part that is chosen in the beginning; the variables of    *)
(* the others are 0 or in one of their initial states. Fixed-point numbers *)
(* have 24 bits, 8 of them behind the point.                               *)
(***************************************************************************)
EXTENDS LfsFile, LfsCommit, LfsCache, Vector, Sh1106, Printf

VARIABLES
  part,
  pairs, moved, entries, strayed,                             \* LfsDir
  store, memory, op, held, fix, scan, left, tree, faults,     \* LfsTree
  angle, angle2, faces, frames, shape, lit                    \* Render, Frame

Dir    == INSTANCE LfsDir WITH
  Names <- {1, 2, 3}, Values <- {1}, Marked <- {2}, PairIds <- {1, 2}, MaxLog <- 5, MaxCount <- 2
Tree   == INSTANCE LfsTree WITH
  TreeBlocks <- 0..8, TreeNames <- {1, 2}, Dirs <- {11, 12}, Files <- {21},
  MaxOps <- 3, MaxMoves <- 1, MaxCuts <- 1, disk <- store, ram <- memory
Body   == INSTANCE Render WITH
  Frac <- 8, Bits <- 24, WIDTH <- 128, HEIGHT <- 64, Places <- {}, Extents <- {}, MaxFrames <- 420
Canvas == INSTANCE Frame WITH
  Frac <- 8, Bits <- 24, WIDTH <- 9, HEIGHT <- 8,
  Places <- {-1, 0, 3, 6, 8, 10}, Extents <- {1, 2, 3, 5}

\* Reads of a whole block and of parts, with hints shorter and longer.
ReadsTried == {<<0, 4, 4>>, <<1, 3, 4>>, <<1, 2, 2>>, <<0, 2, 2>>, <<3, 1, 1>>}

\* Format strings with a modifier, an argument too few, a brace left open, and
\* numbers of every kind up to both ends of their range.
FormatsTried ==
  {<<"open", "close">>, <<"a", "open", "X", "close", "open", "close">>,
   <<"open", "close", "b", "open", "close">>, <<"a", "open">>,
   <<"open", "close", "open">>, <<"open", "a">>, <<"open", "open", "close", "close">>}
Numbers ==
  [kind : {"int"}, bits : {4}, v : -8..7] \cup [kind : {"uint"}, bits : {4}, v : 0..15]
  \cup [kind : {"int"}, bits : {8}, v : {-128, -127, -100, -99, -10, -9, -1, 0, 9, 10, 99, 100, 127}]
  \cup [kind : {"fixed"}, bits : {24}, v : {-2^23, -256, -1, 0, 1, 256, 25599, 25600, 2^23 - 1}]
  \cup [kind : {"text"}, bits : {0}, v : 0..2] \cup [kind : {"none"}, bits : {0}, v : {0}]
ArgumentsTried ==
  {<<>>} \cup {<<a>> : a \in Numbers}
  \cup {<<a, b>> : a \in [kind : {"int"}, bits : {8}, v : {-128, -10, 0, 99}],
                   b \in [kind : {"fixed"}, bits : {24}, v : {-256, 0, 2^23 - 1}]}

-----------------------------------------------------------------------------
dirVars   == <<pairs, moved, entries, strayed>>
treeVars  == <<store, memory, op, held, fix, scan, left, tree, faults>>
drawVars  == <<angle, angle2, faces, frames, shape, lit>>

Parts == {"file", "cache", "dir", "pair", "tree", "text", "vector", "panel", "body", "canvas"}

LibrariesInit ==
  /\ part \in Parts
  /\ IF part = "file" THEN LfsFileInit
     ELSE /\ blocks = 0 /\ inodes = 0 /\ look = 0 /\ handles = 0 /\ call = 0
          /\ want = 0 /\ saved = 0 /\ seen = 0 /\ bounds = 0
  /\ IF part = "dir" THEN Dir!LfsDirInit
     ELSE pairs = 0 /\ moved = 0 /\ entries = 0 /\ strayed = 0
  /\ IF part = "tree" THEN Tree!LfsTreeInit
     ELSE /\ store = 0 /\ memory = 0 /\ op = 0 /\ held = 0 /\ fix = 0 /\ scan = 0 /\ left = 0
          /\ tree = 0 /\ faults = 0
  /\ LfsCacheInit
  /\ LfsCommitInit /\ (part # "pair" => ~super /\ disk[1][1] = Erased)
  /\ PrintfInit /\ (part # "text" => format = <<"open", "close">> /\ args = <<>>)
  /\ VectorInit
  /\ ShInit /\ (part # "panel" => ram[0][0] = 0)
  /\ Body!RenderInit

Still(p) ==
  /\ UNCHANGED part
  /\ p # "file"   => UNCHANGED lfsFileVars
  /\ p # "cache"  => UNCHANGED lfsCacheVars
  /\ p # "dir"    => UNCHANGED dirVars
  /\ p # "pair"   => UNCHANGED lfsCommitVars
  /\ p # "tree"   => UNCHANGED treeVars
  /\ p # "text"   => UNCHANGED printfVars
  /\ p # "vector" => UNCHANGED vectorVars
  /\ p # "panel"  => UNCHANGED shVars
  /\ p \notin {"body", "canvas"} => UNCHANGED drawVars

FileStep   == part = "file" /\ LfsFileNext /\ Still("file")
CacheStep  == part = "cache" /\ LfsCacheNext /\ Still("cache")
DirStep    == part = "dir" /\ Dir!LfsDirNext /\ Still("dir")
PairStep   == part = "pair" /\ LfsCommitNext /\ Still("pair")
TreeStep   == part = "tree" /\ Tree!LfsTreeNext /\ Still("tree")
TextStep   == part = "text" /\ PrintfNext /\ Still("text")
VectorStep == part = "vector" /\ VectorNext /\ Still("vector")
PanelStep  == part = "panel" /\ ShNext /\ Still("panel")
BodyStep   == part = "body" /\ Body!RenderNext /\ Still("body")
CanvasStep == part = "canvas" /\ Canvas!FrameNext /\ UNCHANGED <<angle, angle2, faces, frames>>
              /\ Still("canvas")

LibrariesNext ==
  \/ FileStep \/ CacheStep \/ DirStep \/ PairStep \/ TreeStep
  \/ TextStep \/ VectorStep \/ PanelStep \/ BodyStep \/ CanvasStep

librariesVars ==
  <<part, lfsFileVars, lfsCacheVars, lfsCommitVars, printfVars, vectorVars, shVars,
    dirVars, treeVars, drawVars>>

LibrariesSpec == LibrariesInit /\ [][LibrariesNext]_librariesVars

\* Explore up to the first step after which the directory's handles, or the
\* tree, are not what lfs.c expects; and keep attributes, which shift what a
\* handle counts, out of directories with a handle.
Explored ==
  /\ part = "dir" =>
       /\ ~strayed
       /\ pairs.file.open \/ pairs.dir.open =>
            \A p \in {1, 2} : \A i \in DOMAIN pairs.log[p] : pairs.log[p][i].type # "attr"
       /\ \A n \in DOMAIN entries \ {2} : entries[n].struct = 0
  /\ part = "tree" => ~Tree!Failed

(***************************************************************************)
(* The properties of the parts, each stated in its module. CacheSound,     *)
(* CommitsSafe, WearIsSpread, TextSound, VectorSound and PanelSound, and   *)
(* ValidatedIsWritten of the steps, hold at any time.                      *)
(***************************************************************************)
\* LfsFile: a read returns what was written, and a reset what was synced.
FileReadsBack == part = "file" => ReadsBack
FileSyncedSurvives == part = "file" => SyncedSurvives

\* LfsDir: entries are found with what they hold, and handles stay theirs.
DirAgrees == part = "dir" => Dir!DirAgrees /\ Dir!ReadsEach
DirHandleFollows == part = "dir" => Dir!HandleFollows

\* LfsTree: an operation is whole or not at all, over several commits, and a
\* cut that leaves something to mend is marked on disk.
TreeAtomic == part = "tree" => Tree!AtomicTree
TreeCutsFlagged == part = "tree" => Tree!CutsFlagged /\ Tree!FreshCommits

\* Render and Frame: the body stays one, and the figures are those asked for.
FiguresDrawn ==
  /\ part = "body" => Body!BodyWhole
  /\ part = "canvas" => Canvas!ShapesDrawn
=============================================================================
