------------------------------- MODULE TibxLsm -------------------------------
(***************************************************************************)
(* The LSM trees of a .tibx archive and the three readers of their cells   *)
(* (tibread/tibx/lsm.py iter_tree_entries, segment_map.py                  *)
(* build_seg_index_from_lsm, data_map.py load_extents, chains.py           *)
(* enumerate_slices).                                                      *)
(*                                                                         *)
(* A tree is a mem-tree, stored in the superblock, over an array of frozen *)
(* ctrees, newest slot first.  A key may have a cell in several of them;   *)
(* the newest cell is the truth, and it may be a tombstone.  The readers   *)
(* do not merge the layers: they take the cells in the order               *)
(* iter_tree_entries yields them, the slots in order and the mem-tree      *)
(* last, and each has its own rule for a key it meets twice.               *)
(*                                                                         *)
(* The program that writes archives is not part of the repository.  Its    *)
(* actions are here because they decide which layers a reader can find:    *)
(* cells enter the mem-tree, a flush merges it into the first slot, a      *)
(* compaction merges a slot into the next, and a tombstone goes away when  *)
(* nothing is left below it.  An archive does not change under a reader:   *)
(* the superblock is read once and a frozen page is never rewritten.       *)
(*                                                                         *)
(* LsmInit, LsmNext, LsmSpec: its trees are stored in the pages of         *)
(* TibxPages, and the two are reasoned about side by side.                 *)
(***************************************************************************)
EXTENDS Integers

CONSTANTS Keys,       \* segment ids, extents, slice ids
          Values,     \* the records stored under them
          Slots,      \* slots in the ctree array
          Absent,     \* no cell
          Dead,       \* a tombstone
          MaxWrites   \* bound on the writer's operations

Layers == 0..Slots    \* 0 is the mem-tree
Cell   == Values \cup {Absent, Dead}

ASSUME LsmAssumption == /\ Slots \in Nat /\ MaxWrites \in Nat
                        /\ Absent \notin Values /\ Dead \notin Values
                        /\ Absent # Dead

VARIABLES layer,   \* layer[i][k]: the cell of key k in layer i
          store,   \* store[k]: what the writer last stored under k, or Absent
          writes,  \* operations of the writer so far
          prog,    \* the reader that is running or has run
          stage,   \* "idle", "walk" or "done"
          source,  \* the layer iter_tree_entries yields next
          got,     \* got[k]: the record the reader has for k, or Absent
          tombs    \* keys enumerate_slices saw deleted in the mem-tree

tree   == <<layer, store, writes>>
reader == <<prog, stage, source, got, tombs>>
lsmVars   == <<tree, reader>>

Progs == {"none", "index", "extents", "slices"}

NoCells == [k \in Keys |-> Absent]

LsmInit == /\ layer  = [i \in Layers |-> NoCells]
        /\ store  = NoCells
        /\ writes = 0
        /\ prog   = "none"
        /\ stage  = "idle"
        /\ source = 0
        /\ got    = NoCells
        /\ tombs  = {}

-----------------------------------------------------------------------------
(* The writer *)

Write(k, c) ==
    /\ stage # "walk" /\ writes < MaxWrites
    /\ layer'  = [layer EXCEPT ![0][k] = c]
    /\ store'  = [store EXCEPT ![k] = IF c = Dead THEN Absent ELSE c]
    /\ writes' = writes + 1
    /\ stage'  = "idle"
    /\ UNCHANGED <<prog, source, got, tombs>>

(* Layer i merged into layer i + 1: its cells win, and a tombstone with     *)
(* nothing left below it is dropped.                                        *)
Below(i, k)  == \E j \in Layers : j > i /\ layer[j][k] # Absent
Merged(i, k) == LET c == IF layer[i][k] # Absent THEN layer[i][k] ELSE layer[i + 1][k]
                IN IF c = Dead /\ ~ Below(i + 1, k) THEN Absent ELSE c

MergeDown(i) ==
    /\ stage # "walk" /\ writes < MaxWrites
    /\ \E k \in Keys : layer[i][k] # Absent
    /\ layer'  = [j \in Layers |-> IF j = i THEN NoCells
                                   ELSE IF j = i + 1 THEN [k \in Keys |-> Merged(i, k)]
                                   ELSE layer[j]]
    /\ writes' = writes + 1
    /\ stage'  = "idle"
    /\ UNCHANGED <<store, prog, source, got, tombs>>

Put    == \E k \in Keys, v \in Values : Write(k, v)
Delete == \E k \in Keys : Write(k, Dead)
Flush  == Slots > 0 /\ MergeDown(0)
Compact == \E i \in 1..(Slots - 1) : MergeDown(i)

-----------------------------------------------------------------------------
(* The readers *)

Alive(c) == c \in Values

(* The layer yielded after layer i: the slots in order, the mem-tree last.  *)
NextSource(i) == IF i < Slots THEN i + 1 ELSE 0

(* The layer yielded first: slot 1, or the mem-tree of a tree with no slots. *)
FirstSource == NextSource(0)

Ask(p, g, t) ==
    /\ stage # "walk"
    /\ prog' = p /\ stage' = "walk" /\ source' = FirstSource
    /\ got' = g /\ tombs' = t
    /\ UNCHANGED tree

StartIndex   == Ask("index", NoCells, {})
StartExtents == Ask("extents", NoCells, {})

(* The mem-tree forgotten. *)
StartSlicesBare == Ask("slices", NoCells, {})

(* enumerate_slices decodes the mem-tree itself before it walks the tree.   *)
StartSlices ==
    Ask("slices",
          [k \in Keys |-> IF Alive(layer[0][k]) THEN layer[0][k] ELSE Absent],
          {k \in Keys : layer[0][k] = Dead})

(* segment_map: the first record met for a key stays. *)
IndexTakeLast(k, c) == IF Alive(c) THEN c ELSE got[k]
IndexTake(k, c)     == IF Alive(c) /\ got[k] = Absent THEN c ELSE got[k]

(* data_map: every record is kept; after the stable sort, bisect_right      *)
(* finds the last of those with one offset.                                 *)
ExtentTakeFirst(k, c) == IF Alive(c) /\ got[k] = Absent THEN c ELSE got[k]
ExtentTake(k, c)      == IF Alive(c) THEN c ELSE got[k]

(* slices: keys the mem-tree has a cell for, and keys already met, are      *)
(* passed over.                                                             *)
SliceTakeDead(k, c) == IF Alive(c) /\ got[k] = Absent THEN c ELSE got[k]
SliceTake(k, c)     == IF Alive(c) /\ got[k] = Absent /\ k \notin tombs THEN c ELSE got[k]

Take(k, c) == CASE prog = "index"   -> IndexTake(k, c)
                [] prog = "extents" -> ExtentTake(k, c)
                [] prog = "slices"  -> SliceTake(k, c)

(* One layer of iter_tree_entries, consumed by the running reader. *)
Walk ==
    /\ stage = "walk"
    /\ got'    = [k \in Keys |-> Take(k, layer[source][k])]
    /\ source' = NextSource(source)
    /\ stage'  = IF source = 0 THEN "done" ELSE "walk"
    /\ UNCHANGED <<tree, prog, tombs>>

LsmNext == \/ Put \/ Delete \/ Flush \/ Compact
        \/ StartIndex \/ StartExtents \/ StartSlices \/ Walk

LsmSpec == LsmInit /\ [][LsmNext]_lsmVars

-----------------------------------------------------------------------------
(* Properties *)

(* The type of every variable; a tombstone is never taken for a record. *)
TypeOK == /\ layer \in [Layers -> [Keys -> Cell]]
          /\ store \in [Keys -> Values \cup {Absent}]
          /\ writes \in 0..MaxWrites
          /\ prog \in Progs
          /\ stage \in {"idle", "walk", "done"}
          /\ source \in Layers
          /\ got \in [Keys -> Values \cup {Absent}]
          /\ tombs \subseteq Keys

(* enumerate_slices lists every slice that exists, with its newest record,  *)
(* whatever was flushed or compacted since; a slice whose tombstone is      *)
(* still in the mem-tree is not listed.                                     *)
SlicesOfStore ==
    stage = "done" /\ prog = "slices" =>
        \A k \in Keys : /\ store[k] # Absent => got[k] = store[k]
                        /\ layer[0][k] = Dead => got[k] = Absent

(* The segment index has every segment of the map, with the record of the   *)
(* newest ctree when the mem-tree has no cell for it: slot order decides.   *)
IndexOfStore ==
    stage = "done" /\ prog = "index" =>
        \A k \in Keys : store[k] # Absent =>
            /\ got[k] # Absent
            /\ layer[0][k] = Absent => got[k] = store[k]

(* A lookup in the sorted extents finds a record for every extent of the    *)
(* map: the newest one when it is in the mem-tree, or when one ctree alone  *)
(* has the key.                                                             *)
ExtentsOfStore ==
    stage = "done" /\ prog = "extents" =>
        \A k \in Keys : store[k] # Absent =>
            /\ got[k] # Absent
            /\ \/ layer[0][k] # Absent
               \/ \A i, j \in Layers : Alive(layer[i][k]) /\ Alive(layer[j][k]) => i = j
               => got[k] = store[k]
=============================================================================
