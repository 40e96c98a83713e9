# A TLA+ model of tibread

`tibread` reads Acronis backup archives and exposes them as random-access disk images, as NTFS volumes over
FUSE, and as browsable file indexes. This directory keeps TLA+ models of the parts of it whose correctness is
hard to test, TLC configurations that check them on small instances, and TLAPS proofs for every instance.

Paths below are relative to `src/tibread/` unless they say otherwise.

## 1. Inventory

`tibread` never writes to an archive. What makes it hard is that it serves several threads at once from caches
that were written for one (FUSE and WinFsp call it from a pool of worker threads), that it must keep going over
damaged archives, and that it translates addresses through several layers, each with its own edge cases:

```
  FUSE / WinFsp threads            mount/fuse.py, tools/tibwinmount.py
        |  read(path, off, len)
  NtfsVolume                       ntfs.py: run lists, LZNT1 and XPRESS files, cache of decompressed units
        |  disk.read(off, len)
  +-----+---------------------------+
  TibReader (.tib)            TibxDiskAdapter (.tibx)
  reader.py: bitmaps,         tibx/disk_adapter.py: extents, segment cache
  locked LRU of blocks              |  segment id -> page -> payload
        |                     tibx/segment_map.py, data_map.py, chains.py   (cells of the LSM trees)
        |                     tibx/lsm.py, lsm_cells.py, reader.py          (pages)
  .tib file + index           .tibx file
  indexer.py, chunkmap*.py
```

| Component | Code | State | Operations | What is hard | What makes it correct |
|---|---|---|---|---|---|
| Sector-mode reader | `reader.py` | index records (fixed), locked LRU cache of inflated blocks, one file handle per thread | `read` | threads share the cache and interleave between its get and put; damaged blocks; clusters that straddle blocks; rank in a bitmap | a read that meets no damaged block is the slice of the backed-up partition, clipped; the cache holds under each key that block and stays in its limit; each read ends |
| LSM trees and their readers | `tibx/lsm.py`, `segment_map.py`, `data_map.py`, `chains.py` | mem-tree and ctrees (fixed per archive) | `iter_tree_entries`, `build_seg_index_from_lsm`, `load_extents`, `enumerate_slices` | a key in several layers; tombstones; flushes and compactions between slices | what was stored last is what is found; nothing deleted reappears |
| Page walk of one tree | `tibx/lsm.py` (`walk_lsm_tree`), `lsm_cells.py` | pages seen | one walk | a page that is its own ancestor, or unreadable | ends; each leaf once |
| Slice chains | `tibx/chains.py` (`walk_chain_from_uuid`, `iter_chains`) | none | walk to the root | cycles, missing parents | ends; a chain is unbroken and in order |
| Partition reads of a `.tibx` | `tibx/disk_adapter.py`, `segment.py`, `reader.py` | extents (fixed), segment cache, one file handle for all threads | `read` | an unlocked cache and an unlocked handle under threads; holes; short, sealed, cut and missing segments | a read is the image the extents describe; a segment's plaintext is its own |
| Page store | `tibx/reader.py`, `format.py` | file handle | `read_page`, CRC and single-bit recovery | a slice of a split archive numbers pages globally; a repair may make a wrong page pass | a page number names one page; what passes the checksum is what was written |
| Split archives as one file | `tibx/multislice.py` | a position | `read`, `seek` | parts that are missing; reads over a seam | a read is the concatenation |
| NTFS volume: contents | `ntfs.py` | runs (fixed), unlocked cache of decompressed units, created on first use | `read_file`, `_read_mft_record_raw` | clusters stored elsewhere than their LCN says (gap, map of shifts, overrides); short reads in the middle; threads in the cache | a read is the slice of the file; it is full; each read ends |
| NTFS volume: names | `ntfs.py` (`_build_path_index`, `_resolve`, `stat`, `list_dir`, `open`) | the path index (`_children_by_parent`, `_all_recs`, `_path_index_built`), positions of open files | lookup, list, stat, open, seek, read | first callers build one index side by side, and a failing disk ends a build; sizes come from two places; names folded by case | the index is that of the whole `$MFT`; what is listed is found; sizes agree with reads |
| NTFS volume: a record | `ntfs.py` (`_parse_mft_record`) | none | parse one record | fix-ups of sectors written at different times; signed run bytes; attributes cut short | what was written is what is parsed; of a torn record the first sector is right or the record is refused (what follows it is not: line 981 keeps it as it is) |
| Decompressors | `lznt1.py`, `xpress.py` | none | decode one buffer | bits and bytes interleaved in one stream; overlapping copies; input that ends early | inverse of the format; damage is refused or stays behind the sound part |
| Chunk map of a sector-mode archive | `chunkmap.py`, `chunkmap_legacy.py`, `chunkmap_locator.py`, `indexer.py` | where the walk is, the pieces found | locate, walk, decode, build | running sums of zigzag deltas in 64 bits; a walk that must find the next block among bytes that look like one; two decoders | one entry per block, at its own place; only damage cuts the index |
| File walk of a file-mode archive | `fs_browse.py`, `chunkmap_fs.py` | files collected so far | one pass over the archive | names and contents come in separate records and are paired by size; damage in the middle | a name is paired with its own content |
| Index files beside an archive | `indexer.py`, `fs_browse.py`, `tibx/segment_map.py` | a file next to the archive | save, load, validate | a crash in the middle of a write; an archive that changed; two processes | what is loaded describes the archive that is there |
| FUSE and WinFsp mounts | `mount/fuse.py`, `tools/tibwinmount.py` | the volume | `getattr`, `readdir`, `read`, `read_directory` | a directory is read in pieces, each asked for by the last name; exceptions become error numbers | a listing is whole and names nothing twice |
| Encryption, metadata, header check, command line | `tibx/encryption.py`, `metadata.py`, `verify.py`, `cli.py` | none | describe and print | nothing that outlives a call | — |

`PROJECT.json` lists each of them with its status, and under `hazards` what in this code a test would hardly
reach, at its line, with the properties that watch it.

### Behaviours that are hard here

* *First use.* The path index of a volume is built by whoever first needs it, without a lock: several threads
  may walk `$MFT` at once into the same dictionaries, and one of them may die of a failing disk.
* *Interleavings.* A cache of `TibReader` is locked per operation, not per lookup. The caches of
  `TibxDiskAdapter` and `NtfsVolume` have no lock: a lookup is `get` then `move_to_end`, an insert is an
  assignment, (`move_to_end`,) a length test and a `popitem`, and another thread may run between any two.
  `TibxReader` has one file handle for all threads: a seek and the read after it are two steps.
* *Partial failure.* A block that inflates short, a lost cluster, a segment that is cut: the reader goes on, and
  what it then returns must still be at the right offsets.
* *Ordering.* LSM layers are read without merging, and each reader has its own rule for a key met twice.
* *Boundaries.* Ranks in bitmaps, runs that cross the end of a gap, holes before and after extents, reads that
  end in a hole or past the end, a cache whose limit is smaller than the threads.
* *Crashes and stale state.* Only the index files beside an archive are ever written.

## 2. Modules

| Module | Models | Composed with |
|---|---|---|
| `OrderedDict` | the key order of `collections.OrderedDict`, on which all three caches are built (external) | extended by the next three |
| `ChunkMap` | building the index of a sector-mode archive: locators, the walk of a legacy one, both decoders | — |
| `TibReader` | `reader.py`: `TibReader.read`, `LRUCache` | implements `TibImage` |
| `TibImage` | abstract specification: a fixed image that is read atomically | refined by `TibReader` |
| `TibxLsm` | `iter_tree_entries` and its three consumers, with the (external) writer of the trees | — |
| `TibxPages` | the slices of a split archive, reading a page by its global number, and `walk_lsm_tree` | — |
| `TibxAdapter` | `TibxDiskAdapter.read` on a partition, with the page and segment reads it makes | — |
| `NtfsRuns` | pure operators: where the clusters of a run list are read from | extended by `NtfsUnits` |
| `NtfsUnits` | `NtfsVolume.read_file` and the cache of decompressed units | — |
| `NtfsNames` | the path index, lookups, listings, sizes, open files, and the mounts' calls for them | — |
| `Xpress`, `Lznt1` | pure operators: the two decompressors, one step a symbol | run by `OneShot` |
| `LsmCells` | pure operators: the cells of a page and of a mem-tree | run by `OneShot` |
| `PageCrc` | pure operators: the checksum of a page and the repair of a bit | run by `OneShot` |
| `NtfsRecord` | pure operators: parsing a record of `$MFT` | run by `OneShot` |
| `SliceChains` | pure operators: chains of backups | run by `OneShot` |
| `OneShot` | a call of one of the six: what was written, what damage left, what the decoder knows so far | instantiates the six |
| `Eager` | evaluate a value once (a convenience for TLC) | extended by the decoders |
| `Sidecar` | the index files beside an archive: the three ways to load, build and save one | — |
| `FsTree` | pure operators: the tree of `fs_browse._build_tree` and its lookup | extended by `FsWalk` |
| `FsWalk` | the walks of a file-mode archive: `build_index`, `extract_files`, `walk_fs_records` | — |
| `*_proofs` | theorems of the module named (`Tibx_proofs`: of `TibxLsm`, `TibxPages` and `TibxAdapter`; `Index_proofs`: of `ChunkMap` and `Sidecar`), checked by TLAPS | |
| `Lemmas` | lemmas about arithmetic, sequences, recursive functions and `OrderedDict`, for the proofs | |
| `MC*` | the instances that TLC checks | |

### 2.1 `TibReader`: sector-mode archives

State: `order` and `data` are the shared LRU cache (keys, oldest first; inflated blocks), `fpos` the file handles,
and for each thread `pc`, the `call` it serves, `cur` (`pos` in the code), `out` (the bytearray), `block` (what it
inflated) and `result`. The archive is constant: `Preamble` (the bitmaps), `Archive` (what each block's stream
inflates to, possibly less than its bitmap promises), `CorruptRecord` and `BadStream` (the two ways a block is
refused).

One action for each step between two lock acquisitions or system calls: `Begin` (the mount calls), `Enter` (the
checks before the loop), `SkipSparse`, `Hit` and `Miss` (`LRUCache.get` with the code after it up to the next such
point), `Seek`, `ReadInflate`, `Put` (`LRUCache.put` and the copy), `Return`. The slice assignment
`out[a:b] = piece` of Python *shortens* the bytearray when the piece is short; `Splice` does the same.

`TibImage` is what the file-system layers above may rely on: reads of a constant image, atomic, clipped at its
end; only a read that touches damaged bytes may be answered otherwise. The refinement mapping forgets the cache,
the handles and all local variables.

### 2.2 `TibxLsm`: cells of LSM trees

State: `layer[i][k]` (the mem-tree is layer 0, then the ctree slots), `store` (what the writer last stored), the
running reader, the layer it reads next, and what it has `got`. Readers take one layer a step, in the order of
`iter_tree_entries`: slots in order, the mem-tree last. `IndexTake`, `ExtentTake` and `SliceTake` are the three
rules for a key met again. The program that writes archives is not in the repository; its actions (`Put`,
`Delete`, `Flush`, `Compact`) are there to produce the trees that readers can meet, and are marked external.

### 2.3 `TibxAdapter`: partition reads of a `.tibx`

State: the unlocked segment cache (`order`, `data`), the one file handle (`fpos`: a page, where in it, and who put
it there), and for each thread its cursor, its output, the header page, payloads and plaintext it holds. Every
access to the cache (`Get`, `Touch`, `Store`, `Check`, `Pop`) and every seek and read of the file (`SeekHead`,
`ReadHead`, `SeekBody`, `ReadBody`, `SeekNext`, `ReadNext`) is an action. A payload is named by the place it was
read from, and `Inflate` says what a header makes of payloads, so that bytes read in the wrong place stay
recognisable. `raced` records that a read began where another thread had seeked; it is a history variable that no
action reads.

Assumed of archives: extents are disjoint or share their offset (`ExtentsAssumption`). Of a slice's global base nothing
is assumed but that it is a number (`BaseAssumption`): the comment at `tibx/reader.py:255` says that it is far larger than
the page count, the one at line 220 that it may be smaller. Where it is, one number names two pages of the file:
the header is read at the number less the base, the payload at the number itself. `HeadPage` is the former, and what a
reader gets for such a segment (`Served`) is put together of two pages. `CacheInv` says that the cache holds that and
nothing else; `ReadIsImage` promises the image of the extents whose segments are `Readable`, named by their own page.

### 2.4 `NtfsRuns` and `NtfsUnits`: files of an NTFS volume

`NtfsRuns` has no state. A volume says which LCN each cluster of the image holds (`origin`, `lost`: the truth) and
what the reader was told (`bpb`, `shift`, `map`, `overrides`). `ReadViaRuns` is the run walk, `ChunkOfRun` one
iteration of it with its five ways to place a chunk, `ReadClusters` the whole-cluster read of the decompressor, and
`BootstrapMft` the patching of `$MFT`'s runs. They are written with folds and recursive functions, since a short
read changes what every later iteration does.

The map, the gap and the overrides are given to `NtfsVolume` by its caller, and may be wrong: nothing is assumed of
them but their types, and that the shift leads from the boot sector's place of `$MFT` to a place, which is what
`__init__` computes it from (`VolumesAssumption`). `ReadIsFile` promises the file's bytes where each cluster that a read depends
on is in the image and where the reader was told (`Kept`, for `$MFT` with its patched runs `MftKept`), and always the
length. That leaves two cases to be named. With a positive shift (`$MFT` found behind its boot-sector place) a chunk that
begins before that place and ends less than the shift behind it is read unshifted (`ntfs.py:722`): `Straight` excepts streams
with such a run. And an override with a sparse prefix moves the runs behind it by one index while the mark of a later
override stays (`ntfs.py:605`), so that this run is shifted once more: its clusters are then not `MftKept`. Both are in the
volume `Up` of the instance. `PayloadsAssumption`: what an XPRESS file was compressed to decodes to a file of its size, or
not at all.

`NtfsUnits` adds threads. The image is constant, so that reads of it are part of the step that uses them; each
access to the cache is a step: `Look` (is there a dictionary?), `Get`, `Touch`, then on a miss `Build`, `Refer`,
`Create`, `Assign`, `Move`, `Check`, `Pop`, and `Use`. Several threads may find `_cu_cache` unset and make a
dictionary each, so there is one for each thread that might (`order[d]`, `data[d]`), and `ref[t]` is the one
thread `t` holds. A file is an attribute: the key `id(attr)` of the code is stable because records are kept.
The path index is `NtfsNames`', a record's bytes are `NtfsRecord`'s. Not modelled: the boot sector and the search for
`$MFT`, which end before threads start. `NtfsUnits` and
`NtfsNames` are not joined: a read of contents while the index is still being built is in neither.

### 2.5 `Sidecar`: the index files

State: `archive`, the version of the archive that is there; `file`, the index file as a sequence of parts, header
first, or `Missing`; and for each process where it is, the mode of its call, the version it walked and the one whose
size and mtime it took, how many parts it has written, and the index it got. `kind` chooses once between `.tib.idx`,
`.fs.idx` and `.segidx`, which share the actions and differ in three places: what they accept (`Construct`: that it
has the records its header counts; `LoadFiles`: that it parses and its stamp is the archive's; `LoadSegments`: that it is as long as its
count says), what a failed write does (`Fail`), and what follows a save (`Close`: an open of a sector-mode archive
reads the file it wrote, `Construct`). `open(.., "w")` truncates (`Open`), then each writer writes at its own position
(`Write`), so that two writers overwrite each other's parts and one that was truncated under leaves a `Gap`.
`Crash` may come at any step. A file is read as it is written, part by part (`Fetch`, into `fetched[p]`), until its end or,
by the constructor of `TibReader`, until it has what the header counts (`Ended`); `Accept` then judges what was read. Between
two reads another process may truncate the file and write it anew. `shared`, `torn` and `overtaken` are history variables:
whether two processes wrote the present file side by side, whether a writer of it stopped in the middle, and, for each
process, whether the file was begun anew since it began to read it.

The last one is an exception of `AcceptedIsWhole` and `RejectedForCause` that the code really needs. Without it TLC finds
traces of 17 and 18 steps: a process has read the header of an index when a forced rebuild, the only writer there is,
truncates the file and writes it again for a replaced archive; the reader then takes the old header with the new records
for an index, or raises "truncated index" (`reader.py:96`) for a file that is whole again.

A part is about what one `write` call writes; the operating system may cut it elsewhere, which makes a part that is
there or not there.

### 2.6 `FsWalk`, `FsTree`: the walks of a file-mode archive

An archive is a stream of records, `m` (a chunk), `n` (the end of a file) and `f` (a batch of metadata), and a tree of
names, sizes and paths. A record does not say which file it is of; the model's records do, so that properties can,
and no action reads it. `damage` gives each record one of the ways to be wrong that the two walks tell apart: the type
byte, the zlib header, the header of a stored block, a block that is not stored, content that fails its checksum, and
for a batch, bytes in it that look like the start of a chunk.

One step is one record. `IndexChunk` to `IndexDone` are the loop of `build_index`, which reads headers only: wrong
content passes, a wrong block header ends the walk, what does not inflate raises, an unknown type byte starts a
search for a chunk that does inflate. `ExtractChunk` to `ExtractDone` are `extract_files` over `walk_fs_records`:
what does not inflate is yielded without content and lasts to the next record that begins like one; what has no zlib
header is yielded as it stands. `Emit` is `flush_file`, the pairing by size included; `ApplyBatch` hands metadata to
files in the order they came. `Serve` builds the tree of `FsTree` from the paths of an index, where a later file
replaces a directory and all in it, and an entry whose path goes through a file is dropped; the comment at
`fs_browse.py:573` ("let the dir win") describes neither. An entry whose path has no name in it takes the place of the
root, which is a directory again as soon as another is added; `ServedIsFound` excepts it.

Assumed of an archive is what its writer does. `LayoutAssumption`: the chunks of a file come together, then its only end,
and a batch is all there is between two records of contents. `BatchesAssumption`: batches are of the files before them, in
order, and the next chunk behind one is in reach of the search for it; a batch longer than the search's window would end
either walk there, silently. `TreeAssumption`: each file with content has one record in the tree, with its size. The
properties of damage need the layout only, and those of names and of the served tree need none of the three.

Not modelled: the decoding of the tree and of a batch, chunks that look like records on the inside, something in a
batch that looks like the end of a file, and false hits behind the body other than one right behind it.

### 2.7 `TibxPages`: slices, pages, and the walk of a tree

A slice has a start and a length in the numbering of all pages; it may have been pruned (`present`), and its header may
be unreadable (`told`). A page *is* its global number in the model, so a wrong page is seen. `OpenAlone` is
`TibxReader`: one slice and its base, and `Local` translates. `OpenAll`, `Resolve` and `Concatenate` are
`MultiSliceTibxReader`: `base` is what the code calls `known`, `todo` its `unresolved`, and `Place` the search for a
gap. `ReadPage` is one page read through either handle. The recursion of `_visit` is a `stack` of pages to visit, left
to right, each with its depth: the interpreter's limit (`MaxDepth`) is what stops a cycle when `max_pages` does not.
A page that cannot be read is skipped, one that does not decode raises out of the walk. `SlicesAssumption` says that a
slice has pages and begins where the one before ends, `TreesAssumption` that trees refer to pages by numbers and that no
number is taken for a failed read.

### 2.8 `NtfsNames`: names of a volume

State: `mft` (which records parse, chosen from the volumes of the instance), the index `children` (directory and
folded name to record), `allRecs`, `built`; for each thread `pc`, the records it has yet to walk (`todo`), its `call`,
its `reply`, what an enumeration has `listed`, and an open file (`handle`); `faults` counts failing reads of the disk.

`Begin` takes a call and finds the index built or not. `BuildRecord` files one record, `BuildRaise` is a read that fails
and ends the call, `BuildEnd` sets the flag. Each thread that found the flag unset walks all of `$MFT`, and all of them
into the same dictionaries, so these are actions of one thread and the dictionaries are shared. Behind them a call
reads only what no longer changes; `Answer` and `Fill` are therefore a step each. `Fill` gives WinFsp one piece of a
directory from the marker on, of any size. `HandleSeek` and `HandleRead` are `_NtfsFileHandle`.

Strings are model values with the operators that the code applies: `Lower` (folding), `Lead` and `Trail` (white space
that `strip` removes from a path), `Cut` (separators inside a name), and `NameOrder`, the order of sorting. `NamesAssumption`
types the volumes and says of them that a directory has a name once, and of the calls that an enumeration begins without a
marker.

### 2.9 `ChunkMap`: building the index of a sector-mode archive

`arch` is the file as a sequence of items at their offsets (`block`, `inline` piece of the map, modern `map`,
anything else), with its header, trailer and the candidates for a locator; `numpy` chooses the decoder. `phase` says where
the build is. `ReadHeader`, `ReadTrailer`, `Locate` and `DecodeChunkMap` are the modern way. `WalkInline`, `WalkBlock`,
`FindNextBlock` and `WalkStop` are `discover_inline_chunkmaps_legacy`, one item a step; `cpb` and `plen` are the
geometry it believes, `locked` whether an inline record has settled it. `DecodeInline` decodes the pieces found.
`BuildIndex` turns records into entries. The numbers of a record are words of `Word` values: a delta is put together
of two of them, its sign is the lowest bit, and the sum wraps at `Word`^2, once in plain Python (`DecodeLoop`) and once
in numpy's columns (`DecodeNumpy`). Offsets and lengths are scaled; the bytes `78 01` of a zlib header may also appear
inside a bitmap (`early`) and the first byte of a block may be one that starts a map (`first`).

`ArchivesAssumption` says what a writer leaves. The fields of `arch` that only it and the properties read are `place` (the item
that holds each block of the partition), `told` (the record the map has of it), `pieces` (which items are pieces of the
map), `from` of a piece (how many blocks the pieces before it tell of) and `odd`. Its parts, and what of the format they rest on:

* `LaidOut`: items fill the file from offset 32 on, bitmaps have one length (`FORMAT_LEGACY_BLOCKS.md`), and nothing but a
  block inflates to pages. (The records of a piece do when there are a multiple of 1024 of them; a search could take such
  a piece for a block only where no block in front of it is whole.)
* `PiecesAmidBlocks`: up to the last piece there is nothing but blocks and pieces, with padding only behind a piece; a
  piece's TLV is longer than a bitmap. Pieces may adjoin, be as far apart as they like, and any item may be damaged.
* `Tells`: each piece holds the zigzag deltas of its records (`Writes`), a record tells where its block is, and offsets stay
  below 2^64.
* `Usual`, asked only of archives that are not `odd`: either the locator with the smallest offset is the map's own and
  the map is not empty, or there is a first piece that looks like one, in front of it blocks of 8-byte bitmaps, and no
  block's bitmap looks like the head of a piece.

An archive that is `odd` may be refused, but if it is indexed, `EntriesAreExact` and `MissedForCause` hold of it.

What the code gets wrong is a step over a piece. The search behind a piece (`FindNextBlock`, 128 KiB) takes the first whole
block it meets. Where all blocks between two pieces are damaged, or there are none, that block is behind the second
piece, which is missed (`Missed`) without an error; the records of a third piece then become those of the blocks that the
second tells of (`chunkmap_legacy.py:272`). The second case needs no damage: a piece that tells of sparse blocks only adjoins
the next, and in an archive that is whole the entries behind it are those of other blocks. `EntriesAreExact` is therefore
claimed of the blocks that the pieces in front of the first missed one tell of (`Known`), and says that there are other
entries only after such a step; `MissedForCause` says what has to lie between two pieces for the second to be missed. The
docstring at `chunkmap_legacy.py:214` promises "all inline SequentialChunkMap records".

### 2.10 `OneShot`: decoders, one call each

A `job` says what was written and what became of it (cut short, a byte changed, bits flipped, sectors not written);
`known` is what the decoder knows so far. Each kind is a module of operators with a writer of the format, which is only
there to produce inputs, and a decoder that is translated from the code, one step for a symbol, block, cell,
attribute or parent:

* `Xpress` (`xpress.py`): tables of code lengths, the Huffman decoder over words with bytes between them, matches with
  escaped lengths, chunks, and each way to refuse.
* `Lznt1` (`lznt1.py`): sub-blocks, groups of flags and tokens, the split of a reference into offset and length, zeros
  to the expected size.
* `LsmCells` (`lsm_cells.py`, the mem-tree decoders of `lsm.py` and `chains.py`): raw and packed pages, blocks that refer
  back to the ones before, and the three layouts of cells.
* `PageCrc` (`reader.py`, `format.py` of `tibx/`): the page is bits, the checksum a remainder; the repair of a bit. Only
  reads with `validate_crc` are modelled: the walk of a tree (`lsm.py:856`) turns it off and takes any page that has the
  envelope's magic, as `TibxPages` has it, whatever the checksum says.
* `NtfsRecord` (`ntfs.py`): fix-ups, attributes, signed run lists, names by their name space, WOF.
* `SliceChains` (`tibx/chains.py`): the walk to the root, one parent a step, and `iter_chains`.

## 3. What is checked

A few seconds to two minutes each with two workers.

| Run | Instance | Shows |
|---|---|---|
| `tibreader` | 2 threads, 5 blocks of 16 two-byte clusters, cache of one block, 14 requests | `WellFormed` (types, bounds, no look-up past the index), `CacheSound`, `ReadIsImage`; `ImplementsImage` (refinement of `TibImage`); `ReadReturns` |
| `lsm` | 2 keys, 3 values, 2 ctree slots, 6 writer steps | `SlicesOfStore`, `IndexOfStore`, `ExtentsOfStore` |
| `adapter` | 2 threads, 9 pages, 10 segments, 11 extents, cache of one segment, opened as a slice with base 6 | `CacheInv` (types, bound, and what is cached is what the archive has for it), `ReadIsImage`, `ReadReturns` |
| `adapter_race` | the same | *violated*: `SegmentIsItsOwn` |
| `ntfs` | 7 volumes (gap, map of shifts, lost clusters, each with plain files and with compressed ones; one shifted upwards with overrides that misplace a run), 2 threads, cache of one unit | `CacheInv`, `ReadIsFile` (right and full), `ReadReturns` |
| `names` | 3 volumes of up to 8 records, 2 threads, one read of the disk that fails, positions to 3 | `IndexIsMft`, `ListedIsFound`, `SizesAgree`, `EnumerationExact`, `CallsReturn` |
| `sidecar` | 2 processes, 2 versions with two and one record, the three kinds | `FilesAreCurrent`, `SavedIsFound`; action properties `AcceptedIsWhole`, `RejectedForCause` |
| `fswalk` | 2 archives of 10 and 12 records, at most 2 of them damaged, both walks | `CleanIsExact` (metadata included), `DamageIsLocal`, `NamedOnce`, `ServedIsFound`, `WalkEnds` |
| `pages` | archives of 4 slices, any pruned, any header unreadable, together or one alone; walks with page limits 4 and 20 and depth 5 | `ReadIsOwn`, `GuessIsSafe`, `WalkYieldsTree`, `WalkEnds` |
| `chunkmap` | modern and legacy archives of four blocks, the latter in two or three pieces, with and without numpy | `EntriesAreExact`, `MissedForCause`, `WholeIsIndexed`, `BuildEnds` |
| `oneshot` | jobs of the six kinds | `DecodedIsWritten`, `DamageIsCaught`, `ChainsAreLineages`, `EveryJobEnds` |
| `lznt1` | a compression unit as NTFS writes it | *violated*: `NtfsUnitsDecode` |

Six more configurations each show one comment or docstring to be violated, and are kept to be run by hand
(`tlc -config X.cfg M`):

| Configuration | Module | Violated |
|---|---|---|
| `MCTibReaderShort.cfg` | `MCTibReader` | `ReadIsFull` |
| `MCTibxAdapterHole.cfg` | `MCTibxAdapter` | `HoleEndsAtExtent` |
| `MCNtfsUnitsRace.cfg` | `MCNtfsUnits` | `RacesAreHarmless` |
| `MCTibxPagesGap.cfg` | `MCTibxPages` | `GapIsGap` |
| `MCNtfsNamesAlias.cfg` | `MCNtfsNames` | `AliasesFound` |
| `MCChunkMapHint.cfg` | `MCChunkMap` | `HintOpens` |

### Why the bounds are enough

* *Threads.* Two threads reach every pairwise race of the three caches and of the file handle. With a limit of
  one entry the second thread's insert evicts the first's at once, which is the hardest case for the pairs
  (get, `move_to_end`) and (assign, `move_to_end`, evict). The theorems cover any number of threads for all three.
* *`TibReader`.* The bitmap has two bytes with bits at both ends of each, so that the table lookup, the mask and the
  carry from one byte to the next all matter; requests begin in mid-cluster, cross a block boundary, hit each kind
  of damage and both ends of the partition. Every byte of the disk differs from every other, so a byte from a
  wrong place is seen.
* *`TibxLsm`.* Two slots and a mem-tree let one key have a cell in three layers, and six writer steps are enough to
  write, flush, compact, delete and write again. Keys and values are symmetric.
* *`TibxAdapter`.* There is one segment for each way to fail (encrypted, continuation cut off, not a header, past the
  slice, not indexed) and one for each way to succeed (one page, two pages, short). Three of the nine pages are also global
  numbers of others: of a segment that is a mixture of two pages, and of one that is cut since the other's header is longer.
* *`NtfsUnits`.* Clusters of two bytes let a request begin inside one; a gap of two clusters lets a run begin
  before, in and after it and cross its end; a unit of two clusters is verbatim, sparse, compressed, and
  initialised to its middle. The volume with the shift upwards has a run on both sides of the gap and one beside it, a cluster
  that is not where the reader was told, and two overrides of which the first misplaces the second. On the volumes without compressed files one thread reads, since threads share nothing
  there but the image.
* *`Sidecar`.* Two processes give each pair of reader and writer and two writers at once; the newer version's index is
  shorter, so that what an old file leaves behind a new one would be seen; three parts are a file that stops after
  its header, in its middle and at its end. The theorems cover any number of processes, versions and records.

* *`FsWalk`.* The first archive has a file of two chunks, two files of one size, an empty one, and batches between files,
  one of them the last record; the second has batches inside files, paths that go through one another or are the
  same, and files of one size in another order than in the tree. Two damaged records can be in one file, in two
  neighbours, or be a chunk and the record that a search for the next one would stop at; a search covers three
  records, so that it may find nothing.

* *`TibxPages`.* Four slices give a guess neighbours on both sides and a gap elsewhere; in one archive all have one
  length, in the others some gaps are as long as other slices. The trees have a page referred to twice, one that
  refers to its own ancestor, one that does not decode, one without an envelope, and pages in every slice.

* *`NtfsNames`.* Two threads reach two builds side by side, one that ends first and one that dies; a second failing read
  adds nothing, since a build that dies leaves what a slower one has yet to file. The volumes have, between them, a
  DOS name, links in two directories and twice in one, names that differ in case, white space and a separator in a
  name, a deleted record, one whose `$DATA` is elsewhere, an empty file, and a name in a directory that is gone.

* *`ChunkMap`.* Four blocks let a map piece stand before, between and behind blocks, a sparse block lie between others, and
  blocks lie in another order than in the partition, so that deltas are negative. With three pieces the middle one tells of one
  block, which may be sparse, so that two adjoin; what is between them may be damaged, or too far away for the search. A word of 32 values makes deltas use
  both words, sums wrap, and signs matter at both ends. `Window`, `MaxSkip`, `ScanWindow` and `MaxBack` are scaled so that a
  thing can be just inside and just outside each of them.

* *`OneShot`.* Everything that is a power of two in a format is scaled, and what hangs on the ratio is kept. `Xpress`: bytes
  of 3 bits, words of 6, 8 symbols, chunks of 16 bytes, so that tables with codes of each length, escapes to a byte and
  to a word, and refills between any two symbols occur. `Lznt1`: references of 6 bits of which 2 to 4 are the length,
  sub-blocks of 16 bytes, groups of 3. `LsmCells`: digits of 4 with at most 3 of them, groups of 6 cells, of which
  the count of the page may cut the last, a history of 6.
  `PageCrc`: pages of 10 bits, each with any one or two wrong, under a polynomial that has a minimum distance of 4 on them, as
  CRC-32C has on pages of 4096 bytes; `PolyAssumption` states that and TLC evaluates it. `NtfsRecord`: two sectors of 32
  cells, each old or new. `SliceChains`: parents that are gone, that form a circle, and full backups that name a parent.

### Fairness

Properties named `ReadReturns` assume that every thread in a call keeps running: weak fairness of `Step(t)`, never
of `Begin(t)`. No step of a read waits for another thread (the lock of `LRUCache` is held for one step), and the
interpreter switches between runnable threads. `WalkEnds` (`FsWalk`, `TibxPages`), `BuildEnds` (`ChunkMap`) and `EveryJobEnds` (`OneShot`) assume that the one thread
there is keeps running. `CallsReturn` (`NtfsNames`) assumes it of each thread: weak fairness of `Build(t)`, and of
`Serve(t)` written out as "infinitely often not in a call, or infinitely many of its steps". In `NtfsUnits` the same assumption is spelled out as "infinitely
often not in a call, or infinitely many changes of `pc[t]`", which is weak fairness there because every step of a
call changes `pc[t]` and one is always enabled; TLC would otherwise recompute a whole decompression to find
whether a step is enabled. `ReadReturns` of `NtfsUnits` has an exception the code really makes: the eviction loop
`while len(cache) > max` may be kept busy by another thread that calls for ever.

### What the violated properties say

Each is a comment, docstring or message that the code does not keep; `findings` in `PROJECT.json` has the quotations
for the first two.

* `adapter_race`: a thread that seeks between another's seek and read gives it another segment's payload; when the
  segment accepts it, it is cached under the wrong id (`tibx/reader.py:266`, `tibx/segment.py:171`), where
  `disk_adapter.py:401` says "Return the (cached) decompressed plaintext of segment ``seg_id``".
* `lznt1`: the bits of a reference are split the other way round (`lznt1.py:43`): 4 bits of length at the start of a
  sub-block and 12 at its end, where NTFS has 12 and 4. `lznt1.py:2` says "the algorithm used by NTFS for compressed $DATA
  attributes"; the self-test encodes with the same split.
* `MCTibReaderShort.cfg`: a block whose stream is cut short makes `read` return fewer bytes than asked for, with
  everything behind the gap at the wrong offset, and no error (`reader.py:214`), where `reader.py:174` says "Read `length`
  bytes starting at `offset`".
* `MCTibxAdapterHole.cfg`: a read that begins before the first extent is zeros to its end (`disk_adapter.py:372`), where line
  369 says "Zero-fill until the next extent (or the requested end, whichever is sooner)".
* `MCNtfsUnitsRace.cfg`: an eviction between `get` or assignment and `move_to_end` ends a read in `KeyError`, where
  `src/REVIEW_NOTES.md:52` says of such races "Result is correct but extra work" (`ntfs.py:763`, `ntfs.py:772`).
* `MCTibxPagesGap.cfg`: a slice whose header is unreadable is placed over a slice that is there, when that one adjoins the
  slice before it and is as long (`multislice.py:136`); its pages are then read for the other's. Line 128 says "slotting it
  into a gap between known contiguous ranges".
* `MCNtfsNamesAlias.cfg`: a file with hard links of the same name in two directories is indexed under the first only
  (`ntfs.py:1199`), where line 1192 says "Index every namespace-1/3/0 alias under its parent".
* `MCChunkMapHint.cfg`: every file of a split `.tib` is refused, the last one too, with the advice to "Open the
  highest-numbered `_vN.tib` file instead" (`chunkmap_locator.py:211`, `:222`; `src/README.md:141`).

Seen while modelling, and left without a run of their own:

* "newer wins" in `segment_map.py:123` holds for ctrees only: the mem-tree, the newest layer, is walked last, so the
  segment index keeps an older record; `IndexOfStore` says so by its exception.
* The batch of metadata behind the last file has no record behind it, so `walk_fs_records` ends without yielding it and
  the files it describes have no metadata in `metadata.jsonl` (`chunkmap_fs.py:465`); `CleanIsExact` allows for it.
* In a slice opened alone, a reference to a page of an earlier slice that is below the slice's own page count is taken
  for a local number, and another page is read (`tibx/reader.py:259`); `ReadIsOwn` speaks of the pages from the base on.
  The first slice's base 0 is taken for an unreadable one (`multislice.py:115`).

* A hard link that is left out of the index (`ntfs.py:1199`) is still listed in its directory (1319), under a name that
  `stat` then does not find; `ListedIsFound` excepts it.
* `ntfs.py`: extension records and `$ATTRIBUTE_LIST` are not followed (line 18), so a file's `$DATA` in another record is
  missing. Names with white space at their ends or a separator inside are listed but cannot be looked up, and of names
  that differ in case only the first is found. A record of which one sector was not written is returned partly fixed
  (981). An attribute header that is cut at the end of a record raises `struct.error`, which nothing catches.
* Mounts: FUSE's `readdir` gives "." twice in the root, and lets `NotADirectoryError` of `list_dir` through;
  `tibwinmount.py`'s "Add . and .. for non-root" adds ".." only.
* Chunk maps: in a legacy archive a piece of the map directly behind another is not found (section 2.9), and the walk starts with the
  8-byte bitmap though its docstring says that the geometry is read from the first inline record. The check of `L` in
  `decode_inline_chunkmap` is never reached. A map without records raises with numpy and not without. Damage in an
  inline piece raises, while damage in a block cuts the map short silently.
* `lznt1.py`: a sub-block may unpack to more than 4096 bytes.
* LSM pages: the docstring of compact cells (`lsm_cells.py:52`) describes another bitmap than line 324 reads. `_read_leb128`
  takes five bytes where its message says four (252). Cells behind a cut are dropped without an error by
  `decode_cells_*`. Of a mem-tree only the first LZ4 frame is decoded, and the length of a raw one is not checked.
* `tibx/reader.py`: no repair of a bit can mend a flip in the magic byte, which is tested first (303).
* `iter_chains` says that a chain starts at its full backup; it sorts by slice id, and a full backup need not have the
  lowest.

## 4. What is proved

TLAPS checks the theorems below for every value of the constants that satisfies the named assumptions. TLC evaluates
the same assumptions on the instances it runs.

**`TibReader_proofs`**, from `GeometryAssumption` (a cluster and a block have a size, a bitmap whole bytes; blocks,
the cache and the requests may be any number, negative requests included) and `ContentAssumption` (a disk and an
archive of that geometry). The inductive invariant is the types, `CacheSound` (what is cached under a key is that
block) and for each thread `RangeInv` (where `cur` stands in the request), `FetchInv` (a thread that has seeked has its
own handle at its record, and what it inflated is that block), `BufferInv` (what is before `cur` is the image, what is
behind it is zero) and `ResultInv`. `CacheSound` alone is not inductive: a put may cache anything the thread has in
hand, and only `FetchInv` says what that is. Two lemmas carry the arithmetic: `PopcountIsRank` (table lookups and a
masked byte count the populated clusters before one) and `RankOfEnumeration` (that count is the index of the cluster
in the inflated stream). `StepRefines` shows each step to be a step of `TibImage` or to stutter, which with the initial
states gives the refinement for its safety part. The bound of the cache follows from lemmas about `OrderedDict`
(`Lemmas`), that assignment, `move_to_end` and `popitem` keep the keys distinct and change their number as
they should.

**`Tibx_proofs`**, of `TibxLsm` from `LsmAssumption`. The invariant relates the layers to the store (`StoreInv`: the newest cell of
a key holds what the writer last stored, a tombstone for nothing) and what a reader has `got` to the layers it has passed
(`WalkInv`), with one part for each rule: the first record is kept (`FirstKept`, the segment index), the last is
(`LastKept`, the extents), the mem-tree shadows the rest (`MemFirst`, the slices). At the end of a walk `WalkInv` and
`StoreInv` give `IndexOfStore`, `ExtentsOfStore` and `SlicesOfStore`.

**`Index_proofs`**, of `Sidecar` from `SidecarAssumption` and `ErrorsAssumption` (an error, a missing file and a gap are none of
the parts). The four safety properties of the run follow from one invariant, whose core is `FileInv`: unless two
processes wrote it side by side, the file is a prefix of one index, and a proper prefix only while its one writer is at
work or after a writer stopped in the middle. Because a file is only appended to until it is begun anew, what a process
has read of it is where it begins (`ReadInv`), unless it was overtaken. None of the four properties is inductive: that a complete file is
uniform (`SavedIsFound`) needs to know that each writer's position is where the file ends.

**`FsWalk_proofs`**: four theorems about archives of any length with any number of damaged records.

* `NamedOnce` needs `ArchivesAssumption` only, which types the archive. The invariant adds to it `Given` (no record that was
  given away is among those left), which alone says that the next one given is new.
* `DamageIsLocal`, with `LayoutAssumption`. It is not inductive: it speaks of contents that have ended. `LocalInv` adds what
  a walk that stands inside a file has collected: if all is whole from the content before up to here, exactly the chunks of
  the file so far. What makes it work is that no search jumps into or over a part that is whole (`Jumps`, `Firm`): the search
  of the extraction ends at the first record that begins like one, and that of the index, which may pass ends of files, ends
  at the first chunk that inflates.
* `ServedIsFound` is about `BuildTree`, a fold over the paths. `TreeOK` of the tree of the first k paths (each entry at its
  own path, directories above it, and the paths that none disturbs all there) is shown by induction over k; it speaks of the
  paths that no *other of all n* disturbs, since a path that is found now may be replaced later. `ServedInv` carries it.
* `CleanIsExact`, from all four assumptions. `At` fixes the whole state by the position of the walk: what is emitted is what
  has ended so far, what is collected is the next content so far, the records left are those of the others, and `labelled`
  counts the metadata so far, which by the prefix in `BatchesAssumption` is of those files in that order. `NameRight` shows that the
  smallest record left of a size is the file's own. That the index has no metadata is `NoMeta`.

**`Tibx_proofs`**, of `TibxAdapter` from `AdapterAssumption`, `ThreadsAssumption` (finitely many threads: the bound counts them),
`InflateAssumption`, `ExtentsAssumption` and `BaseAssumption` (any base). `CacheInv` is typed, bounded and sound. The bound is not
the limit: between a store and its eviction each thread may leave one more, and `Popping` counts them. What a
thread caches is what the archive has for its segment only if it had the file handle to itself, which takes, for each thread,
`PlaceInv` (there is a segment under the cursor, and what it holds is typed), `SeekInv` (a thread whose own seek was
the last is where it wants to be) and `OwnInv` (what it has read is what it would have read alone); the last two are
only claimed while no read was raced. `ReadIsImage` adds `SoFar`: the bytes put out so far are the image's up to the
cursor.

**`Index_proofs`**, of `ChunkMap` from `ChunkMapAssumption` and `ArchivesAssumption` (section 2.9): archives of any number of
items, pieces and locators, the pieces wherever they lie and with damage anywhere, whole or odd.

* The decoders. `DecodersAgree`: numpy's sums of whole columns, reduced modulo 2^64 at the end of each, are the offsets that the
  loop carries along; by induction over the records, with `ModCarry` (a remainder may be taken before a number is added or
  after). `RecordsDecode`: both undo `Writes`. `DeltaIs` puts the two words of a zigzag number together again, `OffsetFound` adds it to
  the end of the block before; a negative distance is where the wrap is needed.
* The walk. `MapInvariant` is the inductive invariant; the three properties of the run speak of a build that is over and say
  nothing of the steps that lead there. While the walk goes on (`WalkInv`) the pieces found are the archive's first ones
  (`Tracked`), the geometry is the archive's once a piece has settled it (`GeometryKnown`), and no piece lies behind the walk
  that was not found (`AheadInv`): as long as one is to come, the walk stands where a block or a piece in front of it begins.
  The alternative is that the walk took for a piece what is none (`Doomed`), which `decode_inline_chunkmap` refuses; that is
  stable, and nothing need be said of such a walk any more. A walk may also have stepped over a piece (`Lost`), which is stable
  too: then there is a last piece in front of which none was missed (`Reached`), and a `Cause` behind it. `StopsForCause` is
  what an early end says of the file, `FoundBefore` that a search finds something in front of the next piece or passes it for
  a cause, `RecognizedThere` that a walk which stands on a piece sees it.
* Decoding. `DecodeInv`: up to the last piece `Reached` the records are the first ones of those told (`RecsTold`), as many
  as the pieces decoded tell of; what later pieces add does not touch them (`Partly`). `EntryExact` makes the entry from a
  record.
* Whole archives. `OrdinaryInv`: no error, and no detour either, since with nothing disguised all that is taken for a piece
  is one (`OrdinaryTakes`), and its stream inflates.

**`NtfsNames_proofs`**, from `NamesAssumption`. `IndexIsMft` follows from `IndexInv`: the index has nothing that an
undisturbed walk would not have, and all that each walk in progress has passed; so each of them may end first, or
die. For `SizesAgree` the key is `IndexSettled`: once one walk has ended, a late walker changes nothing, so that a path
resolves as it did when its size was told. `ToldSize` and `OpenFile` carry that from the answer, or the open, to the
read. `EnumerationExact` follows from `ListsInv`: what an enumeration has listed is the first k names of the directory and its marker is
the k-th, for some k, wherever the kernel ended its pieces; and the listing stands, since it is read off an index that is
built. `FollowingIs` finds the marker again because names are distinct. That each record of the directory is listed needs that of
its names one is best (`BestIsThere`). `ListedIsFound` looks up what was listed: the path's last name is a key of the record
(`ShownByName`), a key that one record claims leads to it (`OneClaimant`), and a path is followed name by name (`Followed`).

**`Tibx_proofs`**, of `TibxPages` from `SlicesAssumption` and, for the walk, `TreesAssumption`.
`ReadIsOwn` and `GuessIsSafe` speak of a page read; what is inductive is where the slices are (`PlacesInv`): each known
one where its header says, and a guessed one in a `GoodPlace`. `SlicesInOrder` (by a least counterexample)
says that slices do not overlap, `ReadInside` and `ReadOutside` what a read of a
layout gives, and `PlaceIsGood` that the search for a gap finds one that collides with nothing. `WalkYieldsTree` follows from
`TreeInv`: what is yielded, and behind it what the pages on the stack are going to yield, are the leaves of the tree, as long
as the limit is not reached. What a page is going to yield (`Yields`) is what is below it down to the depth that is left to
it; `LeavesBelowIs` gets that recursion to exist, `PendingYields` and `OtherYields` say what one visit takes from it, and
`RestConcat` that a stack put together of two yields what the two do.

**`NtfsUnits_proofs`**, from the assumptions of section 2.4 and `ByteTypes`, a hypothesis of both theorems that is about
unbounded sets and that TLC cannot evaluate: a byte of the image, and what the two decoders make of bytes, are integers,
and the mark of a failed decoder is not a sequence of them. The first half has no state and is about reading through
runs, for any run list, gap, map, overrides and cluster size. Runs are *laid out* from `Starts` (`LaidOut`), a chunk of a
run is read from where `Where` puts each of its clusters (`ChunkFacts`, with the five ways of `ChunkOfRun`, among them the two chunks of a run
that crosses the gap; `Straight` is what its shortcut for a whole chunk needs), and that is where the cluster is if what was told of it is true (`KeptPlaced`, `MftFound`), and by induction over the bytes asked for, `StreamRead` shows that what is read has the
length asked for and is the stream's wherever its clusters are kept; `MftRead` is the same for `$MFT` with patched runs. `DecompressFacts` and
`DecodedFacts` add that a unit's stored bytes, put together run by run, are those that `UnitOf` puts together
cluster by cluster. The second half is the inductive invariant `IInv`. For a thread: its request is one that fits the file
(`CallOK`), what it has so far is the file's and its unit is the one that has the next byte (`ProgressOK`, `SoFar`), and
what it holds is that unit's plaintext (`HeldOK`). For a dictionary: `DictOK`, that each entry is the plaintext of its own
key, and `Bounded`. `ReadIsFile` needs all of it, since a hit returns what another thread put. The bound of
`CacheBounded` is not inductive: a thread that moves the key it assigned to the end does not make the dictionary longer,
but another may have put the same key, and then one entry has two threads that answer for it. `Bounded` counts what is `Settled`, the keys that no
thread is still to move, and admits one more of them for each thread that is `Evicting`.

Induction over data (over the runs of a list, the bytes of a read, the clusters of a unit) is done in the first order: a
set that holds 0 and is closed under successor has all of `0..n` (`AllUpTo` in `Lemmas`, from a least counterexample), and a
recursive function is introduced by such a set of the lengths for which it exists. Sequences put end to end (`FlattenSeq`)
are folds of the community modules; `Flattened`, `FlatToIs` and `FlatToGrows` in `Lemmas` give what they are one step at a
time.

**`OneShot_proofs`**, from `ChainsAssumption` (the kinds of jobs are told apart; slices have ids of their own).
`ChainsAreLineages` has two halves. What it says of a walk follows from `Lineage`, which is inductive: the chain so far goes
from child to parent, no slice is in it twice, and it tells where the walk stands or why it stopped. What it says of
`iter_chains` needs no run: `WalkOnClosed` lets the recursive function of `WalkChain` exist within the walks that are
lineages, and `WalkChainIs` that it gets somewhere; so every slice has one slice that its walk ends in, a full backup itself
(`IsEnds`). Round by round `Gathered` then says that the chains collected are the `Basin`s of the full backups passed, and
that the ids used are those in them; the test of `used` therefore never refuses a slice that belongs. What is left has no
full backup, so that each slice is in one chain (`Parted`). No bound on the number of rounds is needed: a walk that had not
come to an end would still be a lineage.

`theorems` in `PROJECT.json` names the results and the properties they state.

Only model-checked:

* `oneshot` (`DecodedIsWritten`, `DamageIsCaught`): what a decoder makes of any input is an induction over the input for
  each of the five formats, against a writer that is recursive itself.
* All liveness: the prover handles neither fairness nor `ENABLED`.

## 5. What is not modelled, and what could come next

Left out for good: encryption, metadata, the header check and the command line, which change no state and decide
nothing; `tibx/disk.py`, a bounds check before one segment read; LZ4 and zlib, which are libraries (their use is
modelled). `PROJECT.json` gives the reason for each component.

Partly modelled, with what is missing:

* `.tibx`: the search for the superblocks and the latest archive page, and their fields; the whole-disk bootstrap read
  and the discovery of volumes and sizes in `disk_adapter.py`. They run once, before a mount starts.
* NTFS: the boot sector and the search for `$MFT`. They too end before threads start.
* File-mode archives: the bytes of the directory tree and of a batch of metadata; false hits of a search inside data.
* Mounts: opening the archive and mounting; which exception becomes which error number, but for the calls of
  `NtfsNames`.

Next, most important first:

1. The volume discovery of `disk_adapter.py`, over `TibxLsm`'s readers, and the bootstrap read.
2. `NtfsNames`' builds of the index joined with `NtfsUnits`' reads of contents.
3. Of `DecodedIsWritten`, the part about `Lznt1`, sub-block by sub-block.
4. `TibImage` as the abstract specification of `TibxAdapter` too, raced reads excepted.
