# TLA+ models of libfsxfs

libfsxfs reads XFS volumes: a caller opens a disk or an image, looks files up by
path or inode number, lists directories and reads data and attributes.  The
library never writes.  Around it are a tool that mounts a volume (FUSE, Dokan)
and a Python binding.  What can go wrong is of four kinds, and the models are
about these:

* **threads** - a volume and its file entries may be shared by threads, and are
  guarded by read/write locks that do not cover everything they should;
* **failures in the middle** - every read of a block can fail, after which
  nothing half-read may be left behind and nothing may leak;
* **the format** - images are damaged or unusual, and what the code computes
  from them (extents, block numbers, forks, segments of a path, positions in a
  tree) has to be right at the edges, and has to end;
* **lifetimes** - file entries, attributes, mounted files and Python objects
  point into each other without counting.

Paths below are relative to `src/`; `x.c` without a directory is
`libfsxfs/libfsxfs_x.c`.

## 1. The system

### Components

| Component | Source | State it keeps | Operations | What is hard | Correct when | Module |
|---|---|---|---|---|---|---|
| volume | `volume.c`, `io_handle.c` | file IO handle and who made and opened it, superblock, file system, IO handle (geometry, abort flag), lock | open (by name, with a handle), close, free, lookups, label, abort | tests before the lock, two critical sections in one open, failures between allocation groups | a caller's handle is never freed or left in another state; a failed open leaves nothing; an open volume is whole; calls return | `Volume` |
| superblock | `superblock.c` | geometry | read and check | shifts and sizes from the disk | what is accepted can be computed with | `Inode` |
| file system: inode numbers | `file_system.c`, `inode_information.c`, `inode_btree*.c`, `btree_block.c` | array of inode information | read information of a group, inode by number | recursion over blocks of a damaged disk, keys and 32-bit edges | finds exactly the inodes of allocated chunks; makes nothing up; ends | `FileSystem` |
| file system: paths | `file_system.c` 400-1097 | locals: one directory, one inode, an entry in the directory and its clone | entry by UTF-8 or UTF-16 path | segment arithmetic, what to free when | finds the file the path names; returns one file; holds nothing else after the call | `PathLookup` |
| inode | `inode.c` | fields, two forks, extents of both | read from data and from disk, getters | offsets of the forks, versions, failures between the forks | forks partition the inode; a failure leaves nothing; times are told as they are stored | `Inode` |
| extents | `extent.c`, `extents.c`, `extent_list.c` | the extents array of a fork | read a leaf, add the hole at the end | the position in the file is rebuilt from the array between leaves | the array is the map of the file; empty after an error | `Extents` |
| extent B+ tree | `extent_btree.c`, `btree_header.c`, `btree_block.c` | a root node, one block at a time | collect the extents of all leaves | levels, counts and reach of damaged blocks | every leaf is read, in order | `ExtentTree` |
| directory | `directory.c`, `block_directory*.c`, `directory_table*.c`, `directory_entry.c` | array of entries | read, entry by index or name | offsets and sizes from the disk, several blocks in several extents | lists every entry once; an error leaves none; ends | `Directory` |
| attributes | `attributes*.c`, `attribute_values.c`, `extended_attribute.c`, `file_system_block*.c` | array of attributes, value streams | read table or tree; stream of a value | recursion, entries at the end of a block, values elsewhere on the disk | lists every attribute once; makes nothing up; ends | `Attributes`, `FileEntry` |
| file entry | `file_entry.c` | inode, three lazily read caches, data stream, lock | sub entries, attributes, link target, getters, read, seek | caches filled under a lock several threads hold | caches empty or whole; answers whole; lock released | `FileEntry`, `DataStream`, `Inode` |
| data stream | `data_stream.c`, `block_data_handle.c` | segments, offset; the position of the file IO handle of the volume | seek segment, read segment | seek and read are two calls on a handle that everything shares | a read gives the data of its entry at its offset; reads follow each other | `DataStream` |
| inline data | `buffer_data_handle.c` | offset in a buffer | read, seek | same callbacks, a position of its own | as above | `DataStream` |
| mount tool | `fsxfstools/fsxfsmount.c`, `mount_*.c` | mount handle, a file entry per open file info, locals of a handler | main, FUSE and Dokan handlers, names and paths | many exits with something in hand; a handle both main and FUSE free; escaping | nothing but open file infos holds memory; a file info keeps its file; names lead back | `Mount`, `MountDokan` |
| Python binding | `pyfsxfs/` | objects with reference counts and parents, a file object, the interpreter lock | one per function of the library, dealloc, callbacks | what keeps what alive; two kinds of lock; callbacks into Python under a lock of the library | references counted; nothing stale used; all given back; no deadlock | `Pyfsxfs` |
| info tool | `fsxfstools/info_handle.c`, `fsxfsinfo.c`, `digest_hash.c` | an output handle | print | - | - | no |
| library support | `error.c`, `notify.c`, `debug.c`, `support.c` | - | - | - | - | no |
| FDXFSInfo | `FDXFSInfo/` | maps from names to devices | open, print, find, read | - | - | no |
| libyal libraries | submodules, not in the repository | IO handles, locks, lists, streams | as used by `src/` | - | - | as external definitions |

### How they interact

A caller holds a **volume**.  Opening it reads the superblock of every
allocation group, fills the **IO handle** from the first, and hands the inode
information of each group to the **file system**.  A lookup by number goes
through the inode B+ tree of the group to an **inode**; reading an inode cuts it
into two forks and reads the **extents** of each, from a list or a **tree**.  A
lookup by path alternates between inodes and **directories**, which are read
block by block through the extents.  Every lookup makes a **file entry**, which
keeps plain pointers to the IO handle, the file IO handle and the file system of
the volume, and makes its own directory, **attributes**, link target and **data
stream** when asked for them.  Data streams call back into the block data handle,
which positions and reads the one file IO handle of the volume, or into the
buffer data handle of an inode's own data.

The **mount tool** keeps one file entry per open file info of the kernel and
looks every other request up by path.  The **Python binding** wraps each object
of the library in one that references its parent, and may give the library a
file object whose methods are called back.

Shared between threads are: the fields of the volume (lock of the volume, not
taken everywhere), the file entry (its own lock), the file IO handle (no lock of
the library) and, in Python, every object (the interpreter lock, given up while
a call is in the library).

## 2. Modules

Each model module keeps the names of the functions and variables of the source
as far as TLA+ allows.  `PROJECT.json` maps every definition to its lines.
A definition that stands right before another with the same parameters, and is
named after a slip (`FreeKeeping` before `FreeArray`, `BeginLeafAtZero` before
`BeginLeaf`), is a *variant*: no `Next` uses it; it is put in place of the other
to see that a property notices the slip.  Modules whose proofs share a module
with those of another (section 5) carry their own name in that of the
specification: `InodeSpec`, `FileSystemSpec`, `DirectorySpec`, `AttributesSpec`.

### `Volume` - the volume under several threads

State: the fields of the volume (`file`, `opened`, `created`, `superblock`,
`fs`, `format` for the contents of the IO handle, `abort`), the lock, the state
of every file IO handle, the objects allocated (`live`), the file systems that
file entries of the caller point to (`entries`), and per thread where it is in
its call.  An object carries the number of the open call that made it, so that a
stale pointer is told from one to the successor.

| Action | Code |
|---|---|
| `BeginOpen`, `OpenCheck`, `OpenHandle` | `libfsxfs_volume_open` and `_open_file_io_handle` up to the read: test of the handle *without* the lock, open the handle if the caller has not |
| `OpenReadBegin`, `OpenReadFirst`, `OpenReadGroups`, `OpenReadFails` | `libfsxfs_internal_volume_open_read`; every superblock may fail and the error path frees what the volume has |
| `OpenSet`, `OpenMark` | the two critical sections that publish the handle and then the mark that the library created it |
| `BeginClose`, `CloseHandle`, `CloseClear`, `BeginFree`, `Free` | close and free |
| `BeginWithSuperblock`, `Root`, `Label`, `ByPath`, `BeginByInode`, `ByInode` | the lookups: the root and label test the superblock before the lock, the lookup by inode takes no lock at all (`volume.c:1886` names the build option of another library) |
| `SignalAbort`, `UseEntry`, `FreeEntry` | the abort flag; file entries that outlive a call |

`Disciplined` says whether callers open, close and free only a volume nobody
else uses and of which they hold no entry.  With it everything holds (run
`volume`, and the theorems); `VolumeLookups.cfg` shows what breaks without it.

### `FileSystem` - inode numbers to inodes

State: the image, the array of inode information (`infos`, which remembers the
group each was read from: a lookup takes the root block number from the
information at its index and the blocks from its own group), and a walk through a
tree (`block`, `depth`).  `ReadGroup` is one turn of the loop over allocation
groups, in which an unreadable inode information is skipped although the array
index is the group number; `Refuse`, `Begin`, `VisitBad`, `VisitLeaf`,
`VisitBranch` are the lookup.  Images are arbitrary trees: unreadable blocks,
unsorted keys, cycles.  What a lookup should find is defined without a search:
the chunks of all leaves *reachable* from the root, as the least set closed under
sub blocks.

### `PathLookup` - paths to files

One step per segment phase, one per character, so that `next`, `first` and
`length` are the source's `utf8_string_index`, `utf8_string_segment` and
`utf8_string_segment_length`; `Fail` may replace any step.  Memory is counted
apart from the pointers to it: `allocated` is the number of directories, inodes
and clones that exist, raised by each call that makes one (`ReadInode`,
`ReadDirectory`, `CloneEntry`) and lowered by each that frees what a pointer has
(`FreeDirectory`, `LookUp`, `FreeInode`, `CloseDirectory`, `Fail`), so that a
pointer that is overwritten or cleared without a free, within the loop too, is
seen after the call.  `entryLives` says whether the directory that the entry
found points into is still there.  The reference
definition (`FileOf`) looks at the whole path at once: `Cuts` are the places
where it is cut, and `FilesAlong` gives the file at every cut from the file at
the cut before it.  It follows the code in one thing the code is explicit about:
a delimiter at the start and one at the end are ignored, an empty name between
two delimiters names nothing.

### `Inode` - superblock, inode and getters

`ReadSuperblock` is the whole of `libfsxfs_superblock_read_data`: versions,
sizes, the power of two the directory block is multiplied with, the sum of the
three bit counts (`Accepted`), and `GeometryOf` what the IO handle takes.
`Initialize`, `ReadData`, `ReadDataFork`, `ReadAttributesFork`, `OnError`,
`InitializeEntry` and `Free` are the life of an inode; which forks it has
(`SplitDataFork`, `SplitAttributesFork`) follows from one byte of it.  The
getters (`Get...`) are those of the file entry.  Most of them give a field as it
is, and nothing is claimed of these; the times are computed
(`Nanoseconds`), and `TellsEveryTime` says what the documentation of the format
has them be.

### `Extents`, `ExtentTree`, `BlockMap` - the extents of a fork

`ReadRecord` is one iteration of the loop of `libfsxfs_extents_read_data`: the
hole before the record, then the record; `BeginLeaf` and `EndLeaf` are its call;
`Finish` adds the hole at the end; `Fail` is a leaf that cannot be read.

`ExtentTree` EXTENDS it with where the leaves come from: `BeginList` for an inode
with a list, `TreeInit`, `BeginBlock`, `EndBlock`, `RefuseTree` and `FinishTree`
for the root node and the blocks it names (`named`, in its order; a damaged root
may name a block twice).  What a leaf holds is chosen when it is first read and
kept in `contents` under its place, so that the walk can be compared with the
root: `LeavesNamed` are the records of the leaves it names, one leaf after the
other.  `ReadNext` gives the records of the leaf (`left`) to `Extents`.  Every
action is one of `Extents`
with what the walk adds, so that `TreeImplementsReader` is a theorem.  A block
that is no leaf is refused, because the maximum depth is never assigned: this is
the code, see section 6.

`BlockMap` is the abstract specification, what reading a fork promises: a map
from blocks of the file to blocks of the volume that grows in the order of the
file and covers it at the end.  `ImplementsFile` checks that reading a tree
refines it, with the map of the extents resolved by logical block numbers, for
as long as the image is in order (`HasMap`).

### `Directory` - reading a directory

One action per iteration: `NextExtent`, `ReadBlock`, `ReadItem`, `EndBlock`, and
`ReadTableEntry` for a short-form directory in the inode.  Sizes are in units of
8 bytes.  `Stored` says what a directory holds, without a loop: the blocks of all
extents that hold items, put behind each other, the names of the items of each,
put behind each other.  `WellFormed` says which directories a file system writes.

### `Attributes` - reading attributes and their values

The recursion of `libfsxfs_attributes_get_from_block` is a stack of calls, each
with its block and loop index; `Visit`, `ReadLeafEntry`, `ReadBranchEntry` and
`EndBlock` are its steps, `Unwind` the way out of a failing call, on which every
level empties the array; `ReadTableEntry` and `EndTable` read a table, whose
failure empties it in one place and not in another; `FreeArray` is the file
entry, which frees the array of a failed read so that a later one begins anew.
`GetValue`, `AppendSegment` and `EndStream` make the stream of a value.
The place of an entry's data is that of its values, to which the size of the
header and of the name are added (`NameEnd`) in a variable of 16 bits
(`ValuesOffset`, which wraps at `OffsetLimit`).  A block is at most as large as
the variable can say (65536 bytes, `superblock.c:657`), so that it wraps only
where a name ends exactly with such a block.  `ValuesRead` is what the code makes
of an entry, `ValuesStored` what the entry stands for.
`Stored` and `WellFormed` are the reference, level by level and without a stack:
`InOrder` gives the blocks that are in order when those below them are,
`AttributesBelow` what is stored below every block from what is stored one level
further down, and both are taken as many times as the recursion may go deep.

### `FileEntry` - what is read lazily, and what points into it

`BeginCount`/`GetCount` are `get_number_of_sub_file_entries` under the *read*
lock; `BeginOther` begins everything else, under the write lock.  `Check`,
`Test`, `Make`, `ReadPart`, `ReadFails` are the calls that fill a cache, the same
for directory, attributes and link target; the `Get...` actions are the answers
from it.  An extended attribute that was obtained (`GetAttribute`, `GetNamed`)
points into the array (`attribute`), is used and freed by the caller
(`UseAttribute`, `FreeAttribute`), and `FreeEntry` frees everything.  A count of
something that is no directory is left unwritten by the code (`Unset`).

### `DataStream` - reading data

The unit is a block, and a block of the disk holds its own file system block
number, so that what was read says where it was read.  `SeekSegment` and
`ReadSegment` are the two callbacks of the block data handle; between them
another thread may move `position`.  `SeekBuffer` and `ReadBufferData` are those
of the buffer data handle, whose position is the entry's own.  `Address` is the
conversion of a file system block number (allocation group and relative block,
with a gap after each group) to a position.

### `Mount`, `MountDokan` - a mounted volume

`main`, `mountHandle`, `frees` and `fuse` are the life of the mount handle in
`fsxfsmount.c`, which FUSE's destroy callback frees and main must not free
again.  A request is a call (`CallWithPath`, `CallWithHandle`), a lookup
(`LookUp`, `NotFound`, `LookUpFails`) and the steps of its handler, any of which
may fail; `job` holds its locals, `info` what the kernel keeps between open and
release, `owned` the mount file entries in memory.  `MountDokan` EXTENDS it with
the handlers of the other front end, whose one `Context` serves files and
directories.  `CopyFrom` and `CopyTo` are the two directions of
`mount_path_string.c`, a recursive function each over characters; `Found` is the
lookup of a path of the image, in a tree that `UndamagedAssumption` says is one.
`lost` counts what the two known leaks leave behind.

### `Pyfsxfs` - the Python binding

State: the interpreter lock, the Python objects with kind, parent and references,
the objects of the library, the locks of the library, the file object and its
handle, and per thread the frame of its call.  A call goes from `CallObject`,
`Open`, `OpenFileObject`, `GetItem` or `IterNext` (reference taken, arguments
read) through `LeaveGil` and `Enter` (the library, under its lock), perhaps
`Callback` (the interpreter lock again, in the middle), `Leave` and `TakeGil` to
`Back`: `GiveValue`, `Make`, `MakeSequence`, `Raise`.  The last reference leads
through `Finish` and one of the `...Free` actions to `Freed`.  The program may
drop a name at any time, also while another thread is in a call on that object.

### How the modules fit

Every module states the result that the one above it uses: `Inode` gives forks
and a geometry whose groups are no larger than their numbers (`GroupBlocks \in
1 .. Relative` of `DataStream`, `Attributes`); `Extents` gives arrays that are
the map of a file; `DataStream`, `Directory` and `Attributes` take an array as
their constant; `Directory` gives listings, `PathLookup` takes listings and
`FileEntry` takes a number of parts; `FileSystem` gives inodes to `PathLookup`;
`Volume` treats a lookup as one step; `Mount` and `Pyfsxfs` treat calls of the
library as steps that succeed or fail.  `ExtentTree` over `Extents` over
`BlockMap`, and `MountDokan` over `Mount`, are composed in one state space; the
others through these interfaces.

## 3. Runs

Twelve runs; each cfg begins with what it is.  Eleven pass:

| Run | Instance | States | Properties |
|---|---|---|---|
| `extents` | lists and trees: 3 records over 3 logical numbers and 2 lengths in up to 2 leaves, the same or two blocks, of level 0 or 1, any stated count against any room; 3 file sizes; lengths wrap at 4 | 247 000 | `IsMapOfFile`, `AllOrNothing`, `WholeForkIsRead`, `ImplementsFile` |
| `volume` | 2 threads, 3 opens, the library's handles and two of the caller's | 37 000 | `CallerHandleKept`, `NoLeak`, `OpenIsWhole`, `CallsReturn` |
| `file_system` | 2 groups; any tree over 3 blocks in the first, with bad, empty, unsorted and cyclic blocks; every inode number | 102 000 | `FoundIsStored`, `AllocatedIsFound`, `CallsEnd` |
| `path_lookup` | every path of up to 5 characters over two letters and the separator, and two with a NUL, in 9 trees | 62 000 | `FindsFileOfLongPath`, `ReturnsOneFile`, `NothingIsLeft`, `ClonesLiveEntry` |
| `inode` | superblocks right but for one field or two, inodes of every version, fork and offset; a word of 30 bits | 64 000 | `ShiftsAreDefined`, `ForksPartition`, `NothingIsLeft` |
| `directory` | one and two blocks in one or two extents and groups, every pair of items from six kinds; all short-form tables of 2 names with right and wrong counts and sizes | 9 000 | `ListsEveryEntry`, `NothingIsMadeUp`, `ReadReturns` |
| `attributes` | leaves of up to two entries at the edges of a block, trees of up to four levels with cycles, tables with wrong counts and sizes, two reads that fail by chance | 20 000 | `ListsEveryAttribute`, `NothingIsMadeUp`, `ValueOfOneExtentIsRead`, `ReadReturns` |
| `file_entry` | 2 threads, a directory, a link or a file of 2 parts, 2 attempts to read | 590 000 | `WholeWhenUnlocked`, `AnswersAreWhole`, `NoUseAfterFree`, `CallsReturn` |
| `data_stream` | 2 threads, 3 entries on 2 groups, one fragmented over both with a hole, one inline, reads of up to 2 blocks at every offset | 136 000 | `ReadsItsData`, `StreamContinues` |
| `mount` | 4 files with names that hold and imitate escapes, 2 file infos, 3 mount file entries, 2 attributes, FUSE and Dokan | 200 000 | `NothingElseIsHeld`, `HandlesHoldTheirFile`, `NamesLeadBack` |
| `python` | 2 threads, 4 objects, 4 calls | 312 000 | `ReferencesAreCounted`, `NothingStaleIsUsed`, `EverythingIsGivenBack`, `CallsReturn` |

`extents` and `directory` also check their type invariant, the types that could
be left (lengths of 32 bits, offsets that are computed backwards).  The type
invariants of the other modules would add nothing a run finds; they are theorems
(`TypeCorrect`, `InodeTypeCorrect`, ...), that of `FileEntry` is a part of its
inductive invariant, and `Mount_proofs` has a stronger one (`Shape`).

Why these bounds are enough:

* *extents*: an append depends on the last extent and the next record only, so
  three records give every adjacent pair after a hole, after a sparse extent and
  across a leaf boundary; the theorems of section 5 lift the bound.
* *volume*: two threads give every race of two calls; three opens give a
  successful open after one that failed half-way after one that succeeded; the
  theorems lift both bounds.
* *file_system*: three blocks give a root with two children, a level below, and
  cycles of length 1, 2 and 3; `MaxDepth` is 2 instead of 256 so that the limit
  is passed.  Numbers are of two groups of four with chunks of two: every number
  is in or beside a chunk, at and between keys.
* *path_lookup*: five characters give an empty, a first, an inner and a last
  segment, each of one or two characters, and two directories read and freed
  before the last.
* *inode*: every check compares one field, or the sum or shift of two, with a
  limit: values lie at, below and above each.  `WordBits` is 30 because TLC's
  integers are 32-bit; the theorems are for any width.
* *directory*: two blocks give the step from a block to the next in the same and
  in another extent; a block of six units is filled by two items.
* *attributes*: a leaf of eight units is left by an entry that ends one unit
  late, and `values_offset` wraps at eight too, as at the largest block; trees of
  four levels pass `MaxDepth`; two extents that are not in the order of the disk
  give values inside, at the end of and across an extent.
* *file_entry*: `MaxReads` bounds the allocations; two give a success after a
  failure, of the same cache or of another; two parts give a half-read one.
* *data_stream*: a read of two blocks crosses a segment boundary, and a later
  one continues it over the next.
* *mount*: two file infos and a third entry give a request by path while both
  are open; the names give each escape and each way to imitate one.
* *python*: four objects are a volume, an entry, a sequence of it and an item,
  the longest chain of parents; two threads give every race of two calls or of a
  call and a drop.

The twelfth run, `directory_large`, is a violation and the finding of
`PROJECT.json`: of a directory block that is larger than a file system block only
the first file system block is read (`directory.c:415`, `:446`).

Beside the runs are configurations that show the other disagreements, each of
which ends in a violation of the one property it names:

| Configuration | Module | Shows |
|---|---|---|
| `VolumeLookups.cfg` | `Volume` | `LookupsReturn`: `get_root_directory` meets a superblock that a close freed after it was tested (`volume.c:1631` before the lock, `:1683` after), and the lookup by inode number runs without a lock (`:1886`, `HAVE_LIBFSEXT_MULTI_THREAD_SUPPORT`) |
| `VolumeAbort.cfg` | `Volume` | `AbortStopsOpen`: nothing reads the abort flag, an open goes on after the signal (`volume.c:266`) |
| `FileSystemOwnGroup.cfg` | `MCFileSystem` | `FoundInOwnGroup`: an unreadable inode information shifts the array, so that a lookup begins at the root of another group's tree (`file_system.c:252`) |
| `PathLookupShort.cfg` | `MCPathLookup` | `FindsFileOfPath`: a path of one character is the root, whatever the character (`file_system.c:506`, `:857`) |
| `FileEntryFreed.cfg` | `FileEntry` | `NoUseAfterFree`: two threads ask for the number of sub file entries; the second finds the directory set, fails, and its error path frees what the first is reading into (`file_entry.c:406`) |
| `DataStreamShared.cfg` | `MCDataStream` | `ReadsItsData`: two threads read two entries of a volume; the position moves between seek and read (`block_data_handle.c:147`, `:97`) and one gets the other's data |
| `DataStreamExtent.cfg` | `MCDataStream` | `GivenOffsetHoldsData`: the offset given for an extent is not translated like the one its data is read from (`extent.c:355`) |
| `AttributesRemote.cfg` | `MCAttributes` | `RemoteValueIsRead`: of a remote value only the extent its first block is in is served (`attributes.c:1236-1317`) |
| `InodeTimes.cfg` | `MCInode` | `TellsEveryTime`: a time of zero seconds and less has its fraction subtracted (`inode.c:361`), where the documentation of the format has seconds and a fraction of them (`documentation/X File System (XFS).asciidoc:68`) |
| `AttributesWrap.cfg` | `MCAttributes` | `DataFollowsName`: in a block of 65536 bytes the offset of an entry whose name ends with the block wraps to 0 (`attributes.c:253`, `:512`, `:554`), any size of its data passes the comparison with the block (`:566`), and the data is taken from the start of the block (`:590`) |
| `MountDirectories.cfg` | `MCMount` | `EveryEntryIsFreed`: releasedir sets the pointer of the kernel to NULL without freeing the entry (`mount_fuse.c:1498`; its comment, `:1452`, says "Releases an opened directory") |
| `PyfsxfsClose.cfg` | `Pyfsxfs` | `NothingStaleIsUsed`: `volume.close()` while file entries of it live leaves them with pointers to what was freed (`pyfsxfs_volume.c:771`) |

Most of them are the reason for an assumption of a passing run: `Disciplined` in
`Volume`, `DataStream` and `Pyfsxfs`, `MaxCounters = 1` and `FreesInOrder` in
`FileEntry`, `DirBlocks = 1` in `Directory`, `NameEnd(e) < OffsetLimit` in
`NothingIsMadeUp` of `Attributes`, `ValueOfOneExtentIsRead` for values of one
extent, `lost` in `Mount`, a path length other than 1 in `FindsFileOfLongPath`.
The passing runs say that with this assumption, and for
the callers that respect it, the listed properties hold.

To run one: `tlc -config Directory.cfg MCDirectory`.

## 4. Fairness, scheduling and deadlock

The library has no scheduler of its own: a call runs on the thread of its caller
until it returns.  So fairness is weak fairness of *continuing a call that was
begun*, per thread where there are threads - the operating system runs a thread
that can run.  Nothing else is fair: callers need not begin any call, and no
read need fail, so a liveness property cannot be met by running into an error.
In `Volume` a lock is held over one step only by `CloseHandle`, and its
continuation is always enabled.  `FileEntry` says that no call keeps the lock,
whatever fails in it.

In `Pyfsxfs` the interpreter lock needs more: it is weakly fair that a thread
goes on with its call and that one that runs Python code leaves the lock (the
interpreter forces it to after its switch interval), and *strongly* fair that a
thread that keeps asking for the lock gets it, since another may take it again in
between.  `MaxCalls` bounds how often a thread can be overtaken; the calls of a
program end, its list of calls need not.

`fuse_loop` runs one request at a time, and so does Dokan with `SingleThread`,
which it is given from version 2 on (`fsxfsmount.c:485`); so `Mount` has one
handler.  Older versions get `ThreadCount = 0` (`:487`), which is Dokan's default
of several threads.  The handlers then overlap, which `MountDokan` does not have.
What the properties of `Mount` speak of would not change: a handler has only its
locals and the `Context` of its own file info, and the mount handle stays as it
is while Dokan runs.  But the library below is then used by several threads, and
what `FileEntryFreed.cfg` and `DataStreamShared.cfg` show can happen.

The kernel opens directories with opendir only, and unmounts when nothing is
open; a `fuse_loop` that fails ends the mount at any time (`LoopFails`).  The
Dokan process exits without freeing its mount handle.

Deadlock is checked in every run but `python`, where the calls of the program
are used up and it stops.  Elsewhere, where the program has really ended (a
lookup has returned, a volume was freed, an open failed, the tool has exited)
the specification has a stuttering action of that name.

## 5. Proofs

The theorems are checked by TLAPS; they hold for every value of the constants
that the modules' assumptions allow. Components that the proofs need the same
lemmas for, or that follow each other in the code, share a module:

| Module | Proves |
|---|---|
| `ExtentTree_proofs` | `Extents`, `ExtentTree`, that both implement `BlockMap`; `Inode` |
| `Volume_proofs` | `Volume`; `FileSystem` |
| `PathLookup_proofs` | `PathLookup`; `Directory` |
| `FileEntry_proofs` | `FileEntry`; `Attributes` |
| `DataStream_proofs`, `Mount_proofs`, `Pyfsxfs_proofs` | the module of that name |
| `Flattening` | lemmas on sequences of sequences that are put behind each other |

**Extents** (in `ExtentTree_proofs`: `TypeCorrect`, `Safety`, `FileIsMapped`,
`DataIsKept`). The properties are not inductive: that the next extent begins at
the end of the last one depends on the loop's running block number
(`LogicalIsEnd`: it is the end of the array), and that the array ends where the
image's records do depends on its last extent *being* the last record
(`LastIsRecord`; a hole is only ever put before a record). Lemmas say what
appending an extent does to a tiling array, that a prefix of ordered records is
ordered, and what the three cases of the tail do; `Limit` appears as an
arbitrary modulus, and the hypotheses `HolesFit` and `TailFits` are exactly what
makes 32-bit lengths exact.

**ExtentTree** (`TreeImplementsReader`, `TreeIsMapped`, `TreeDataIsKept`,
`TreeTypeCorrect`, `WholeFork`). Every step of the walk is a step of `Extents`
or leaves its variables alone, so that everything proved of `Extents` holds of
lists and trees without a second proof. `WholeFork` has an invariant of its own
(`Walked`): the leaves begun so far are the first ones that the root names, what
was read of each is in `contents`, and the records read so far followed by those
left of the current leaf are the records of these leaves put behind each other
(`Before` of `Flattening`), in the order of the root. A leaf that is read again
for a second name changes nothing of what was read before.

**BlockMap** (`ReaderImplementsMap`, `TreeImplementsMap`): reading leaves, and
reading any list or tree, refines the abstract map. The mapping resolves an
array of extents block by block. Because the array tiles the file, a block is
held by exactly one extent, so that appending extents changes no block that was
mapped before (maps agree on prefixes); a record that is read is an `Extend` by
its gap and length, the tail a `Complete`, a failing leaf an `Abandon`, and what
the walk does in between a stutter.

**Volume** (`Safety`, `TypeCorrect`, `HandlesAreKept`, `NothingLeaks`,
`VolumeIsWhole`), for disciplined callers (`ASSUME Disciplined`) and any number
of threads and opens. The properties say little between the calls that matter:
the invariant says for each step of an open, close or free what the volume then
has (`AtStep`), that such a call is the only one under way (`Alone`) and that
without one the volume is closed or open and nothing in between (`Quiet`). That
`AtStep` of one thread survives the steps of another is proved once
(`Sufficient`, `OthersIdle`), because those others are idle.

**FileSystem** (in `Volume_proofs`: `FileSystemTypeCorrect`, `FileSystemSafety`,
`StackIsBounded`, `NothingIsMadeUp`). The invariant adds that the search never
leaves what is reachable from where it began (`InTree`, in the closure sense),
that the index of an information is the number of a group (`InfosFit`: at most
one is appended per group visited) and that nothing is answered before the
volume is open (`Unanswered`). For these no property of the tree is assumed, so
cyclic and unsorted trees are covered. `NothingIsMadeUp` is `FoundIsStored` for
every image, `StackIsBounded` bounds the recursion.

`AllocatedAreFound` is the other direction, and is about undamaged images: keys
in order, no more levels than `MaxDepth`, chunks whose numbers do not wrap at
the width they are computed in. Its invariant (`Exact`) says that on such an
image the array holds the information of each group at the group's index, and
that a search narrows (`Narrowed`): if the inode is anywhere below the root it
is below the block the search is at, and the levels left fit in what is left of
the recursion.

**PathLookup** (`TypeCorrect`, `Safety`, `OneFileIsReturned`, `AllIsGivenBack`,
`LiveEntryIsCloned`).
The invariant adds where the walk holds what (`Walk`: in a segment the length is
not larger than the index it is subtracted from, and between two lookups the
inode held is that of the number), that what is allocated is at every step what
the three pointers hold (`Counted`, from which `AllIsGivenBack` follows), and
that the number is that of the entry, or
of the root before the first entry (`OneFile`), unless nothing was found. That a
directory gives one of its own entries rests on the least element of a set of
indexes, from the library's theorem on well-founded relations.

`PathsLeadToTheirFile`: the file is the one the path *names*, for every path but
those of one character, of which the code returns the root. The invariant
(`Follows`) says at each step of the walk at which cut of the path it is and
that the inode it holds is the file `FilesAlong` has there; that the recursive
function exists follows from a least index at which it would not.

**Inode** (in `ExtentTree_proofs`: `InodeTypeCorrect`, `InodeSafety`,
`ForksAreApart`, `AllIsGivenBack`, `ShiftsAreInWidth`). `InodeInv` keeps that an
open volume's geometry was accepted, so that every inode size leaves room for
the larger header, and what the inode owns at each step. `InodeAssumption`
states of powers of two what the provers cannot compute.

**Directory** (in `PathLookup_proofs`: `DirectoryTypeCorrect`,
`DirectorySafety`, `NamesAreRead`, `EveryEntryIsListed`). Type correctness is a
theorem here because the end of the items is computed backwards from what the
disk says. `NamesAreRead` is about any directory, damaged ones too, and is an
action property: a name is listed only from a block of an extent of the
directory, and an error leaves no name. Its invariant (`InExtent`) says that the
blocks that are left are the last ones of an extent. That needs `WholeExtents`:
an extent is whole directory blocks and its size fits in the 64 bits of
`extent_size`, from which the size of a directory block is taken until it is
zero; an extent that is not would make it wrap and the loop run on behind the
extent.

`EveryEntryIsListed`: a well-formed directory of any number of extents, blocks
and items gives all of its names in order, under `WholeExtents` and with
directory blocks of one file system block (`directory_large` shows that this is
needed). The invariant (`Complete`) says where in the flattened directory the
loops are: what was listed is what the blocks before this one hold, and the
names of the items of this one up to the item (`DoneIn`, `Parts`), and the
offset is the size of those items (`Sizes`). `FlattenSeq` is a recursive
function, so that what it gives up to a place (`Before` of `Flattening`: its
next step, where an element of one sequence ends up, that it depends only on the
sequences up to the place) is proved by a least counterexample.

**Attributes** (in `FileEntry_proofs`: `AttributesTypeCorrect`,
`AttributesSafety`, `ListedIsStored`, `OneExtentIsRead`,
`EveryAttributeIsListed`). `AttributesInv` says that every call of the recursion
has a block of the fork (`Called`), that a stream is empty or the whole of a
value of one extent (`Streamed`), and `NothingIsMadeUp`, which is inductive with
these. The type invariant bounds the stack, in any fork, trees that lead to
themselves included. The properties of values speak of extents that are in order
and apart (`ExtentsApart`): then the extent a block is in is the only one.

`EveryAttributeIsListed`: every well-formed fork, a table of any size or a tree
of any shape no deeper than the recursion may go, gives the attributes that are
stored, each once and in order, however often a read failed part of the way. No
discipline and no bound is assumed. The invariant (`Complete`) relates the stack
to the reference: call `i` has a block that is in order with `Level(i)` levels
below it, reached by the entry that the call above is at (`InTree`), and what
was listed is what the calls have read so far, put behind each other from the
outermost on (`ReadParts`). Three lemmas say what a step does to that: a new
call has read nothing (`Pushed`), an entry of a leaf is one attribute more
(`LeafAdvanced`), and a call that returns makes the entry of the call above it
one that was read to its end (`Popped`): what it has listed is all that is below
that entry, because its block is one level lower. That the levels of the
reference exist, and give sequences of attributes, is again a least
counterexample (`SoundExists`, `StoredExists`, `StoredIsTyped`).

**FileEntry** (`Safety`, `CachesAreWhole`, `AnswersAreOfTheWhole`,
`NothingFreedIsUsed`), for any number of threads, parts and reads that fail,
under the two disciplines that the run assumes too: one caller at a time asks
for the number of sub file entries (`MaxCounters <= 1`), and attributes are
freed before their entry (`FreesInOrder`). `FileEntryFreed.cfg` shows that the
first is needed. The invariant says that whoever is in a call is alone
(`OneCall`: the read lock does not exclude, the discipline does), that what is
allocated is what the entry keeps, each thing in one place (`Owned`), that what
is kept is whole unless the call under way is reading it (`Filled`), that an
attribute points into the array that was read to its end (`Pointed`), and what a
call knows at each of its steps (`AtStep`).

**Mount** (`Safety`, `OpenFilesAreHeld`, `NothingIsForgotten`), for FUSE and
Dokan together, any image, names, paths and failing calls, and any finite number
of file infos. The properties speak of the moments between two requests; the
invariant says at every step of a handler that what is allocated is exactly what
the open file infos, the handler's locals and the two known leaks refer to
(`Accounted`), that these are all different (`Pointers`, `Locals`), what the
handler has at each step (`AtStep`) and who is still to free the mount handle
(`Process`).

`ListedNamesLeadBack`: every name that is listed, escaped as it is, leads behind
the path of its directory back to the file it was listed for and to no other,
for any tree and any names. `UndamagedAssumption` is used for this only: a
finite tree with a depth, names that are neither empty nor hold a separator,
siblings with different names - what the format demands of a directory. Three
recursions carry it: `CopyFrom` and `CopyTo` over a name, where reading back
what was escaped gives the name (`CopyBack`, `CopyToAppend` for what follows
it), and the path of a file over the tree. That each defines something, and the
facts about it, rest on a least counterexample (`EveryNumber`, `EveryFile`). The
invariant (`Names`, `Listed`) says that a directory being listed was found by a
path the tool accepts and that what it has given so far are its names in order,
each escaped.

**DataStream** (`Safety`, `TypeCorrect`, `ReadsAreRight`, `StreamsContinue`),
for any number of threads, entries, extents and groups, when threads let a read
of another entry finish first (`ASSUME Disciplined`; `DataStreamShared.cfg`
shows that it is needed). The invariant says of a thread in a read that what it
has gathered is the entry's data from where the read began (`Gathered`), that
between a seek and its read the position of the file IO handle is still the one
set (`Placed`), and that nobody else is in the same entry (`Locked`,
`OneReader`). The lemmas are the arithmetic of the layout: segments follow each
other without a gap, an offset is in one of them, and as no extent leaves its
allocation group (`UndamagedAssumption`: this and a size no larger than what the
extents cover) quotient and remainder of its block number give consecutive
addresses.

**Pyfsxfs** (`Safety`, `TypeCorrect`, `CountsAreRight`, `NothingStale`,
`GivenBack`), for any finite number of threads, objects and calls of a program
that opens and closes its volume only while it holds nothing else of it and runs
no other call (`ASSUME Disciplined`; `PyfsxfsClose.cfg` shows that it is
needed). That reference counts are right is a statement about a set of all
frames and parents, of which every step changes one or two members: the lemmas
of the first part count the members of a set when one is added, goes or changes.
The invariant says of every frame what its step says of it (`Framed`: who it
works on, what it has taken, what it waits for), that parents are of the right
kind and live as long as their children (`Family`), that an object without
references is being freed by exactly one thread (`Unreferenced`), that the
library has the objects of the Python objects that live, and no other
(`InLibrary`), that whoever changes the volume is alone with it (`Alone`) and at
which of its steps volume and handle agree (`VolumeFits`), and that what the
library gave and no Python object has yet is in a frame (`LooseAreGiven`).
`GivenBack` follows when no frame and no name is left.

Assumptions are the named ones of the modules: types of the constants, and
`UndamagedAssumption` of `DataStream` and `Mount`, which their runs assume too.
TLC evaluates all of them in the runs.

Hypotheses of theorems beyond these are the disciplines of callers
(`Disciplined`, `MaxCounters <= 1`, `FreesInOrder`) and, of the directory,
`DirBlocks = 1` and `WholeExtents`. The passing runs set all of them by their
constants, and their directories have whole extents.

Only model-checked: liveness, which is out of the prover's reach (`CallsReturn`
of `Volume`, `FileEntry` and `Pyfsxfs`, `CallsEnd` of `FileSystem`,
`ReadReturns` of `Directory` and `Attributes`). Every invariant and every action
property of a passing run is a theorem. That a function defined by recursion
exists, and what it gives, is proved by a least counterexample and not by the
induction theorems of the library, which the provers here cannot instantiate.

## 6. What is abstracted, and what is not modelled

* Bytes, character sets, packed bit fields, checksums: values.  A block is
  readable or not where which of its checks failed is not told apart.
* Argument checks (`NULL` pointers, sizes) and allocation failures: a failing
  allocation takes the same error path as a failing read.
* Lock operations that fail, and builds without thread support.
* The UTF-16 and wide-character variants, which do what the others do.

### Not modelled

* `fsxfstools/info_handle.c` and `fsxfsinfo.c`: formatting of what the library
  gives; one thread, no state between two lines.
* `pyfsxfs`: conversions of values, codepages, exceptions.
* `mount_dokan.c` 1428-1570 (`GetVolumeInformation`, `Unmount`): change nothing.
* `FDXFSInfo`: a Windows front end that cannot be built from the repository
  alone.
* Tests and fuzzers: read as statements about the library.

### Disagreements that were met

Beyond those of section 3:

* the length of a hole is stored in 32 bits (`extents.c:253`); a hole of 2^32
  blocks is served short, which `IsMapOfFile` excludes by `HolesFit`;
* inode numbers above 32 bits are refused (`file_system.c:306`);
* the count of sub entries of something that is no directory is left unwritten
  with a result of 1 (`file_entry.c:3033`);
* reading the inode information of all groups gives 1 although one failed
  (`file_system.c:252`);
* the allocation bitmap of an inode chunk is not looked at
  (`inode_btree.c:518`, with a TODO);
* the level of a block of an extent B+ tree is compared with a `maximum_depth`
  that nothing assigns (`extent_btree.c:687`; the same test of inode B+ trees is
  commented out, `inode_btree.c:689`), so that a tree with two or more levels of
  blocks is refused;
* the superblock accepts inode sizes that the inode then refuses
  (`superblock.c:688`, `inode.c:75`): such a volume opens and nothing in it can
  be read;
* the size of a name in an attribute table is compared with the size of the
  table and not with what is left of it (`attributes_table.c:294`);
* the offset of an attribute's data is of 16 bits (`attributes.c:253`), so that
  the data of an entry whose name ends with a block of 65536 bytes is taken from
  the start of the block;
* a failing getxattr leaves its attribute in memory (`mount_fuse.c:802`);
* a path of the mount tool with a separator at its end is not found
  (`mount_handle.c:821-846`), and main never calls `mount_handle_close`;
* the size callback of a Python file object gives 1 after an error
  (`pyfsxfs_file_object_io_handle.c:1513-1522`, its comment, 1367, says -1).

## 7. What is left to do

1. Compositions: `PathLookup` over `Directory` as read (a listing that is refined
   by reading), and several file entries over one `Volume` that is closed.
2. Packed extents (`extent.c:139-252`) against the layout of the documentation.
3. The info tool's walk over a hierarchy whose directories contain each other.
4. Proofs: `EveryEntryIsListed` for directory blocks of several file system
   blocks, once the code reads all of them.
