# A TLA+ model of mtools

mtools reads and writes MS-DOS filesystems (FAT12, FAT16, FAT32) on floppies, partitions and image
files without mounting them.  This directory holds a formal model of the parts of it that keep state
and can go wrong: TLA+ modules translated from the C source, the TLC configurations that check them
on small instances, and proofs, checked by TLAPS, of what holds on instances of any size.

A command (`mcopy`, `mdel`, ...) is one sequential process.  What makes it hard is rarely concurrency
and mostly *layers of write-back state*: a cache of FAT sectors, a running count of free clusters,
chains that grow while they are being followed, a buffer over the image, a buffer and a slot cache over
each directory, all flushed at different times, over a disk that survives the command, may be full or
unreadable in places, and will be read by the next command; and *loops that change what they walk
through*.  Real concurrency is in floppyd and where two commands open the same drive.

## 1. Inventory

| part | source | its state | operations | talks to |
|---|---|---|---|---|
| FAT sector cache | `fat.c` 60-490 | `FatMap` (data, valid and dirty bitmaps), `fat_dirty`, `fat_error`, last sector and access mode | `loadSector`, `getAddress`, `fat_write` | the image, through the disk buffer |
| FAT entry encoding | `fat.c` 280-412 | none | decode and encode of 12, 16 and 32 bit entries | sector cache |
| Cluster allocation, accounting | `fat.c` 770-1010, `fat_free.c`, `file.c`, `init.c` 605-640 | FAT entries, `freeSpace`, `last`, reservations, per stream the first cluster, size and a remembered position | `fatAllocate`, `fatAppend`, `fatDeallocate`, `get_next_free_cluster`, `normal_map`, `write_file`, `fat_free`, reservations | entry encoding; directories hold start cluster and size |
| Open files and streams | `hash.c`, `file.c` 600-800, `stream.c` | a table of `File_t` by first cluster, reference counts | open, share, close, look up, remove | allocation, directories |
| Disk buffer | `buffer.c`, `force_io.c` | one window, one dirty range, `ever_dirty` | `buf_pread`, `buf_pwrite`, `buf_flush`, close | the stream below (image, or a directory's `File_t`) |
| Directory slots, long names | `vfat.c`, `dirCache.c`, `directory.c`, `direntry.c` | the slots on disk; a cache of used and free ranges and of the names seen | look up, search for slots, write, wipe, grow | disk buffer, entry creation |
| Entry creation, name clashes | `mk_direntry.c`, `mmd.c`, `mmove.c`, `mcopy.c` | the answers to clashes, the names being tried | `mwrite_one`, overwrite, skip, autorename, rename, move | directory slots, allocation |
| Walking the tree, and the commands that do | `mainloop.c`, `mcopy.c`, `mmove.c`, `mmd.c`, `mdel.c`, `mattrib.c`, `mdu.c`, `mcd.c`, `unixdir.c`, `match.c` | a stack of loops, the target, the result so far, `got_signal`, the mcwd file | `main_loop`, `recurs_dos_loop`, `dos_loop`, `unix_loop`, call-backs for each entry | entry creation, allocation, the host's files |
| Opening a drive | `init.c` (`find_device`), `open_image.c`, `plain_io.c`, `xdf_io.c` (`XdfOpen`), `lockdev.c` | the description being tried, access mode, descriptors, locks | try, retry, lock, set geometry, give up | configuration, low-level streams |
| Formatting | `mformat.c`, `init.c` (`parseFsParams`, `calc_fs_parameters`, ...), `old_dos.h` | boot sector fields, sizes of FAT, directory and clusters | choose a layout, write it, read it back | the drive's descriptions |
| Partitions | `mpartition.c`, `partition.c` | four entries of the first sector | create, remove, activate, check; read and write through one | low-level streams |
| Low-level streams | `plain_io.c`, `remap.c`, `offset.c`, `swap.c`, `partition.c`, `xdf_io.c`, `scsi*.c` | remap table, offsets, XDF track map | pread, pwrite, geometry | the device |
| floppyd | `floppyd.c`, `floppyd_io.c`, `lockdev.c` | a socket, an authenticated session, the open device | connect, authenticate, open, read, write, flush, close | client and server over TCP |
| Repair, bad blocks | `mbadblocks.c`, `mdoctorfat.c`, `mzip.c` | - | one pass over the FAT | |
| Text, character sets | `charsetConv.c`, `codepages.c`, `unix2dos.c`, `dos2unix.c` | shift states | conversion | |
| Configuration, privileges, helpers | `config.c`, `devices.c`, `privileges.c`, ... | tables of drives | parsing, system calls | |

What makes the important ones correct, and what is hard about them:

* **FAT sector cache.**  No FAT sector changed in memory is forgotten or overwritten by a read, the
  copies agree afterwards, and one copy is whole whenever the process dies.  Hard: the one-sector
  shortcut in `getAddress`, prefetching, fallback to another copy, the rotation by `primaryFat`.
* **FAT entries.**  Storing an entry changes that one and no other.  Hard: 12-bit neighbours share a byte,
  four bits of a 32-bit entry are nobody's.
* **Allocation.**  A cluster has one owner; the count of free clusters is exact at every step; a
  stream's remembered position stays right while its chain grows; no call follows a chain for ever.
  Hard: running out of space half-way, failed copies, deleting what a failed or killed command left.
* **Disk buffer.**  Reads see what was written however the window moves; only written bytes reach the
  image; an "already flushed" buffer really is.  Hard: rounding to sectors, short transfers, images
  that are cut off, two flags (`dirty`, `ever_dirty`) for almost the same thing.
* **Directory.**  Names stay unique, every file keeps its whole name, nothing that was deleted comes
  back, lookups answer for the disk as it is.  Hard: the cache of free ranges is split, shortened and
  merged by every operation; long names are several slots tied together by a checksum; what follows
  the end mark is garbage that must stay hidden; a name clash restarts the search with other names.
* **Open files.**  A file or directory has one stream, found again by every user and removed by the last.
  Hard: the key of a stream changes while it is in the table, lookups move what they find.
* **Walking the tree.**  A command does what its arguments name and nothing else, the tree stays a tree,
  and the walk ends.  Hard: the loops read directories slot by slot while their call-backs create,
  move and wipe entries in them; a walk may meet its own copies, the target may lie inside the source.
* **Opening.**  A command ends with the first description it can work with and the access it was promised;
  what does not fit leaves nothing behind.  Hard: two rounds with different access, several drivers,
  refusals of geometry and permission, other commands on the same device.
* **Formatting.**  Each cluster of the layout has an entry in the FAT, nothing overlaps, and the next
  command reads the layout back as it was chosen.  Hard: cluster size, FAT length and FAT type depend on
  each other, are searched for, and each may have been fixed by the user.
* **Partitions.**  No partition shares a sector with another, the two notations of its ends agree, no
  transfer leaves it.  Hard: tables made by others, numbers that wrap, limits of cylinder, head, sector.
* **floppyd.**  A session sees the device as it has left it, answers belong to requests, a client or server
  that goes away does no harm to others.  Hard: the client tracks the server's file position without
  asking; several processes share a device; either side may be gone in the middle of a message; two versions of the
  protocol.

`PROJECT.json` lists every component with its status and, under `hazards`, what in this code a test
would hardly reach, at its line, with the property that covers it.

## 2. The modules

| module | models | kind |
|---|---|---|
| `FatTable` | what the FAT in memory promises: a table of sectors and a stored image that only receives its values | abstract specification |
| `FatCache` | `fat.c` 60-490 | component; implements `FatTable` |
| `FatEntry` | `fat.c` 272-413: the bytes of FAT entries | operators |
| `FatAlloc` | `fat.c` 770-1010, `fat_free.c`, `file.c` 90-600, the parts of `init.c`, `mcopy.c`, `mdel.c`, `copyfile.c`, `directory.c` that drive them | component, composed with the commands and the disk between them |
| `ByteStore` | what a buffered stream promises | abstract specification |
| `DiskBuffer` | `buffer.c` | component; implements `ByteStore` |
| `DirSlots` | `vfat.c`, `dirCache.c`, `mk_direntry.c`, `mdel.c`, `mmove.c` on one directory | component, composed with the commands |
| `FileHash` | `hash.c`, the opening and closing of streams in `file.c` and `stream.c` | component |
| `TreeWalk` | `mainloop.c`, `unixdir.c` and the call-backs of ten commands | component: commands, the tree they walk through and change, files of the host |
| `Opening` | `find_device`, `open_image.c`, `XdfOpen`, `plain_io.c`, `lock_dev` | component: several commands, the device files and the locks on them |
| `FsLayout` | the arithmetic of a layout, shared by `mformat.c` and `init.c` | operators |
| `Format` | `mformat.c` from the descriptions to the boot sector, and the next command's reading of it | component, over `FsLayout` |
| `Layers` | `open_image.c`, `remap.c`, `offset.c`: where a transfer arrives in the image | operators |
| `Partition` | `mpartition.c`, `partition.c` | component, over `Layers` |
| `Floppyd` | `floppyd_io.c`, `serve_client` and the handshake in `floppyd.c`, `lockdev.c` | component: clients, server processes and the connections between them |
| `FatCacheProofs`, `FatAllocProofs`, `DiskBufferProofs`, `OpeningProofs`, `FloppydProofs`, `PartitionProofs`, `TreeProofs`, `FormatProofs` | theorems (section 5) | TLAPS |
| `MCFatCache`, `MCFatAlloc`, `MCDirSlots`, `MCFileHash`, `MCTreeWalk`, `MCOpening`, `MCFormat`, `MCPartition`, `MCFloppyd` | instances for TLC | |

The layers are checked one at a time, each against a promise the next one uses: a FAT seen through the decoders of
`FatEntry` is a table of independent numbers (proved in `FatCacheProofs`), and `FatAlloc` takes it for one that
reaches the disk in `FatWrite` (what `FatTable` promises, with its insides in `FatCache`); `DirSlots`
treats the directory as an array of slots (what `ByteStore` promises of the directory's buffer), and
`TreeWalk` the writing of one entry as one step (its insides are in `DirSlots`).  Definitions whose
names end in an underscore and a word are broken variants ("Mutant"); no specification uses them.

### FatCache

`data`, `valid`, `dirty` are the bitmaps and sectors of `FatMap`, flattened to one set of sectors each;
a *slot* is a `FatMap_t` of `SectPerEntry` sectors.  The content of a sector is one value.

* `Load` is `getAddress` with everything it calls: the shortcut for the sector used last, `loadSector`
  with its loop over copies (`Dupe`), the prefetching of the run of sectors behind it into a slot that
  is empty, and dirty marks in mode WRITE.  `LoadFails` is the case in which no copy can be read; then
  the encoders store through address 0 or give up (`EncodeFault`).
* `Decode`, `Encode` are reading and changing one entry.
* `StartWrite`, `WriteSector`, `NextPass`, `EndWrite`, `WriteFails` are `fat_write`, one sector to a
  step so that it may be cut off anywhere.

Properties: `DirtyAnnounced` (no store is forgotten), `CacheCoherent` (a clean sector is what the disk
has), `MirrorsAgree`, `WholeCopy`, `ImplementsTable` (refinement of `FatTable`), `WriteEnds`.

### FatEntry

A FAT is a function from positions to bytes; the bitwise operations are division and remainder by powers
of two.  For each width there are the decoder, the encoder and, in `FatCacheProofs`, a theorem.  A number too large for its
entry ends the process on FAT16 and is cut on FAT12 and FAT32; `fast_fat16_decode` and `fast_fat32_decode`
read the same bytes on a little-endian machine; that the decoder of FAT12 refuses numbers which are no
cluster's is in `FatAlloc`, which sectors are fetched and marked is in `FatCache`.

### FatAlloc

The FAT is a function on entries 0 to the last cluster; entry 0 matters because the code can damage
it.  A stream is its `first` cluster, size, reservation and remembered position.  `content` records
which file a cluster was last written for; it is never read by an action.

* `BeginWrite`, `MapStep`, `WriteBack` are `write_file` and `normal_map`, one link to a step; `WriteError` is a write below
  that fails, after the chain has grown for it.
* `Create`, `Open`, `PreAllocate`, `Close`, `CloseShort`, `CloseFailed`, `DropWrite` are the ways in
  which `mcopy` (and `dir_grow`) use a stream, its failures included.
* `Delete`, `FreeStep`, `FreeStops`, `FreeReturns` are `mdel` and the loop of `fat_free`.
* `GetFree`, `FatWrite`, `NextCommand`, `Crash` are the count of free clusters, the flush, the next
  command opening the disk (with `check_fat` and the FAT32 info sector) and a killed command.

Properties: `ChainsDisjoint`, `FreeSpaceExact`, `StreamsRight` (position and size of an open stream are
true of its chain), `ContentIntact`, `ReservationsCounted`, `CallEnds` (but for `Circling`, see section 3).

### DiskBuffer

Positions are bytes; one write stores one value in all its bytes, so that short, overlapping and
unaligned writes can be told apart with two values.  `Read` and `Write` are whole calls of
`buf_pread` and `buf_pwrite` (the flush of the old window, the fill from below, the rounding of the
dirty range), with every return value the stream below may give; `ReadFails`, `WriteFails`,
`FlushFails`, `CloseFails` are their error paths.  `want` is a history variable.

Properties: `WindowCoherent` (what is not dirty is what is below, and the consistency checks of the
buffer end the process on truncated images only), `ShowsWritten`, `ImplementsStore` (refinement of
`ByteStore`: `inStep` maps to `~ever_dirty`).

### DirSlots

A slot is an end mark, a deleted slot, a piece of a long name (of which name, which number, whether
the last, which checksum) or a main entry with a short name.  A name stands for all its spellings, a
checksum for the short name it is computed from.

* `cache` is `dirCache_t`: a set of ranges.  `Cleared`, `AddFree`, `AddUsed`, `AddEnd` are the
  functions of `dirCache.c`; `AfterRead` is one pass of `vfat_lookup_loop_common`.  The Bloom filter of
  names is the exact set; a false positive would only start the search at slot 0 (or rename once more).
* A command is opened with an empty cache (`Open`) and closed with `freeDirCache` (`Close`), which may
  write the end mark again.
* `FindStep`, `SearchStep` are one pass of the loops of `vfat_lookup` and `lookupForInsert`;
  `WipeStep` is one `dir_write` of `wipeEntry`.  `Skip`, `Autorename`, `Overwrite`, `Again`, `Grow`,
  `CallBack`, `Put`, `PutAborts`, `WriteFails` are the outcomes of `mt_mwrite_one`; renaming wipes the old entry in
  its callback.
* `files` is a history variable: the entries the commands' results promise.

Properties: `CacheFaithful`, `NamesUnique`, `DirectoryRight` (what another system would
read from the slots, end mark and long names included, is exactly `files`), `CallEnds`.

### FileHash

`ht` is `struct hashtable`, `key` what `getAbsCluNr` returns for a stream (0 for the root directory of a
FAT12 or FAT16, 1 for a file without clusters), `hint` and `refs` the fields of `File_t`.  The hash
functions are constants: in the code they mix in the address of the filesystem, of which one command
rarely has two.

* `Open`, `OpenNew`, `Close` are `_internalFileOpen` and `free_stream` with the calls of the table
  inside them; `FirstCluster` is the moment in `normal_map` at which the key of an open stream changes.
* `Found`, `Moved`, `Added`, `Rehashed`, `Removed`, `PlaceOf` are the functions of `hash.c`: a lookup moves
  what it finds behind a deleted place, without telling the stream; adding to a full table first rehashes it.

Properties: `OneStream`, `NeverStuck`, `TableExact` (the counters, the places, and `OnPath`, which is why the other
ones hold: no place before a stream's, in the order of its key, was never used).

### TreeWalk

`tree` has the slots of each directory, `node` what each cluster is (a file or directory owns one cluster,
which stands for it) and, for a directory, its `..` entry.  `strays` are the entries that failed copies have left on the
disk, with the cluster they name, which is free or another file's by now.  `stack` is the C call stack: one frame for
each active `recurs_dos_loop`, `dos_loop` or `unix_loop`, with the slot it reads next.  `job` is the rest
of `MainParam_t` and the result.  `host` is the host's filesystem: files, directories and links by path;
`cwd` is the mcwd file.  `before` is a history variable: the disk before the command.

* `Start`, `EndArg` are `main_loop`: the target is looked up, then each argument is walked, with
  wildcards, `.`, `..` and a current directory that may be gone (`StartDir`, `PathFrame`, `Descend`,
  `EndPath`, `EndLoop`).
* `McopyFile`, `McopyDir`, `ToHostFile`, `ToHostDir`, `Defer`, `McopyHeld`, `CopyTarget`, `WritesHost` are the call-backs of
  mcopy between disk and host in each direction.  A copy may not fit (`CopyFails`), or be cut off while the source is
  read, by an error or ^C (`CutOff`): on the host the target is removed, on the disk its entry is written and then its
  chain is freed (`CopyCut`).  The directory's cache is not told of that entry, so that while the directory is open its slot
  counts as free and may be written again (`Spared`).  `Rename`, `MoveRefused`, `Abort` are those of mmove and mren;
  `DelFile`, `DelDir`, `NotEmpty`, `EndDel` those of mdel, mrd and mdeltree; `Mmd`, `Attrib`, `MduFile`,
  `MduDir`, `Mcd` the others.  `Chosen`, `Declined` are the outcomes of a name clash.
* `Interrupt` is ^C between two entries, `CutOff` in the middle of one.  `HostFrame` takes the names in the order of the
  listing or in the reverse of it, as `readdir` promises none.

Properties: `TreeSound` (the tree is one, and what failed copies left is in slots that hold nothing of it), `ResultRight`
(nothing is lost, nothing but what was named is deleted, a copy without an error is complete, `mattrib` and `mdu` reach
everything, only a copy that reports an error leaves a stray entry, ^C one at most), `WalkEnds`.

### Opening

`proc[p]` is the command `p`: its place in `find_device`, `try_device` and the drivers, the description it
tries, the access it asks for, the round.  `held` are the descriptors it has open, `locks` the locks
on each file.  `perm`, `asks` and `fits` are what the files and media are like: permissions, whether the
geometry can be set freely, only for writing, or never, and whether there is a DOS boot sector.

* `OpenXdf`, `LockXdf`, `Wait`, `TimeOut`, `IsXdf`, `NotXdf` are `XdfOpen` with `lock_dev`; `OpenPlain` is
  `SimpleFileOpenWithLm`; `ReadBoot`, `SetGeometry` the rest of `try_device`; `Retried`, `NextDescription`,
  `OpenFailed` its decisions.  `Start` and `Finish` are the process.

Properties: `FirstThatFits`, `NothingHeld`, `XdfLocked`, `OpeningEnds`; and `Exclusive`, which does not hold.

### FsLayout and Format

`fs` is the `Fs_t` being laid out, `dev` and `tot` the description and size in use, `May` what the search may choose
(cluster size, FAT bits, FAT length, root directory), `req` the options.

* `NextDevice`, `OpenFails`, `OpenWorks`, `TestReadFails`, `StartKnown`, `StartSearch`, `StartRefused`, `Conflict` are the loop over
  descriptions and the start of `calc_fs_parameters`, with the tables of known floppies.
* `SizeFat`, `JudgeLayout`, `PadLayout`, `HalveCluster`, `LowerBits`, `RaiseBits`, `DoubleCluster`, `BackTo12`, `GiveUp`,
  `Accept` are `try_cluster_size` and the decisions around it, one guess to a step; `CalcFatLen`, `Judge`, `Padded`,
  `WithClusters` in `FsLayout` are its arithmetic, with the widths of its numbers.
* `WriteBoot`, `ReadBoot` write the boot sector's fields and parse them as the next command does.

Properties: `LayoutSound`, `ReadBackSame`, `SearchEnds`; and `PaddingSuffices`, `SizeFromDescription`, which do not hold.

### Partition and Layers

`table` holds the four entries with both notations of their ends (sector numbers wrap at 2^32; cylinder, head and sector
are cut to 10, 8 and 6 bits), `stream` an open partition, `touched` where its last transfer arrived.

* `Mpartition` is one run of the command: it edits its copy of the sector and writes it or gives up.
* `OpenPartition`, `Transfer`, `ClosePartition` are `partition.c`; `Below` (in `Layers`) takes a transfer through the
  offset and the data map (`Remap`) to the image, `Opens` is what `OpenImage` refuses.

Properties: `ChsAgrees`, `TransfersKeepOut`, `KeepsTableSound`.

### Floppyd

A cell stands for any number of bytes.  A client has one request under way (`up`), the server's answer is
one packet or, for a read, two (`down`).  `server[c]` holds the local variables of `serve_client` in the
process forked for client `c`: `devFd` (`open`), its lock, `readOnly`, and the file position.

* `FloppydOpen`, `Greet`, `Greeted`, `Authenticate`, `Authenticated` connect, agree on a version and authenticate.  A
  connection for which floppyd cannot fork ends before the version reply; the client takes that for an old floppyd and
  connects again in version 10 (`FallBack`), in which the device is opened at once and a refused lock is ignored (`old`,
  `disturbed`).
* `StartIO`, `Sought`, `EndIO`, `StartCommand`, `Flushed`, `Closed` are the client: it asks,
  waits for the answer, and takes it apart; `lastwhere` is its idea of the server's position.
* `OpenDevice` (with `lock_dev`, which waits only for so long), `Seek`, `ReadDevice`, `WriteDevice`, `Fsync`,
  `CloseDevice` are the cases of the server's loop, errors and short transfers included.
* `ClientDies` cuts the request it was sending anywhere, `ServerDies` the answer; `Hangup` and `EndOfFile`
  are how the other side notices.  TCP keeps order and loses nothing before the end; that the four bytes of
  a length arrive together is assumed, as the code does.
* `known` and `stored` are history variables: what a session may believe of the device, and what all
  writes should have left on it.

Properties: `SessionView`, `StoresStay` (of what was not disturbed by a version 10 session without its lock), `InStep`,
`NobodyStuck`.

## 3. The runs

| run | bounds | shows |
|---|---|---|
| `FatCache_mirrored` | 2 copies of 3 sectors, 2 sectors to a slot, 2 values, up to one unreadable sector in one or both copies | every way to load, prefetch, fall back, modify and write; a slot that is only half there (3 is not a multiple of 2) |
| `FatAlloc_chains` | 3 clusters of 2 bytes, FAT32, two files of up to 3 bytes, deletion, writes that fail | chains of two clusters that interleave, full disk, reuse of freed clusters, wrap-around of the search; symmetry in the files |
| `FatAlloc_failures` | FAT12 and FAT16, 2 clusters, two files, failed copies, crashes, reservations, batch mode | reservations after every failure; every call ends, but for the circle of cluster 0 on FAT16 (see below) |
| `DiskBuffer_small` | sectors of 2, cylinder and buffer of 4, stream of 8 bytes; initially 0, 4 or 7 long; accesses up to 3 bytes | every alignment of a write against sector, cylinder and window ends; the truncated image |
| `DirSlots_small` | clusters of 3 slots, at most 6 slots; long names of 1 and 2 pieces with the same short name; 3 calls in one or several commands; an orphan piece, and stale slots behind the end mark | clashes of every kind, growth, reuse of free ranges, wrong checksums |
| `FileHash_small` | three streams, keys 0, 1, 2, 6 and 7 that collide in a table of 5, which grows to 11; up to two references to a stream | deleted places, moves, stale hints, tables full of deleted places that are cleaned out, growth; symmetry in the streams |
| `TreeWalk_small` | two trees of at most 9 clusters, three levels deep, with a read-only file, an empty directory, a free slot, a mcwd file that is true or stale; directories of 4 slots; paths of the host of 4 names; about 1300 command lines: each command with each argument and target, wildcards, `.` and `..`, every answer to clashes, several arguments, ^C between entries and inside copies, sources that cannot be read, `-Q`, `-n`, copies from, to and within the host, a host that fails | walks that meet what they have written, targets inside their sources, full disks and directories |
| `Opening_small` | two commands, each reading, writing or labelling, one after the other any number of times; a drive of three descriptions on two files (XDF, plain, plain with `nolock`); every permission, geometry and medium of the first file; one try for a lock | every order of two commands, retries, refusals |
| `Opening_unlocked` | the same, property `Exclusive` | expected to fail, see below |
| `Format_small` | 389 requests: sizes around the places where the search changes its mind, geometries of floppies and disks, each parameter free or fixed | FAT12, 16 and 32; padding, halving, doubling, falling back |
| `Partition_small` | images of several sizes, one with an offset, one with a data map that skips and fills, one with a map that goes back; tables empty, sound, overlapping, wrapping; two commands; then transfers of 1 and 4000 sectors | every pair of commands on every table; both ends of a partition |
| `Floppyd_small` | two clients (symmetric), a device of two cells, requests of one or two cells at either, four reads and writes in all, one connection that falls back to version 10, any number of sessions and deaths | readers and writers that exclude each other, lost and stale positions, torn requests and answers |

The bounds are small where the code is uniform (one more sector or cluster adds no new case) and sized
so that each limit is met: a full FAT, a full directory, a window at the end of the stream.  For
`Floppyd_small` the largest feasible one was chosen (about 1,080,000 states); five calls instead of
four, about six million states, show no more.  `Format_small` and `Partition_small` are samples of an
arithmetic that is not uniform, so their inputs sit at its boundaries.  Every
action and disjunct is taken in some passing run, and for each property `PROJECT.json` names a plausible
bug in a definition of the model that makes TLC report it.

In the runs with `VIEW WithoutStored`, states that differ only in the FAT on disk while a newer one
is in memory are identified; without crashes nothing reads it then.  `CHECK_DEADLOCK FALSE` is there
because a process may end (`exit`, a killed command, an abort of the buffer) or reach the bound on calls.

`FatAlloc_failures` leaves FAT32 out, which decodes as FAT16 does: the count in its info sector, wrong once a free
cluster has been freed again, would carry over to the next command and grow without end.

Bounds of `TreeWalk` besides those in the table: a copy that fails is one of a command line that says it may (`faulty`,
`interruptible`); a walk is followed until it comes back to a directory that was closed since a failed copy left an
entry in it (`BeyondModel`): read anew, that entry is a file like any other, over a cluster that is free or another's,
and what it does to chains is in `FatAlloc`.  The target of the command is open all the time, so this takes a recursive
copy that goes on after an error.  The host lists a directory in one order or its reverse; `MaxPath` is its limit on
paths.  `Partition` opens a partition for one transfer at a time, since none depends on another.

### A disagreement with a run of its own

`Opening_unlocked`: two commands write to the same drive at the same time, although it is described without
`nolock`.  `OpenImage` passes 0 for `locked` (`open_image.c:80`, `:88`), as every caller of
`SimpleFileOpenWithLm` does, so that `LockDevice` never locks; `mtools.texi:1075-1079` and the comment at
`plain_io.c:255` say otherwise.  Only XDF disks and floppyd lock at all.

### Seen while modelling

Properties that the modules define and that do not hold (TLC reports each one on an instance of the size above;
no run is kept for them):

* `FlushedIsStored` (`FatCache`): with mirroring off and copy 1 active, `fat_write` never writes the active
  copy (`fat.c:148` compares the number of the copy after rotation).
* `EntrySizeRight` (`FatAlloc`): a copy that runs out of space is reported as a success, with a size
  that was never written (`copyfile.c:65`, `mcopy.c:428`).
* `NoDanglingEntry`, `ReservedEntryIntact` (`FatAlloc`): `mcopy.c:433` frees the chain of a failed copy, whose
  entry keeps its start cluster; deleting that entry frees entry 0 of the FAT (`fat_free.c:43`).  In `TreeWalk` it is
  `CopyCut`: a read error or ^C after the first chunk leaves an entry that names a free cluster, which the next file gets, so
  that the two share it; `TreeSound` keeps such entries apart from the tree, and does not say that there are none.
* `CallEnds` without its exception (`FatAlloc`): once one such entry has been deleted, entry 0 of the FAT is 0, and deleting another
  one on FAT16 or FAT32 never ends: `fat16_decode` and `fat32_decode` (`fat.c:337-411`) do not refuse entry 0 as
  `fat12_decode` does, and `fat_free.c:38-46` follows it from 0 to 0 for ever.  `Circling` names the state; the model stops there.
* `NeverRefused` (`FatAlloc`): `check_fat` takes an entry that names the last
  cluster for an error (`fat.c:637`, off by one), so that a FAT16 disk on which the last cluster follows
  another is refused.
* `ReservationHonoured` (`FatAlloc`): `init.c:623` grants a reservation
  without counting earlier ones, so that streams may be promised more clusters than there are.
* `NothingReappears` (`DirSlots`): renaming the last entry (with a long name) to a longer name where stale slots
  follow the end mark overwrites the end mark and does not write it again; a deleted file shows up
  (`vfat.c:375`, `dirCache.c:334`).  So it does after `mmd` when the directory grows and the write that follows fails; the
  bound of the run forbids that directory to grow.
* `ClearedAligned` (`DirSlots`): `mren` of an entry with a short name only, which deleted slots follow that are read one
  at a time, to a longer name counts the free run before the wiped entry has joined it (`vfat.c:757-771`) and ends at the
  assertion of `freeDirCacheRange` (`dirCache.c:198`), with the old entry wiped and the new one half written.
* `PaddingSuffices` (`Format`): the padding is computed in 16 bits without sign (`mformat.c:529-550`);
  `mformat -c 1 -T 4144` fails with "Too many clusters", against the comment "Shrink directory again, but at
  most as by as much as we grew it earlyer".
* `SizeFromDescription` (`Format`): the loop over descriptions keeps size, FAT length and directory length
  of one that was rejected, against `mtools.texi:1171-1186`.
* `TotalsComplete` (`TreeWalk`): `mdu.c:75-76` tests whether the *parent* is the root, so that directories directly
  below the root never count their own cluster, against `mtools.texi:1814`.

In the FAT, the buffer and directories:

* `lookupForInsert` tells where a clashing entry begins only if the long name matched; after a clash
  of short names `wipeEntry` (`mk_direntry.c:475`) uses two variables that were never set.  `Overwrite`
  has this as a free choice; the passing run answers such clashes with skip or autorename.
* The end mark is also lost when a command creates an entry, replaces it, and the replacement fails
  where stale slots follow.  That is why the passing run, in the directory with stale slots, lets
  `mmd -D s` create entries, which never replaces one, and keeps `mcopy` out.
* A stream just opened remembers position 65535, which `normal_map` takes for a real one from the 65535th cluster of a
  file on; `FatAlloc` is about shorter files.
* On an image cut off inside a sector, reading at the end and writing behind it ends the process
  (`buffer.c:312`, "dirty end too big"); `NoInternalError` says that this is the only way.
* `lookupForInsert` dereferences a null pointer if reading the directory fails (`vfat.c:844`).
* A directory grows once per entry (`mk_direntry.c:617`), so a name of 21 slots does not fit into a
  full directory with clusters of 16 slots.

In walks and commands:

* `mmove` of a directory rewrites only the low half of the start cluster in `..` (`mmove.c:91`); the passing
  run has directories whose numbers fit in it.
* `mmove` ignores what `dos_target_lookup` returns: with a target whose directory does not exist (`::nodir/y`) it
  uses a null pointer.
* `mcopy -D a '::*' ::` meets its own copies with long names and goes on until the disk or directory is full.
* `mdu` and `mattrib -/` on an empty directory end with "File not found"; `mren ::/ foo` exits in
  `dir_write`; `mdeltree ::/` empties the root and then fails; `mdel` on `dir/.` removes an empty directory.
* On the host `mcopy -n f .` empties `f`: without the warning the comparison of the two files
  (`mcopy.c:208-232`) is left out and the target is opened with `O_TRUNC`.  `mcopy -s d d/e` copies into
  itself until names are too long, as `unix_copydir` does not ask whether the target is inside.  The passing run leaves these
  two command lines out.
* The entry a failed copy leaves is unknown to the directory's cache: its slot counts as free, and its name as unused, until the
  directory is read anew.
* ^C in `unix_dir_loop` adds no `ERROR_ONE` (`unixdir.c:131-149`), and the positive result of a short write counts as
  success: an interrupted copy from the host, or a truncated one to it, may end with status 0.
* `printSummary` of mdir takes the wrong counter; `dos2unix` drops text behind a 0x1a and takes a chunk that
  is one `\r` for the end of the file.

In opening, formatting and partitioning:

* `open_image.c:95` tests `*geomFailureP` where it means the pointer: a refused geometry is never
  reported, and the retry with write access never happens; the descriptor is left open; callers that pass a null
  pointer crash.
* `mformat -c 1 -L 260 -d 1 -T 69913` fails the assertion on `bwaste`; FAT32 with too short an `-L`
  (`-F -L 1 -c 1 -T 5000`), `-t 40 -h 1 -s 9 -d 255`, which leaves no cluster (`mformat.c:597`), and `-T` on a drive with the
  geometry of a known floppy abort; `-r 5000 -T 100000` has a root directory that overflows its 16 bit field
  (`mformat.c:215-216`), so that the next command refuses the disk; an `-L` above 65535 is cut on FAT12 and FAT16, and the
  table of old formats overrides `-L`.  The sector count checked against the drive's is `dev`'s, not `used_dev`'s.
* `mpartition` marks a partition for addressing by cylinder although its cylinder is cut at 1023; `-h 256 -s 256` divides by zero;
  `-b 0` is accepted; the default end may lie outside the disk; `-I` on an image that cannot be read
  writes bytes never set; "already exists" is reported and the partition is created over it; more than 63
  sectors garble the notation by cylinder.  `setsize` and `setsize0` cannot be reached, and
  `partition_data` reports a size multiplied by 512.
* A data map with a `pos` that goes back makes the disk seen larger than the image; swapping a buffer of odd length
  touches one byte behind it.
* `flush_dirty` of `xdf_io.c` never ends when a write keeps failing.

In floppyd:

* On a device of more than 4 GB a write goes elsewhere: `floppyd_lseek64` sends 32 bits of the offset
  (`floppyd_io.c:245`).  `OffsetWrap` stands for 2^32.
* A client that dies while it sends a write has the rest of the packet written as zeros
  (`floppyd.c:1174` ignores that `recv_packet` failed); `StoresStay` says that it is no worse than that.
* A seek beyond the end of a block device fails, floppyd answers with the old position, and the client goes
  on there (`floppyd.c:1281`, `floppyd_io.c:316`); the run and the proofs stay within the device.
* A request that can no longer be sent returns `AUTH_IO_ERROR`, which is positive and counts as success
  (`floppyd_io.c:134` and others); the answer to `OP_CLOSE` goes through a buffer freed before (`floppyd.c:1333`).
* A connection that ends before the version reply makes the client fall back to version 10
  (`floppyd_io.c:639-648`), in which `serve_client` ignores that a lock is refused (`floppyd.c:1159`) and
  a device that cannot be opened is reported by a packet nobody asked for, which the next request takes for its answer.  The
  first socket is not closed.

## 4. Fairness

mtools has no scheduler: a process that is inside a call goes on.  `FatCache!FairSpec` has weak fairness
of the steps of `fat_write`, `FatAlloc!FairSpec` and `DirSlots!FairSpec` of the steps of a call that has
begun (`CallStep`), `Format!FairSpec` of the one process there is, `Opening!FairSpec` of the steps of each
command that is opening its drive, not of what it does afterwards: another command may keep its lock for ever.
`TreeWalk!FairSpec` is weak fairness of the steps of a walk, written out (a walk that is
running infinitely often takes a step), which spares TLC the evaluation of ENABLED for a large action that is always
enabled.  No fairness is assumed of what commands a user gives, of failures or of crashes,
so liveness is always "a call that has begun ends, unless the process does".  `Floppyd`, which has
processes that wait for each other, states its progress as the invariant `NobodyStuck`: whoever waits, there is
a process with something to do for him, and no request takes more than a few steps.

## 5. What is proved

**FAT sector cache.**  `FatCacheProofs`, for every number and length of FAT copies, every slot size, every set of
unreadable sectors, from `FatCacheAssumption` alone:

* `TypeCorrect`: `Spec => []TypeOK`.
* `DirtyIsAnnounced`: `Spec => []DirtyAnnounced`.  The inductive invariant is `Bookkeeping`: the type
  invariant, the property itself, `WriteProgress` (inside `fat_write`, `fat_dirty` stays set, and in the
  pass that clears marks no dirty sector lies before `next`) and `LastCached` (the sector of the shortcut
  is cached).  Without `WriteProgress` the end of `fat_write` could clear `fat_dirty` over a dirty sector.
* `CacheIsCoherent`: if `WriteAllFats`, `Spec => []CacheCoherent`.  The invariant is `CoherenceInv`:
  `Bookkeeping` and `Coherent`, which adds that all copies agree on a sector that is *not* cached
  (`UncachedAgree`), that a dirty sector already put on the preferred copy reads back from it
  (`WrittenReadsBack`), and that a cached sector has a readable copy (`CachedAreGood`).  The argument needs
  the order of the copies: `PrimaryStaysPreferred` shows that a
  write to a copy that is not preferred does not change what a read returns.
* `InactiveStayUntouched`: with mirroring off and copy 0 active, no step changes another copy.

From there: `MirrorsStayEqual` (`Spec => []MirrorsAgree`) follows which sectors of which copies the
passes of `fat_write` have already put (`MirrorInv`); `OneCopyIsWhole` (`Spec => []WholeCopy` with at least two copies, mirrored or
not) adds to it, in `WholeInv`, that the pass over one copy is complete before the next copy is touched, so that at every moment
either the second copy is as the last complete `fat_write` left it or the first one has all of the new table; and
`CacheImplementsTable` is the refinement of `FatTable`: each step is a step of the table or a stutter.

**FAT entries.**  In the same module `Fat12IsTable`, `Fat16IsTable`, `Fat32IsTable`: for a FAT of any size and any entry
in it, what is decoded after an encode is the new number there and the old one everywhere else; on FAT32 the upper four
bits stay.

**Allocation.**  `FatAllocProofs`, for any number of clusters and files, any kind of FAT, and any sequence of commands, in
three layers:

1. `ReservationsCountedAlways`, whatever fails and whoever is killed.  The invariant `Accounted` is the types, what the call
   under way may have reached, and the sum of the reservations.  The sum over all streams is a recursive function over
   sets; that it exists, and what changing one stream does to it, is shown by induction on the size of the set (`SumsExist`).
2. `ChainsDisjointAlways` and `FreeSpaceExactAlways`.  "Every cluster has one owner" speaks of chains followed to their ends.  The
   invariant `AllocRight` says instead that *there is a function* from clusters to owners such that each link stays with one owner
   and each file's head is its own (`Sound`); an appended cluster is given to the owner of the chain (`AppendKeeps`), so the proof
   looks at one link at a time.  Its other parts are `Typed`, `CallRight` and `Counted` (the count, what the disk has of it, and
   when the stored FAT is the one in memory).
3. `StreamsRightAlways` and `ContentIntactAlways`.  Here an owner is not enough, the place in the chain matters: the
   invariant `ContentsRight` says that *there is a list* of clusters for each file (`Placed`) which the FAT links in
   that order (`Linked`), no two files' lists meet (`Separate`), the head is its first (`Headed`), each cluster up to
   the size was last written for this file and place (`Filled`), and the position a stream remembers is one of its list
   (`Remembered`).  A step appends to one list or takes the first cluster of one away (`Extended`, `Shrinks`).  That
   following the links from the head yields the list is an induction over its length; that it is no longer than there
   are clusters follows since it repeats none.

Assumptions of 2 and 3: `NoFailures` (no copies that fail while reading, no killed commands: after those the properties
fail, see `NoDanglingEntry`; full disks and writes that fail are among the steps) and `FilesFit` (fewer than 65535
clusters to a file, see above).  1 needs neither.

**Disk buffer.**  `DiskBufferProofs`, for sectors, cylinders, buffers and streams of any size and bytes of any kind, from
`DiskBufferAssumption`: `WindowStaysCoherent`, `AlwaysShowsWritten`, and `BufferImplementsStore`, the refinement of `ByteStore`.
The invariant is `BufferRight`.  It adds to the properties, in `WindowRight`, that the window begins at a sector and ends at one
unless the stream below ends there, that the dirty range is of whole sectors, and that what lies
behind the end of the stream is blank; without the first, "dirty end too big" could not be traced to a truncated image.
`ROUND_UP`, `ROUND_DOWN` and `pos_to_next_full_cyl` enter through lemmas on what they guarantee; the end of `buf_pwrite`, which
all four kinds of write share, is one lemma (`StoreRight`).  The theorems assume `BoundAtCylinder`: the bound `MaxPos` lies at the
end of a cylinder, as it does in the run, so that no window is cut off by a bound which the code does not have.

**Opening.**  `OpeningProofs`, for any list of descriptions, any files and media and any number of commands, from
`DescriptionsAssumption` and `EnvironmentsAssumption`: `FirstThatFitsAlways`, `NothingHeldAlways`, `XdfLockedAlways`.  The invariant
`OpeningRight` says of each command, in `Right`, what its description, its earlier attempts, its access, its stream and its lock are
(`DevRight`, `TriedRight`, `ModeRight`, `StreamRight`, `LockRight`); all of it speaks of the command's own state, so that
steps of others keep it (`OthersKeep`).  What commands share is that locks of different ones are locks of readers (`Compatible`).

**floppyd.**  Two layers, for any number of clients, any size of device and requests of any length (floppyd's own limit
on them is not modelled).  `FloppydProofs` proves the *conversation* (`Control`): who has a request under way, whose
answer is on the line, which process has which lock; from it `AnswersInStep` and `NobodyWaitsForNothing`.  The second
layer builds on it: what sessions know and what writes have stored agrees with the device (`Contents`); from it
`SessionsAreApart` and `WritesLast`.  The argument: exclusive locks keep protected sessions apart (lemma `Alone`);
sessions disturbed by an unlocked writer know nothing; and what a client that has died was writing is not yet known to
anybody (`PendingRight`).  The assumption is `WithinDevice`: no request lies beyond the device or beyond what the offset
in a request can say; the two items on seeks above are why.

**Partitions.**  `PartitionProofs`, for every table a disk may come with, every image and layers above it, every command and any
number of them:

* `TableStaysSound` (`KeepsTableSound`), an action property.  The argument is about `consistencyCheck` alone: an
  entry that passed it shares no sector with the others.  One case escapes the code, and is named in the property (`RunsOut`): an
  entry that runs past the last sector number, whose end wraps around.
* `ChsLeadsBack` (`ChsAgrees`).  Most of it is arithmetic on the geometry the program makes up: that it always reaches the end of
  the disk below cylinder 1024.  The invariant is `PartitionInv`.
* `TransfersStayInside` (`TransfersKeepOut`).  `StreamInv` says which entry an open stream belongs to.  What `process_map` makes
  of a list of items is a recursive function; what `remap` finds in it is shown by induction over the items.  That a transfer ends
  before the image does holds only if the map names no more than there is (`FitsImage`): nothing in the code compares the two.

**Open files.**  The first part of `TreeProofs` (theorems on one tree of files: its open streams, then a walk through
it), for any number of streams, any hash functions, and sizes of the table: `OneStreamAlways`,
`NeverStuckAlways`, `TableExactAlways`.  The invariant `HashInv` is about a table and the set of streams in it (`Sound`): each is
at one place, no place before it on the path of its key was never used, and the counters are right.  Nothing is said of the
hints, which are only believed when they lead to the stream.  Each
operation of `hash.c` has a lemma on what it does to the two; growing re-enters the old table place by place, which is an induction
over the places.  Assumptions: `PrimeSizes` (all the sizes in the table of `hash.c` are primes: with a step that divides the size, a
probe would miss places and the search go round for ever) and `SizesSuffice` (the largest is more than the streams there can be).

**Formatting.**  `FormatProofs`, for every request, every size of the disk and all four sizes of a sector, from
`RequestsAssumption` and `SectorSizeAssumption`: `LayoutSoundAlways` and `ReadBackSameAlways`.  The search goes back and
forth between cluster sizes and FAT types, so what a layout has to be is not kept from guess to guess; the invariant
`FormatInv` says at each stage what has been established since the last guess:

* `SearchInv`: what the user has fixed is still as he asked, and padding is allowed only where the disk is little too large
  for its FAT bits (`PadSmall`).  Without that the padding, computed in 16 bits, could overflow and fail the assertion behind it.
* `JudgeInv`: the FAT computed from the size has an entry for every cluster there is room for (`Covers`).  That is the
  arithmetic of `calc_fat_length`, a division whose divisor is itself a sum, for FAT12, 16 and 32 (lemma `LengthEnough`).
* `AdjustInv`: what the verdict on the number of clusters says of that number; from it, that a layout is only accepted when
  the range of its FAT type has it, and that halving, doubling and changing bits stay within what may be chosen.
* `LaidInv`, `BootInv`: what the assertions of `check_fs_params_and_set_fat` leave, and that the fields of the boot sector
  parse to what was written.

There is one lemma for each step of the search.  What the theorems do not claim is written into the properties: `AssertsHold`
exempts a FAT length, a size or a known floppy fixed by the user against the rest (the aborts listed above), and
`ReadBackSame` a length too large for its field of 16 bits (`FitsFields`).

**The walk of a command.**  The second part of `TreeProofs`: `WalkInvAlways`, `StraysInvAlways` and `TreeSoundAlways`,
for any number of clusters, directories and names, from every disk that holds a tree (`DisksAssumption`), with any files
of the host, and for every command line that the programs' parsing lets through (`CommandsAssumption`: one predicate per
command, `McopyLine` to `McdLine`, with what its `main` insists on).  After every entry written, moved or deleted,
wherever ^C, an error, a full disk or a refusal ends the command, the entries of the command's own files and directories
are a tree.  That is not all the disk has: a copy cut off while its source was read leaves an entry to a freed cluster
beside it.  Of these the theorems say that they are only ever in directories of the tree, in slots which nothing of the
tree is in (`StraysApart`); they cannot say that no file shares the cluster, since one may.  A walk is followed as far as
the model goes (`BeyondModel`, section 3).

The invariant is `WalkInv`:

* `TreeRight` is `TreeSound` in a form a step can be traced in.  `Below` and the counting of entries are replaced by what holds
  of each place: what an entry names exists (`Listed`), everything has a place (`Placed`), only one (`Once`), names are not
  repeated (`NamesOnce`), `..` is right (`UpRight`).  That all is reached from the root (`Reached`) says
  that every set of directories with the root in it, and with all that is in them, has it (`Under`).  `TreeIsRight` and
  `RightIsTree` show that this is the same, by induction over the levels of `Below`.
* `JobRight`: what the call-backs assume of the target, which is still a directory when they write to it.
* `StackRight`: what each active loop needs.  `FrameRight`: the directory it reads is there, and a loop that deletes has the entry
  by which it was reached.  `Chain`: loops that delete are the innermost ones, each in a directory below its caller's.
  `Passed`: all such a loop has passed without an error is gone, but for the directory it is deleting right now.

The argument has two halves.  Commands that do not delete never lose a directory (`NoDirLost`), so every loop on the
stack, up to the caller of the caller, keeps the directory it reads, though entries are added to it, moved out of it and
into it under its hands. Commands that delete only take away (`Fewer`), and a directory is only removed by the loop that
has just emptied it: `del_file` reads it to the end and gives up after an error, and that no entry is left then is
`Passed` (step `EndDel`).  A move keeps everything reached because `isSubdirOf` refuses a target inside what is moved
(`NoCycle`): here is where a check of the parent alone would cut the tree off.  `StraysInv`, over `WalkInv`, is about
what failed copies leave: each such entry is in a slot that the tree does not use, until a new entry covers it
(`WriterCovers`), and its directory is never removed, since only mcopy leaves entries and it deletes no directory
(`CutLeaves`, `OnlyCopies`).

Each invariant has a lemma for `Init`, lemmas for the operators, and one lemma or step of the proof for each action.

The library's induction theorems take an operator as a parameter, which the provers here cannot instantiate.  Where a
proof needs induction it goes by the least element of a well-founded relation (`WFMin`): a set of numbers that has 0 and
with each number the next has them all (`Counting`).  A recursive function is first shown to exist, the same way, and
then unfolded.

Only model-checked: the liveness properties (fairness and ENABLED are beyond TLAPS here); `FatAlloc` after failures;
`CacheFaithful`, `NamesUnique` and `DirectoryRight` of `DirSlots`; `ResultRight` of `TreeWalk`.  Those four need invariants
that relate a whole cache of ranges to the slots, or the state of a walk to the disk before it; no module uses a RECURSIVE operator,
so they are not out of reach of the provers in principle.

## 6. What is not modelled

* Within `FatAlloc`: `read_file`; loop detection; what `mbadblocks` and `mformat` store in the FAT.  Within
  `DiskBuffer`: the reservation a directory's buffer makes in the stream below.  Within `DirSlots`: labels, making a
  short name out of a long one (a constant function), asking for names, renaming of long names, read errors, two
  directories at once.  A callback that fails there (`WriteFails`) has not opened its file yet; a copy that fails later,
  and the entry it leaves, is in `TreeWalk` and `FatAlloc`.
* Within `FileHash`: memory that runs out, the cache of open drives, several filesystems.
* Within `TreeWalk`: a second reading of a directory in which a failed copy has left an entry (section 3), the output of
  mdir and mtype, several drives in one command, `minfo`, `mshowfat`, `mtoolstest` and the like.
* Within `Opening`: SCSI devices, privileges, floppyd as a driver (its own module).  Within `Format`: the boot program,
  2m and XDF formats, `-k` and `-B`.  Within `Partition`: `mpartition -I`.  Within `Layers`: the track buffer of XDF and
  SCSI commands.
* Within `Floppyd`: what a cookie is checked against, several devices of one floppyd, its command line,
  `floppyd_installtest`; that floppyd refuses a packet of more than 3,000,000 bytes and leaves its data unread on the
  connection (`MAX_DATA_REQUEST`, `floppyd.c:109`, `:342`, `:1174`).  The buffers of the client are far smaller.
* Repair tools (one pass over the FAT), character sets and text conversion (tables and filters of bytes),
  configuration, privileges and helpers (parsing, system calls): little or no state.

## 7. Plan

What has been done, in the order of what goes wrong worst: the FAT (`FatCache`, `FatAlloc`, then `FatEntry`), the
buffer, directories, open files, floppyd; then walks, opening, formatting and partitions; proofs from the FAT upwards.
What is left:

1. `XdfTrack`: the track map and buffer of `xdf_io.c`, with its loop over dirty tracks.
2. Moves between directories in `DirSlots`, with labels; loop detection and counting of chains.
3. Proofs: `CacheFaithful` of `DirSlots`, from lemmas on `Cleared` and `AddFree`, then `NamesUnique` and `DirectoryRight`;
   `ResultRight` of `TreeWalk`, beginning with what a deletion may take away; `AllocRight` weakened to what holds after failures.

## 8. Running it

    tlc -config FatCache_mirrored.cfg MCFatCache.tla      # one cfg per run, named after its module
    tlc -config DiskBuffer_small.cfg DiskBuffer.tla       # the one without an MC module
    tlapm FatCacheProofs.tla        # and FatAllocProofs, DiskBufferProofs, OpeningProofs, FloppydProofs,
                                    # PartitionProofs, TreeProofs, FormatProofs
