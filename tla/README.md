# A verification project for dump and restore

dump(8) writes the inodes and blocks of an ext2/3/4 file system to a sequence of
volumes (tapes, files, a remote tape); restore(8) reads them back, whole,
incrementally or name by name.  This directory holds TLA+ models of the parts
whose correctness is hard to test, the TLC configurations that check them and
proofs that TLAPS checks.  Lines are given as `path:line` below `src/`.

* [Inventory](#inventory): the system's parts, their state and what makes them correct
* [Models](#models): which module models what, and how it corresponds to the code
* [Runs](#runs): what is checked, on which instances, and why these are enough
* [Disagreements](#disagreements) of the code with what it says of itself
* [Proofs](#proofs): what is proved, from what, along which argument
* [What is only checked, and what is not modelled](#limits)
* [Plan](#plan)

`PROJECT.json` lists the components, the runs, the mutants (for each property a
plausible fault of the code that makes its run fail), the map from definitions to
source lines, the hazards and the theorems.

## Inventory

| Component | Code | State | Operations |
|---|---|---|---|
| slave ring | `dump/tape.c` (`enslave`, `doslave`, `flushtape`, `trewind`, `tperror`, `killall`) | the slots with their requests, one socket pair per slave, pending signals, `caught1`, `caught2`, the tape descriptor all slaves share | send a request, read a result, take a turn to read and to write, drain, close, abort |
| volumes and checkpoints | `dump/tape.c` (`writerec`, `dumpblock`, `flushtape`, `rollforward`, `startnewtape`), `dump/main.c` | `spcl`, `slp`, `trecno`, per slot `count`, `tapea`, `firstrec`; one process per volume that keeps the memory of its start | put a record, flush, end a volume, roll forward, rewrite from the checkpoint, trailer |
| volume reader | `restore/tape.c` (`readtape`, `getvol`, `gethead`, `getfile`, `extractfile`, `comparefile`) | the block buffer, `tpblksread`, `volno`, `spcl`, `curfile`, the frame to jump to | read a record, pass over what is damaged, next volume, skip duplicates, start on a volume at random, extract or compare a file |
| scan of the file system | `dump/traverse.c` | `usedinomap`, `dumpdirmap`, `dumpinomap` | pass I, repeated `mapdirs`, passes III and IV |
| dump dates | `dump/itime.c` | the file `dumpdates`, its lock, `ddatev` | read, choose the date, enter a dump |
| driver and command line | `dump/main.c` | options, level, the exclusion bitmap | the order of the passes, the trailer, `putdumptime` |
| operator dialogue | `dump/optr.c` | none that matters | `query`: an answer |
| incremental restore | `restore/restore.c`, `symtab.c`, `utilities.c` | the symbol table (names, inodes, flags), the restored tree, the checkpoint file | remove old, create new, rename through temporary names, checkpoint |
| directory reader | `restore/dirs.c` | the file of all directories and the one buffer to read it, the index by inode, the modes file | `extractdirs`, `treescan`, `pathsearch`, `rst_opendir`, `genliteraldir`, `setdirmodes`, `comparedirmodes` |
| restore by name | `restore/interactive.c`, `restore/restore.c` (`addfile`, `deletefile`, `createfiles`, `createlinks`) | the names on the list, in the symbol table by inode | add, delete, extract, search the volumes, link |
| extended attributes | `restore/xattr.c`, part of `dump/traverse.c` | none | encode, decode |
| remote tape | `common/dumprmt.c`, `rmt/rmt.c` | a socket, the state of the tape on either side | open, read, write, seek, ioctl, close over a byte stream |
| archive index and QFA | `common/*indexer*` | side files beside the dump | an entry per volume, inode, name |
| transformations | `common/transformation*` | none | compress, decompress a block |
| compatibility library | `compat/` | none | glob, labels, type names |

How they meet.  The driver runs the scan; the scan hands records to the volume
layer (`writerec`, `dumpblock`); the volume layer cuts them into blocks, hands
blocks to the slaves and reads one result for each; a slave reads disk blocks and
writes the shared tape.  The end of a volume turns the volume layer around:
`startnewtape` forks, the child goes on, the parent waits and, if the child exits
with `X_REWRITE`, forks again from the same memory.  Only the last child calls
`putdumptime`.  restore sees none of this but what is on the volumes: the counts
in the headers are all that lets it put them together again.

What is hard here, and which properties that makes worth stating:

* *The ring.*  Two kinds of signals, no lock.  Nothing but their order keeps four
  processes from writing the tape at once.  Every turn must be taken in order, none
  lost for good, and the result the master reads must be that of the request it
  thinks of, although no message carries its number.
* *Ends of volumes.*  A write error or end of tape is reported up to N blocks late.
  What is not surely on the tape must be in a slot, in order; rolled forward, it must
  fit what the reader takes for duplicates; a rewrite must redo everything.
* *Counts.*  `c_count`, `c_firstrec`, `c_tapea` are kept per slot, across volume changes
  that overwrite the global `spcl` in the middle of a record.
* *Pass II.*  Two bit maps are shrunk and grown while they are walked, until nothing
  changes.  The result must be complete, must not depend on the numbering of the
  inodes, and must come.
* *dumpdates.*  Several dumps read and rewrite one file; a kill or a race must not
  lose another's line, for a file in no dump of the chain is lost for good.
* *Incremental restore*: names and inodes that were swapped, reused and removed
  between two dumps, and a restore that is broken off and resumed from its checkpoint.  Nothing
  that is not on the tape may be lost on the way, since restore could not get it back.
* *Reading on after damage*: when `getfile` returns, `spcl` is the header of the next file.  A
  lost header, a hole, a cut end each leave half a file's state behind; what can be read
  must come back, and what cannot must be named.
* *Search over volumes*: `createfiles` decides from three numbers, the next inode, the volume
  and the number of records read, what to do; any of its calls may change the volume below
  it and jump out of a file.  No file may be called missing that is there.
* *One file for all directories*, read recursively through one buffer, with seeks that are
  left out when they seem not to be needed.
* *The remote tape*: two byte streams without frames, an error in the middle of a write.

`PROJECT.json` "hazards" has the full list, each at its line with the properties
that would catch it.

## Models

### SlaveRing, VolumeWriter: one volume, N processes

`SlaveRing` follows one volume from `enslave` to the end of `trewind`.  The master
numbers its requests 0, 1, 2, ...; what is in them does not matter here.  The volume is
begun fresh, or by `rollforward` (`replayed = N`): then the first N requests are those left over
from the volume before, which `Replay` sends from the extra buffer, and the slots do not have them.

| Variable | Code |
|---|---|
| `mpc`, `idx` | where the master is in `flushtape`, `trewind`, `tperror`; the loop index of the drain and of `trewind` |
| `slp`, `sent` | the slot filled next; `slaves[i].sent`, a result is outstanding |
| `replayed` | how many requests `rollforward` sends at the start: none or N |
| `mem` | which request of this volume was built in a slot's `req`/`tblock`, what `rollforward` could replay |
| `given` | history: which request was sent last to the slave of a slot |
| `chan`, `open`, `res` | the socket pair of a slot: requests, the master's end, results |
| `pc`, `cur` | where a slave is in `doslave`, the request it read last |
| `caught1`, `caught2`, `pend` | the flags of the handlers; blocked signals that are pending |
| `term` | a slave's `dumpabort` has sent SIGTERM to the master |
| `nread`, `tape` | what was read from the disk and what each `write` did |

Signals are modelled by what POSIX gives: until a slave has blocked them the
inherited handlers run at once (`boot`); then a signal is pending, one of a kind;
`sigsuspend` is called once (not in a loop), delivers all that is pending and returns
or jumps.  `Wake1` and `Wake2` are these two places, with the case in which the jump
out of one handler abandons the other.  A slave's reads of the disk are one action,
its write another: between them, and between the signal and the next request, all
processes interleave.  `SocketHolds` says whether a socket buffer takes a whole
request; if not, the master is stuck in its `write` until the slave reads.  A write
ends "ok", at the end of the tape (the up to ten retries in `doslave` included) or
with an error; which request is hit, and whether the size limit is reached after an
"ok", is left to chance.  The operator's three answers are three actions.

`VolumeWriter` is what the rest of dump relies on: a queue that is written first in,
first out, once each, with at most N requests not yet written, and that may be closed
only when it is empty.  `SlaveRing!ImplementsVolumeWriter` is the refinement.

### DumpVolumes, RestoreTape, DumpRestore: records, volumes, reading back

`DumpVolumes` is the master record by record.  `m` is the part of its memory that a
fork saves: the slots (`recs` for `req`, `count`, `tapea`, `firstrec`), `slp`, the
fields of `spcl` that matter (`c_type`, `c_count`, `c_addr`, `c_tapea`), `lastspclrec`,
and how far the passes have come.  `ckpt` is what the parent of the current volume
kept.  A block is confirmed when its result is read, at most N behind: this is the
promise of `VolumeWriter`, so the slaves are not there again.

* A record of data is put alone.  `dumpblock` may put several blocks of the disk with
  one entry of the request list; it splits them at the end of a buffer, so what reaches
  the tape is the same.
* `Items` is what the passes hand over: maps (`dumpmap`, whose loop runs up to the
  global `c_count`), then inodes with blocks and holes (`blksout`).  The contents of a
  record are its name: item and number.
* `FlushGood` ends a volume at its size limit at any block from `MinBlocks` on;
  `FlushEndOfTape` at a result "end of tape", or an error the operator takes for one.
  Up to `limits.dup` of the unconfirmed blocks are then on the old volume too.
* `Replayed`, `AfterRollforward`: the N buffers move up by one record for the volume
  header and are sent from the extra buffer, so that the slots keep their old contents.
* `Resume` is the child of `startnewtape`; `Rewrite` is the parent that forks again.
* A blocking factor of 1 (`-b 1`), in which the volume header alone fills a buffer and
  `flushtape` is entered from `startnewtape`, is outside the model (`Ntrec >= 2`).

`RestoreTape` is the reader as functions of the finished volumes: `ReadBack` follows
`tpblksread` and `getvol`'s rule for duplicates.  Volumes on which nothing was written are passed over.  `DumpRestore`
composes the two and states the properties.

### DumpMaps: which inodes are dumped

Pass I inode by inode (`MapFileIno` is `mapfileino`), then `mapdirs` bit by bit, with
the copy of a byte of `dumpdirmap` that it makes at every multiple of NBBY (`isdir`).
`SearchDir` and `SearchExcluded` are `searchdir` without and with `nodump`.  The initial
states are file systems: every tree of directories, files with one or more names,
which inodes changed, which are excluded (`-e`, or the nodump attribute, which
`mapfileino` turns into an exclusion) and which path is dumped, if not the whole.
`calls` counts the calls of `mapdirs`; the code has no such counter.  A
path is a dump of level 0, so everything counts as changed then.  `mapfilesindir`, the
walk below a path, is taken in the order of the numbers; `mapfileino` looks at one
inode only and does nothing for one it has seen, so the order does not matter.  The
file system stands still.

### DumpDates: dumpdates

Each dump is a process: `Start` takes the time, `Open`, `Create` and `ReadDates` are
`initdumptimes` and `getdumptime`, `PutLock`, `PutWrite`, `PutTruncate` are `putdumptime`:
lock, read again, change or add a line; write; cut the file off.  A dump may fail at any
time while it dumps and be killed between the writes.  Lines are of equal length, as
`DUMPOUTFMT` makes them unless a device name is longer than 32 characters.  `Bad` is
what `ftruncate` leaves when it has to lengthen the file.

### IncrementalRestore: restore -r, dump upon dump

The file system becomes any other between two dumps, and each dump is restored into
the same directory.  `fs` is the file system of the latest dump, `tape` what restore sees
of it; `w` holds the symbol table, the directory that is restored into, and the
complaints; `save` is the checkpoint file.

| `w.` | Code |
|---|---|
| `ent` | the entries: `e_name`, `e_parent`, `e_ino`, `e_type`, `e_flags` |
| `list` | the entries of an inode in the order of `e_links`, the one that `lookupino` finds first |
| `chain` | the inodes in each bucket of the table, by `e_next` |
| `gone` | `removelist` |
| `obj`, `dents` | the files and directories below the current one, and their names |
| `bad` | calls of the system that failed, and complaints (`panic`, `badentry`) |

| Action | Code |
|---|---|
| `FullDump`, `NextDump` | a dump, and the start of `-r` in `main` |
| `RemoveOldLeaves`, `FindUnrefLinks`, `RemoveOldNodes` | the functions of these names |
| `TreeScan` | one call of `nodeupdates` by `treescan`; `SameName`, `NewName`, `ChangeMode` are the groups of cases of its `switch` |
| `StartLeaves`, `NextLeaf`, `LeavesDone` | `createleaves`, file by file, with the checkpoint where a volume ends |
| `CreateLink` | one link in `createlinks` |
| `Finish` | `setdirmodes`, `checkrestore`, `dumpsymtable` |
| `Resume` | the process is gone; `-R` from the checkpoint |

* A name is a 1-tuple, a temporary name <<"RSTTMP", k, ino>>, as `gentempname` makes it.
  `Find` has `lookupname`'s way with a leaf in the middle of a path.  How the names of a
  directory are hashed does not matter, since `lookupname` searches all lists.
* The contents of a file are its inode number and the dump that last found it changed.
  `MustChange` is what the kernel gives a new ctime, at least; any other file may have been
  written too.  An excluded file is in the map of used inodes, but not on the tape
  (`HiddenIn`).
* The numbers of the first dump are in the order of the names, which loses nothing but
  renumberings; every later dump has any numbers.
* Files are regular.  Owners, modes, times, attributes, whiteouts and the
  inodes of which only the metadata is dumped (`-m`) are left out.
* restore goes on after a complaint, as with `-y`; `NoTrouble` says that there is none.
* A break in the middle of a file leaves it empty or removed (`HalfDone`).  The checkpoint is written in
  one step, and a break during the passes over the names is not followed: there is
  no checkpoint then.

### RemoteTape: a tape on another host

Client (`common/dumprmt.c`) and server (`rmt/rmt.c`), joined by the byte streams `c2s` and
`s2c`; a number, a message and a flag's name are one byte each, a device name is as many as
it has letters (`NameText`), and a letter is the command that rmt would take it for.

| Variable | Code |
|---|---|
| `client` | `rmtstate`, the call dump or restore is in, what is still to be sent or read |
| `server` | the process, its device (`tape`), the place on it |
| `dev` | what is on each device |
| `lastop`, `ops`, `cut`, `client.long` | history: what the server did last, how often, writes cut short, a name that did not fit two buffers |

`rmtcall`, `rmtwrite`, `rmtreply`, `ReadData` are the steps of the client, `Serve` is one turn of
the server's loop: the command byte, `getstring`, the switch, the answer.  Operations on the
device fail or fall short at will.  `Lose` drops the connection with any part of what is
under way.  A name that does not fit `SSIZE` leaves its rest in the stream, as `getstring`
does: up to `LongestName` it is taken for the mode, and the mode for a command, which ends rmt; of
a longer one, letters are left that rmt performs as commands, those included that dump and restore do
not send (`ServeOther`).  A write of `rmtwrite`, of its header (`ShortHeader`) or of its data, may take
less than it is given.  The properties speak of what comes before such a write and such a name
(`Orderly`); the model goes on behind them.  Encryption is left out, and that digits of a name may
be read as a mode.

### TapeRecords, ExtractFiles: the leaves of a dump, record by record

`TapeRecords` gives the records that dump writes for one leaf (`dumpino`, `dumponeblock`,
`blksout`, `dump_xattr`).  A record is `RecBytes` cells; a cell stands for one byte by where it
comes from, so that a byte in the wrong file or at the wrong offset is seen.

`ExtractFiles` is restore over these records: the loops of `createleaves` (`-r`) and
`compareleaves` (`-C`), `extractfile`, `comparefile`, `extractattr`, `skipxattr`, and under them
`getfile` record by record.  `pc` is where `getfile` is, `then` which caller it returns to, `g` its
variables (`curblk` as the length of `buf`, `size`, `last_write_was_hole`) and the file it fills
(`out`, `off`).  `findinode` after each file sets `curfile` from the next header, as in the
code, which is why callers save what they need (`leaf`).  A block of the tape that cannot be
read gives zeros and one message (`readtape`); the input may end at any block, which jumps
out of `getfile` (`EndOfInput`).

* `fssize`, `st_blksize` of the file system restored to, is `FsRecs` records; a record of a
  hole is on the tape as nothing.  The target of a link is read like data.
* `fill` takes bytes that were never read as `Junk`: the buffer's old contents.
* `-C` compares with a disk on which one leaf is missing or changed in one way.
* Left out: short reads in the middle of a tape, images of a dump inside the data that
  could be taken for headers, metadata of directories, ACLs.

### Directories: one file for all of them

`dumpdirino` and `convert_dir` cut the entries of a directory to blocks of dump;
restore's `extractdirs`, `putdir`, `putent`, `flushent` lay them one directory after the other in
one file in blocks of their own; `treescan`, `pathsearch`, `rst_opendir` with its readers,
`genliteraldir`, `setdirmodes` and `comparedirmodes` read it.  A file is a sequence of
cells of the alignment's size, an entry a header cell followed by `Mid`.

| Variable | Code |
|---|---|
| `w` | `df`, `dirbuf`, `dirloc`, `prev`, `seekpt` |
| `inotab`, `modefile` | the index by inode (`t_seekpt`, `t_size`), the modes file |
| `dirp` | the descriptor's place, `dd_loc`, `dd_size` and, by `win`, what `dd_buf` holds |
| `stack` | the frames of `treescan` with `bpt` |
| `listed` | the calls of `todo`: name, inode, type |

`dd_size` is not set by `opendirfile`'s `malloc`: `Fresh` is any outcome.  Damage is a lost header of
a directory or a lost record in it.  A path begins at the entry "." of the root; when that
entry is lost restore finds nothing by name, although it has scanned all
(`InodeOf`).  Left out: the old directory format (`dcvt`), the test of inode numbers
against `maxino`, the rules of `setdirmodes` for existing directories, `TSTINO` in a listing.

### SelectRestore: files by name, over volumes in any order

`-x` and `-i` from the end of the maps on: the list, `createfiles`, `getvol`, `createlinks`, again.
What restore is in the middle of is `todo`, a sequence of what is still to do, the innermost
call first.  A read that comes to the end of a volume puts `Getvol` before itself; the jump
out of `getfile` (`terminateinput`, `Jump`) drops everything up to the `end` of that file, as
`siglongjmp` does.

| Variable | Code |
|---|---|
| `r` | `volno`, `mt`, `tpblksread`, `spcl`, `curfile`, `gettingfile`, `volinfo` |
| `c` | `first`, `last`, `next`, `curvol` of `createfiles` |
| `chain` | the entries of each inode by `e_links`, with their NEW flags |
| `at`, `data` | which file a name is on the disk, the records in each file |
| `told`, `wanted`, `due`, `h` | history: messages, the list as the user sees it, what was asked for, volumes mounted and what the bounds count |

`getvol` is four actions: asked for (`getvol`), which volume (`Again`), can it be opened and is it
the one (`Open`, `Wrong`, `RightVolume`), and where to go on (`Continue`, `Jump`).  The operator
names at most `MaxAsk` volumes and then answers none; `MaxWrong` times there is another one
in the drive, or it cannot be opened.  `job` holds the volumes, the archive file, whether
restore was started with `-a`, and the dump's inodes.  Directories on the list are not
followed (see Directories); QFA, pipes, compressed volumes and read errors are left out.
A read while no tape is open would be an error in the code and is the end of the tape here; no
instance of `select` comes to one.

## Runs

Passing runs:

| Run | Instance | Shows |
|---|---|---|
| `ring_safety` | 3 slaves, 8 requests, the first 3 replayed or not, any faults | `WriteTurn`, `ReadTurn`: one slave at a time writes (reads), and the one whose turn it is; `SignalOrder`, the reason a single `sigsuspend` suffices; `ResultsMatch`: a result is that of the request in the slot; `SlotReuse`: no slot is refilled before the request its slave has is on the tape; `ReplayWindow`: at an end of tape those of the last N requests that `flushtape` built are in the slots in order, and none it built is missing; `VolumeComplete`: on a volume that is closed nothing is missing but what the operator gave up after a write error |
| `ring_refines` | 3 slaves, 6 requests, the first 3 replayed or not, small sockets | `ImplementsVolumeWriter`, with its liveness: what was sent is written; `VolumeEnds`: no wait for something that never comes |
| `vol` | two maps, 8 inodes with holes, blocks of 2, volumes from 5 blocks on: up to 4 that end at their size limit, with two rewrites at any error; or two of which the device ends the first, with 0..3 blocks beyond, and one rewrite | `RestoreReads`: what restore reads back is what was dumped; `EndMarked`: a trailer follows; `CountIsDistance`: the count in a volume's header leads to the next header |
| `maps` | all trees of 5 inodes in all numberings, files with up to two names, up to two excluded inodes, any set changed, any path, bytes of 2 bits | `ChangedDumped`: what changed is dumped, with the directories that lead to it; `NamesSaved`: every inode on the tape has a name there; `NothingExcluded`; `MapsTellTruth`: TS_BITS and TS_CLRI say what is so; `MapsSettle`: the loop over `mapdirs` ends, after at most one turn for each directory |
| `dates` | four dumps of two file systems and three levels, one without `-u`, with and without a file to begin with; they overlap, fail, are killed | `Registered`: one line for each file system and level, that of the latest dump; `ChainComplete`: a dump goes back only to a complete dump of a lower level |
| `inc` | a full and an incremental dump of every two file systems of 3 inodes, 2 names in a directory, 2 names of a file; any files rewritten; one inode taken over by an excluded file; one break and resume | `Restored`: at the end the directory is the file system that was dumped, names, types, contents and links; `TableMatches`: after every name the symbol table says what is in the directory; `NoTrouble`: no call fails, no complaint; `NothingLost`: at no moment is a file gone that is not on the tape |
| `rmt` | three calls, counts up to 2, names that fit one buffer, two, and none (the last call then), one loss of the connection, one write cut short | as long as no write is cut short and names fit two buffers, `Answered`: a call returns the answer to its own request, and nothing is left over; `Asked`: the server does nothing it was not asked for, and nothing twice; `CallEnds`: a call returns or the program ends |
| `files` | every pair, and some triples, of 12 shapes of leaves: holes at every place, blocks behind the end, continuation headers, both kinds of attributes, links, special files, metadata only; one unreadable block or a cut end; or one difference on the disk | `IntactRestored`: what can be read comes back byte by byte with its attributes; `WrongNamed`: a file that does not come back is named; `CompareTells`: a comparison names exactly what differs; `Ends` |
| `dirs` | three directories in three nestings, entries on and across blocks of either side, excluded inodes, lost headers and records | `Listed`: the scan finds each name once, and as what it is; `Found`: a path gives its inode; `Copied`: a literal copy and a listing are those of the directory; `OwnModes`: a directory gets its own mode, a comparison names the one that differs; `Ends` |
| `select` | three volumes, ended between files, in a file, behind its header; in order with `-a` (one of them with a repeated record), without, in any order of volumes that begin with a header (`Suitable`), and with an archive file; names of one inode, a name that is not on the tape; one wrong volume, no more volumes, a second extraction, a deleted name | `Listed`: the list is what was added less what was deleted; `Delivered`: what was asked for is there, whole, or there was a message; `NotMissed`: a file called missing begins on none of the volumes that were mounted; `Ends`: when the operator has no more volumes restore comes to its end |

Runs that find a violation, see [Disagreements](#disagreements): `inc_resume`, `files_hole`.

Bounds.  Three slaves is the number of `slave.h`; eight requests are more than two
rounds of the ring, replayed ones or not, after which the picture repeats but for the numbers
(the proofs need no bound).  In `vol` every volume is longer than the N blocks that may be
unconfirmed, and the items have headers, holes and data at every offset of a block;
four volumes give a first, two middle and a last one.  Two trees that differ only in
numbering are different instances in `maps`, since the order of the numbers is what
`mapdirs` goes by; five inodes leave room for two directories in one path with a
sibling, before and after each other, in one byte or in two.  In `inc` three
inodes give a directory in a directory with a file, swaps of two names, moves out of and into
a removed directory, and every reuse of a number; with three dumps of two inodes nothing more was found.
The table has a bucket for each of the four inodes.  With two in a bucket
(`HashSize = 2`) and no excluded files every property holds too.  In `dates` three levels
give a chain of two steps, and any two dumps may be at any two places.

In `rmt` three calls are enough for an answer to be taken by the call after the next.  Buffers of
six bytes stand for rmt's 64, names of 1, 7 and 14 letters for one that fits, one of up to 125 and a
longer one, of which `S`, `s` and `V` are left (`MCRemoteTape`).
In `files` a header describes two records, a block of restore's is two and a block of the tape
two records, so that each of the boundaries falls at every place of a file; a third leaf shows
what is left behind by two.  In `dirs` a block of restore's is two of dump's, entries
take one to three cells, and each directory has more than a block of entries in some
instance; one task after the scan is enough, since the scan leaves the descriptor wherever
it can be.  In `select` the middle one of three volumes has both neighbours; more than three
answers of the operator only repeat what was seen.

Fairness.  `SlaveRing`: the kernel schedules each process that can run, and the
operator answers; that the master goes on to fill the next request is not assumed.
`RemoteTape`: the client goes on in a call it is in, and the server serves what has arrived;
that a call is made is not assumed, and the connection need not be lost.  `ExtractFiles`,
`Directories`, `SelectRestore`: one process that goes on (`WF_vars(Next)`); in `SelectRestore` the
operator's answers are bounded, after which he answers none.
The other modules state safety only and assume none: `DumpMaps` bounds
the number of turns of its loop (`MapsSettle`) instead of saying that it ends.  A pass that stops for good
(`mpc = "ended"`, `AllEnded`, ...) stutters, so that TLC's check for deadlock is on
and finds a process that waits for nothing.  In `rmt`, `files`, `dirs`, `select` and `files_hole` the
program ends; there it is off, and `CallEnds` and `Ends` say that nothing else stops.

## Disagreements

Each of these runs checks one sentence that the repository says of the program, which
the code does not keep to.  `PROJECT.json` "findings" quotes them.

| Run | Property | In short |
|---|---|---|
| `inc_resume` | `Restored` | a restore broken off while it makes links splits a file with two names when it is resumed (`restore/restore.c:1130`) |
| `files_hole` | `IntactRestored` | a file from a file system with small blocks that ends in a part of a hole loses the end of the data before it (`restore/tape.c:1371`) |

The following come from the same models with other constants.  The passing runs stay clear of
them by named bounds; where constants are given, changing them in the run's `.cfg`
shows the violation.

Volumes:

* `vol`, `Limits <- SecondEnd`, `MinBlocks = 1`, `RestoreReads`: `rollforward` sends the requests
  moved up by one record from the extra buffer and does not store them; a second end of
  tape soon after the first replays what the slots held before (`dump/tape.c:651`).
  `ReplayWindow` leaves these requests out (`k >= replayed`); with all of `0 .. nsent - 1` in its
  place, `ring_safety` finds the one that is in no slot.
* `vol`, `Limits <- ThirdVolume`, `RestoreReads`: duplicates passed over are counted in `tpblksread`
  and never taken back; after duplicates on one volume the reader drops records of a later
  one (`restore/tape.c:689`; 665 says "skip over any blocks read already at the end of the
  previous volume").
* `select`, `Plans <- MidFilePlans`, `AnyVolume = TRUE`, `MaxWrong = 0`, `MaxDeletes = 0`, `NotMissed`: on a
  volume taken at random `getvol` skips the count of its header twice, in the branch at
  `restore/tape.c:680` and again at 704.  A volume that begins inside a file loses the
  headers within that many records behind it, and a file there is called "not found on tape".
* `select`, `Plans <- TwoVolumePlans`, `NotMissed`: the records read of the archive file count in
  `tpblksread` too, and that many records of the second volume are taken for duplicates.
* `select`, `AnyVolume = TRUE`: further ways to lose a file by an unusual choice of volumes: a volume
  taken at random that holds no header but its own asks for the next one inside `getvol`;
  with `-a`, mounting a volume again after "none", or for a second extraction, skips what was read
  of it before; naming the volume that is mounted and read to its end; "none" while a volume
  ends inside a map asks again for ever.
* A name of a file that was called missing, when another name of that file is asked for alone
  later, is not extracted: the first entry of the chain has no NEW (`restore/utilities.c:333`); all
  that is said is "cannot create hard link".

Files:

* `files`, `Plans <- StalePlans`, `IntactRestored`: for a fifo, socket or device the metadata flag is read
  after `skipfile`, in the header of what comes next (`restore/tape.c:935`); before a file of
  which only the metadata was dumped, the fifo is not made.
* `files`, `CutAnywhere = TRUE`, `Ends`: an input that ends inside attributes or maps makes `skipxattr`
  and `skipmaps` go round for ever, and `readxattr` use the inode of no file.
* `files`, `Plans <- BothAttrs`, `CompareTells`: with attributes both in the inode and in a block `-C` reports
  that their number has changed.
* When the header of a leaf is lost, the attributes behind it go to the leaf before, or, if that is
  gone, their contents become the file's (`HeaderLost` in `WrongNamed`).

Directories:

* `dirs`, `Plans <- EarlyPlans`, `Listed`: `rst_seekdir` reads the block of an offset relative to the directory,
  but leaves the seek out when the file stands there already, in blocks that were
  counted from elsewhere: entries are lost after a subdirectory that lies before its parent
  in the file (`restore/dirs.c:539`; 530-533 says "Only values returned by rst_telldir
  should be passed").
* `dirs`, `Plans <- OneBlock`, `CopyLast = FALSE`, `MaxTasks = 2`, `Found`: after `genliteraldir` the place of the descriptor
  and `dd_size` do not fit, and a search stops at once.

Incremental restore:

* `inc`, `MaxHidden = 0`, `LinkedReuse = TRUE`, `MaxCrashes = 0`, `NoTrouble`: a directory gets the inode number and a name
  of a file with two names: `nodeupdates` removes some of the links only and `addentry`
  panics (`restore/restore.c:472`).
* `inc`, `HashSize = 2`, `MaxCrashes = 0`, `TableMatches`: `findunreflinks` puts a directory on the removelist while its
  `e_next` is still in use for a bucket: other inodes are lost from the table
  (`restore/restore.c:625`).

The dump:

* A write error seen in `trewind`, answered "start the next tape", loses the block
  (`dump/tape.c:522`, which says "fixme: punt for now"), and so does one of the first replayed request
  in `rollforward` (712), after which the dump goes on on the same tape; `VolumeComplete` excepts
  both by `skipped`.
* A volume that ends inside a map of several records: the loop of `dumpmap` goes by the
  global `c_count`, which `startnewtape` has overwritten (`dump/traverse.c:1309`); the rest of the map is
  left out.  Maps of six records and `MinBlocks = 2` show it.
* A root directory with the nodump attribute is not dumped (`dump/traverse.c:609`), although
  `mapfiles` puts it into `dumpinomap` "so ensure that it always is dumped": `RootNodump = TRUE`.
* `EndMarked` fails on a dump with an end of tape (`EndOfTape` with three volumes): the number of
  trailers (`dump/main.c:1008`) does not count the header that `rollforward` inserts, so
  the only trailer may stay in the buffer.  After two ends of tape
  (`Ntrec = 3`, `eots |-> 2`, `OneMore`) the last data may stay there too.
* `CountIsDistance` fails on volumes shorter than an inode's data (`MinBlocks = 2`): until
  the next header is written, `flushtape` computes counts from the `spcl` of the volume header.
* A directory in which only an excluded directory is left is dropped, or kept, depending on
  which has the smaller inode number: `mapdirs` reports no change for the excluded one
  (`dump/traverse.c:606`).
* A file with a second name in an excluded directory is not dumped, but its other name
  is saved (`dump/traverse.c:678`).
* Without `dumpdates`, `fopen("w")` in `initdumptimes` can truncate a file that another
  dump has made and entered itself into (`dump/itime.c:101`); `Registered` speaks of the
  entries since the file was last created (`made`).
* The test in `getdumptime` that lets a level 0 dump without `-u` leave `dumpdates` unread
  compares the level with a string cleared a line before (`dump/itime.c:171`); the
  model reads the file, as the code does.

* When the flush of the last trailer reaches the size limit, `startnewtape` asks for one more volume
  that stays empty (`dump/tape.c:487`); the reader passes over such volumes.
* `readdumptimes` stops at the first line it cannot parse and `putdumptime` writes back what was
  read: a damaged line drops all that follow it (`dump/itime.c:281`).

`vol` stays clear of its cases by volumes longer than an item and than the ring, maps of one
record, and one end of tape on a dump of two volumes; `inc` by `LinkedReuse`, `HashSize` and
`BreakInLinks`; `files` by blocks as large as restore's, `Stale` and `CutAnywhere`; `dirs` by the sizes of
its entries and `CopyLast`; `select` by `Suitable`, the places where the volumes of its plans end,
and one extraction with `-a`.

The remote tape:

* `rmtopen` sends a device name of up to MAXPATHLEN (`common/dumprmt.c:291`), and `getstring` takes no more
  than 63 bytes, once for the name and once for the mode (`rmt/rmt.c:562`).  Of a name of 127
  bytes or more letters are left, which rmt performs as commands: an `S` has an answer of its own,
  which the next call takes for its own.  `Asked` with `cut = 0` for `Orderly` shows it in `rmt`.

## Proofs

The theorems hold for every value of the constants that satisfies the assumptions the
modules name: any number of slaves, requests, dumps, inodes, calls, and any size of
buffers and devices.  No theorem rests on the bounds of a run.  Each inductive
invariant was checked with TLC as an invariant before it was proved.

| Module | Theorems | Assumptions |
|---|---|---|
| `SlaveRingTurns_proofs` | `TypeCorrect`, `WritesInTurn`, `ReadsInTurn`, `SignalsInOrder` | `N >= 2`, any number of requests, sockets that hold a request or not |
| `SlaveRingSlots_proofs` | `ResultsBelong`, `SlotsReusedLate`, `VolumesComplete`, `ReplayPossible`, `RingIsVolumeWriter` | the same |
| `DumpRestore_proofs` | `ReadsBack`, `EndsMarked` | `Ntrec >= 2`, any `N`; `OneEnd` and `MapsFirst` (below); for `EndsMarked`, that no device ends a volume |
| `DumpDates_proofs` | `ChainsComplete`, `DumpsRegistered` | finitely many dumps, `Nobody` (who holds no lock) is none of them |
| `DumpMaps_proofs` | `ChangesDumped`, `NothingExcludedDumped`, `NamesFound`, `MapsTrue`, `MapsSettled` | the numbers of inodes and of bits in a byte; for `MapsTrue`, that the root does not have the nodump attribute (see [Disagreements](#disagreements)) |
| `RemoteTape_proofs` | `AnswersBelong`, `NothingUnasked` | a line of open flags fits the server's buffer (`SSIZE > 5`; it is 64); any names, but the properties speak of those that fit two of them (125 letters) |
| `SelectRestore_proofs` | `ListKept` | a plan's names have inodes from the root's up to the last one the maps of its dump can hold (`PlansAssumption`) |

`NaturalNumbers` has what the others need of Min and Max: a nonempty set of numbers has a
least element, and a greatest one if it is bounded.

### The ring

`WriteTurn` is far from inductive: that the slave that writes holds the right request
depends on where the turn came from, a round earlier.  `TurnInv` says it from both
sides:

* `JobInv`: the request in a slave's hands, or in its socket, follows from `nsent` and
  from its distance to the slot whose turn it is in the master (`Upcoming`, `LastSent`);
* `RoundInv`: `ToRead(s)` and `ToWrite(s)`, what a slave reads and writes next, are
  within one round of `nread` and `Len(tape)`; as they differ between slaves, at most
  one slave is next;
* `ReadInv`: the turn to read (caught, pending or in use) is held only by the slave that
  reads next, and once;
* `WriteInv`: the same for the turn to write, and that it is never lost: the slave
  that writes next holds it, unless the one before has not sent the signal yet.  This
  half is needed for `SignalOrder`: a slave waiting to write, for which SIGUSR1 is
  pending, must already have SIGUSR2;
* `OrderInv`: the two signals' order; with it a single `sigsuspend` wakes up for the
  right one, and `Wake1`, `Wake2` are steps of the turn;
* `BusyInv`: a slave is busy only with a request whose result is outstanding, so a
  socket never holds two requests.

`TurnInit` shows it of the initial states, one lemma per action that a step preserves
it (`TurnStep`), and the theorems follow with `TypeCorrect`'s invariant.

`SlotInv` adds the master's side, which `ResultsMatch`, `SlotReuse`, `VolumeComplete` and
`ReplayWindow` are about:

* `GivenInv`: `given` of a slot is `LastSent` of it, the last request the ring gave
  to it; `MemInv`: that request is what the slot's buffer holds, unless it was replayed; `TapeInv`: the
  tape holds the requests in order;
* `SentInv`, `VerdictInv`, `LoopInv`: when a result is outstanding, why the volume ends, and
  that the loops of `trewind` over the slots leave no result behind;
* `SettledInv`: a request whose result was read is on the tape, and unless the volume is
  given up is there in full, or the operator gave it up, or is being asked;
* `FailedInv`: the operator is asked, and gives up, only requests whose write failed with an error;
* `WindowInv`: what is not on the tape is the last request of some slot, or was replayed and given up.

`RingIsVolumeWriter` is the safety part of the refinement, with the mapping of
`SlaveRing!ImplementsVolumeWriter`: initial states are initial states of `VolumeWriter`
(`Safety` there), the write of a slave is its write of the next request, a request
the master sends is queued behind at most N - 1 others, and it closes only when
none is queued; every other step leaves what `VolumeWriter` sees alone.  That a slave writes the request
at the head of the queue is `WriteTurn`; that there is room in the queue is `SettledInv`.

### Volumes read back

`ReadsBack` says that restore gets from the finished volumes what the passes handed over, every
header and block once and in order, whatever `N`, the blocking factor, the items and the
moments are at which volumes end or are begun again.  `EndsMarked` says that the end of tape header
follows.  Their hypotheses are what the code needs:

* `MapsFirst`: maps come first, have no holes and fit the first volume, as `dumpmap` goes by a
  `c_count` that a volume header overwrites;
* `OneEnd`: a volume confirms at least one block before it ends; the device ends at most one volume, and
  if blocks of that one are on the next volume too, the dump has no more than these two.  Behind these limits lies
  the counting of duplicates in `getvol` (`ThirdVolume`, `SecondEnd` under
  [Disagreements](#disagreements)).

The constants of `vol` satisfy both.  For `EndMarked` on a dump with an end of tape there is no theorem:
the number of trailers `BeginTrailer` counts out may be one in a buffer that is empty, and is then never flushed
when volumes are small; `vol` checks it for its two volumes.

At the end of a dump `RestoreReads` is about all of its volumes, but in the middle nothing is finished: blocks are
in the slots, on a volume but not confirmed, or on two volumes.  `ReadInv` says what restore would read if
the dump stopped where the master is (`Out`, from what the earlier volumes gave, `Before`, and
what this one holds on the tape, in its slots and in the buffer):

* `OutInv`: that is a beginning of what is to be dumped, and it ends with the record the master has just put
  (`Passed`), so that nothing is missing behind it;
* `PlaceInv`: `firstrec` of the slot it fills is where the slot's block comes in what restore
  counts (`tpblksread`), on every volume but the last one the limits allow;
* `FillInv`: `tapea` tells how full the buffer is, with one record more for an end of tape.  The
  number of trailers is computed from it;
* `SlotInv`: each slot still holds the block the ring gave it last, although `rollforward`
  has moved them (`Ahead`, `Holds`).  So after an end of tape the N slots are the last N blocks sent;
* `MapInv`: while a map is dumped `c_count` is its own length.  Without it `ItemDone` would cut the map;
* `TrailInv`: behind the last item there is an end of tape header, or one is about to be put, and what is
  in the buffer reaches the tape: the trailers that are left fill it, or all is written;
* `Resumable`: what the parent of the volume kept (`ckpt`) satisfies the same with the volumes before
  it, so that a child forked again after an error starts from there (`StartedInv`);
* `Written`, `Whole`: a volume that is finished begins with its header, and when the dump is done the volumes
  give all of it.

The hard step is the end of a volume by its device (`EndOfTapeReads`).  The dump goes on from the
slot behind the last confirmed block; the first blocks of the next volume may be on the old one too,
and `getvol` passes over as many records as `tpblksread` is ahead of `c_firstrec`.  The proof is that the
blocks that rollforward sends again, with the records that the header has pushed over, are the ones that were not confirmed, so that
what is passed over is exactly what was read before.

### dumpdates

`ChainComplete` needs little: only lines that a dump has written are in the file or in
the memory of another dump that is about to write it (`OriginInv`), and between its
locking and its truncating a dump is alone (`LockInv`).  `Registered` needs more, since `putdumptime`
writes over the old lines before it cuts the file: what a dump is about to write keeps the
lines of all other keys that the file has by now, has one line for each key, and is no
shorter than the file (`WriteInv`); what it is about to cut is what it has written, unless another dump has
created the file anew meanwhile (`TruncateInv`).  A kill between two steps then leaves a file that is
as good as before.

### The maps

`mapdirs` walks a bit map while it sets and clears bits of it.  `MapsInv` speaks of the
directories that are *marked*: on `dumpdirmap`, but not on `usedinomap`, which is how
`searchdir` hands an exclusion down the tree.

* `UsedInv`: only what lies at or below an excluded directory is marked or taken off
  `usedinomap`;
* `DumpInv`: no changed inode outside of these gets lost, and a directory that is dumped
  is on `dumpdirmap`;
* `PendingInv`: whatever below an exclusion has not been taken out yet lies below a marked
  directory.  So when no directory is marked nothing is left to be taken out;
* `NameInv`: what is to stay has a name in a directory that is to stay;
* `ByteInv`: the bits still to be looked at in the copy of a byte (`isdir`) are set in the map
  as well, and a pass that has not asked for another one will still come to every
  marked directory.  So the last pass leaves none.

`SettleInv` bounds the calls of `mapdirs`.  A directory is *unsettled* while it lies below a
marked one, or, outside of exclusions, while it is on `dumpdirmap` and not on `dumpinomap`.
No step unsettles any, and a pass settles at least one: the marked directory that has no
marked one above it, or, when nothing is marked, the unsettled directory that has none
below it, which searchdir then enters or drops.  `Measured` says so in the middle of a pass
(the pass has settled one, or will still come to such a directory and see it in its byte),
so that calls and unsettled directories together never exceed `Rounds`, one more than at the
start of a pass.  That there is a highest and a lowest one rests on `Acyclic`: each directory
is in one directory, and all can be reached from the root.

The lemmas on `Reach` (least set that has the inode and is closed under the entries of its
directories) replace an induction over paths.

### The remote tape

Nothing but the place in the stream says to which call a byte belongs, so `RemoteInv` says what
is in the streams at each place of the client:

* `RequestInv`: the server is behind by at most one call; then its stream has a part, from
  the beginning, of that call's request (`Begins`), and the other stream is empty.  When it has served the
  latest call, its stream is empty, or has the rest of a request whose device name was too long;
* `ReplyInv`: a client that waits gets a part, from the beginning, of the answer to its
  call, and one whose call has returned has read all of it and has what the server answered;
* `LastInv`: the operation performed last is that of the latest call, with its
  arguments and data, once it has been served.

That a step of the server keeps this is `AllUnderstood`: from a part of a request the
server takes either nothing, because its two `getstring`s are not done, or the command, arguments and
data that the client meant and all its bytes.  It is proved byte by byte for each kind of request (`OpenIs`,
`DataIs`, `MoveIs`, `PlainIs`).  For a device name that does not fit the buffer,
`getstring` returns early; then what remains in the stream begins with a number, which is no
command and ends rmt (`Stuck`).  This is where the length of names comes in: one longer than
two buffers leaves letters, which may be commands.

A write that was cut short and a name that was longer than two buffers end all of this
(`~Orderly`, which no step takes back: `StaysLong`); the theorems, as the properties, speak of
what comes before them.

### The list of names

`Listed` speaks of the shell only; in between, an extraction takes the requests off one by one,
with ends of volumes and jumps out of files anywhere.  `ListInv` says what has to be true then:

* `Chains`: the chain of an inode has names of that inode, each once.  Without it `freeentry`
  could take off one entry and leave another of the same name;
* `Progress`: `todo` ends in one of a few ways, which tell how far the extraction is
  (`Framed`: in the shell, after `createfiles`, at one of its steps, in a file), and all before that is
  reading, which neither marks nor unmarks a name.  `createfiles`
  takes the request off the first name of an inode, and from its second step on every such request lies between
  `first` and `last` (`InBounds`); it ends only when there is none between these, so none at all,
  and `createlinks` takes the requests off the other names;
* `Jumps`: while a file is read (`gettingfile`), its `end` is in `todo`, so a jump
  drops calls of reading and never a step of `createfiles`.

An action of reading puts reading in the place of the first call (`Reading`); one of `createfiles` puts
the next step there, perhaps behind reading (`Onward`).  These lemmas on sequences leave one
obligation per action that is about the list.

## Limits

Only model-checked, and why:

* Liveness under fairness is beyond the proof system: `VolumeEnds` and the fairness part of
  the refinement (`SlaveRing`), `CallEnds` (`RemoteTape`), `Ends` (`ExtractFiles`, `Directories`,
  `SelectRestore`).
* `Delivered` and `NotMissed` of `SelectRestore`: what is in a file depends on the plan's volumes, item
  by item; the frame of `todo` that `ListKept` rests on would be the first part of such a proof.
* `CountIsDistance` (`DumpRestore`), `EndMarked` when a device ended a volume, and the properties of
  `IncrementalRestore`, `ExtractFiles` and `Directories`: they hold for the limits of volumes,
  the plans and the bounds their runs name, since the code does not keep to them everywhere
  (see [Disagreements](#disagreements)); a theorem would have to name the same limits, as
  `ReadsBack` does.

Not modelled, and why:

* compression, encryption, the encoding of extended attributes, the compatibility library:
  conversions of data without control or shared state;
* the operator's dialogue of dump and `timeest`: `query` is an arbitrary answer; the rest is output;
* command line parsing, size estimates, the table of contents, archive and QFA files of dump:
  side outputs; a rewritten volume's stale entries are listed as a hazard;
* a file system that changes during the dump: dump does not promise anything then;
* restore: QFA, volumes on a pipe and compressed ones, old formats and byte swapping, `-R` on a
  damaged tape, whiteouts, the reading and globbing of interactive commands.

## Plan

1. *Built*: SlaveRing and VolumeWriter; DumpVolumes, RestoreTape, DumpRestore; DumpMaps;
   DumpDates; proofs of types and turns.
2. *Built*: IncrementalRestore with `-R`; RemoteTape; TapeRecords and ExtractFiles; Directories;
   SelectRestore.
3. Left in IncrementalRestore: inodes of which only the metadata is dumped, other types of
   leaves, a break while the checkpoint is written.
4. SelectRestore with directories on the list (`treescan` over `addfile` and `deletefile`), and its
   volumes taken from DumpVolumes instead of plans.
5. DumpVolumes with `Ntrec = 1`; a changing file system in DumpMaps.
6. *Built*: `SlaveRingSlots_proofs` with the safety part of the refinement, `DumpDates_proofs`,
   `DumpMaps_proofs`, `RemoteTape_proofs`, `SelectRestore_proofs`, `DumpRestore_proofs`.
7. Proofs that are left, in this order: `CountIsDistance` for volumes longer than an item, from
   `ReadInv` and the counts of the slots; `NotMissed` of SelectRestore, from `ListInv`.
