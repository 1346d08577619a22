# GNU tar: specifications and proofs

TLA+ models of the program under `src/src` (GNU tar 1.16, packaged for
Android), TLC configurations that check them on small instances, and proofs,
checked by TLAPS, for all values of their constants. Line numbers are those of
the files under `src/src`.

## 1. The system

tar is one sequential process that moves 512-byte blocks between files and an
archive. What makes it hard is not concurrency inside it but what happens
*between* its steps: devices that fill up or stop short, archives that end too
early, operators who mount the wrong tape, files that change while they are
read, and a good deal of state kept in globals between one member and the next.

| part | state it keeps | operations | how it interacts |
|---|---|---|---|
| record buffer and volumes (`buffer.c`) | two record buffers, `current_block`, `record_end`, `hit_eof`, `access_mode`, `records_read/written`, volume numbers, `save_*` and `real_s_*` | `find_next_block`, `set_next_block_after`, `flush_archive`, `flush_read/write` (simple and multi-volume), `new_volume`, `try_new_volume`, labels, `reset_eof`, `backspace_output`, `close_archive` | every other part gets its blocks here; the `flush_*` function pointers are replaced for multi-volume archives |
| creation (`create.c`) | the hard-link table, `size_left` | `create_archive`, `dump_file0`, `dump_regular_file`, `dump_dir0`, headers, `write_eot` | stores blocks; tells `mv_begin`/`mv_size_left` how much of a member is left |
| deletion (`delete.c`) | `new_record`, `new_blocks`, `records_skipped`, counts of blocks to skip and keep | `delete_archive_members`, `write_record`, `move_archive` | reads and rewrites the same file, through one descriptor |
| append, update, concatenate (`update.c`) | `time_to_start_writing`, `output_start` | `update_archive`, `append_file` | turns the reader into a writer in the middle of a record |
| reading (`list.c`) | `current_header`, `current_stat_info`, `recent_long_*` | `read_and`, `read_header_primitive`, `skip_file`, `decode_header`, `from_header` | calls back extraction, listing or comparison for each member |
| extended headers (`xheader.c`) | `extended_header`, keyword lists | decode, store, read | read by `list.c`, written by `create.c` and `delete.c` |
| extraction (`extract.c`) | `delayed_set_stat_head`, `delayed_link_head` | `extract_archive` and one function per type, `extract_finish` | changes the file system; directory status and links wait for later members |
| incremental dumps (`incremen.c`) | the table of directories | scan, dumpdirs, renames, purge, snapshot file | called by creation and extraction |
| sparse files (`sparse.c`) | the sparse map | scan, dump, extract per format | called by creation, extraction, comparison |
| names (`names.c`) | the name list with `found_count` | match, scan, collect | all subcommands |
| comparison (`compare.c`) | none of its own | diff functions | called back by reading; `-W` |
| compression children (`system.c`) | processes and pipes | open for (un)compress | stand between the buffer and the archive |
| backups, directories (`misc.c`) | the last backup, `chdir` table | backup, undo, `chdir_do` | extraction, names |
| options (`tar.c`), strings (`utf8.c`, `transform.c`, `exclude.c`, `mangle.c`) | options | parsing | their results are constants here |
| remote tapes (`gnu/rtapelib.c`), gnulib, gzip/lz4/lzop | | | external or vendored |

What would make each of them correct: *writing* - the volumes carry one
well-formed archive, whatever the record boundaries; *reading* - the members
delivered are those that were written, whatever volumes are mounted; *deletion
and append* - what is not concerned stays as it is, at every moment;
*extraction* - at the end every directory has the status of its member and
every link its target; *incremental* - a restore of the dumps gives the last
state; *sparse, headers, numbers* - decoding inverts encoding; *names* - every
name is matched as often as it should be; *children* - nothing waits for ever.

## 2. The modules

| module | models |
|---|---|
| `TarBlocks` | blocks: kind, member, size and offset a header records |
| `VolumeWriter`, `VolumeWriterProps` | `create_archive`, `dump_regular_file`, `write_eot` over `flush_archive`, `_gnu_flush_write`, `simple_flush_write` |
| `TarArchive` | abstract: what a tar archive is, as a machine that only appends; `VolumeWriterProps` has the refinement |
| `VolumeReader` | `read_and`, `extract_file`, `skip_file` over `_gnu_flush_read` and `try_new_volume`; the operator |
| `MultiVolume`, `MCMultiVolume` | a writer and then a reader, composed over the volumes |
| `ArchiveFile` | an archive opened for update: file, descriptor, record buffer |
| `DeleteMembers`, `DeleteMembersProps`, `MCDeleteMembers` | `--delete`, in place and as a filter |
| `UpdateArchive`, `UpdateArchiveProps`, `MCUpdateArchive` | `--append`, `--update`, `--concatenate` |
| `ExtractArchive`, `ExtractArchiveProps`, `MCExtractArchive` | `--extract` on a file system: members, recovery, `--backup`, the delayed status of directories, the delayed links |
| `DumpFiles`, `DumpFilesProps`, `MCDumpFiles` | `--create` of files with links, beside other processes: `dump_file0`, the table of hard links, `--remove-files`, `--check-links`, `exit_status` |
| `FileTree` | a tree of directories and files; renaming, removing and replacing in it |
| `IncrementalDump`, `IncrementalDumpProps`, `MCIncrementalDump` | levels of an incremental dump, with changes before and during each, and the restoration of all archives |
| `HeaderNumbers` | `to_chars` and `from_header` for octal and base 256, with their ranges |
| `SparseFile`, `SparseFileProps`, `MCSparseFile` | a sparse file: scan, dump in three formats, and extraction, skipping or comparison |
| `PaxHeaders`, `PaxHeadersProps`, `MCPaxHeaders` | extended headers: what `create.c` stores, `xheader.c` writes and reads under the options of `--pax-option`, and `buffer.c` puts at the beginning of a volume of a posix archive; a writer and then a reader |
| `CompressPipes`, `CompressPipesProps` | tar, its child and the compressor on their pipes |
| `VolumeWriterProofs`, `MultiVolumeProofs`, `ArchiveFileProofs`, `DeleteMembersProofs`, `UpdateArchiveProofs`, `ExtractArchiveProofs`, `DumpFilesProofs`, `CompressPipesProofs` | the proofs |

### Correspondence

*Blocks.* Sizes are counted in blocks. A header carries the member's name, its
size, and, where the code stores one, an offset: of a continuation, the volume
number of a label, the time of a member for `--update`. A payload block
says which block of which member it is, so that a lost, doubled or
misplaced block shows.

*The record buffer.* `cur` is `current_block - record_start` and `end` is
`record_end - record_start`. `find_next_block` is idempotent while the record
has room, so an action that stores or takes a block requires `cur < end` (or
`HasRoom`), and the only action enabled when there is none is the flush; `pc`
is the caller.

*Writing volumes.* `volumes` is a sequence of sequences of blocks, the last one
mounted. A write takes a whole record, or falls short: then
`_gnu_flush_write` runs as a sequence of actions (`ChangeVolume`,
`AddVolumeLabel`, `AddMultiVolumeHeader`, `CopyChunk`, `VolumeChanged`), each
of which may flush again - the recursion of the code. The device is
nondeterministic: after `MinRecords` records it may refuse any record, or, with
`Partial`, take some of its blocks.

*Reading volumes.* `TryNewVolume` mounts a volume (any one, while `mistakes`
is below `MaxMistakes`), reads its label and continuation header and compares
them with what `mv_begin` and `multi_volume_sync` have kept.

*Deletion and update.* `fpos` is the position of the one descriptor, moved by
reads, by writes and by seeks. `records_read`, `records_written` and
`records_skipped` are the code's counters, and where a record goes is computed
from them exactly as `write_record` does. In `--delete`, `extended_header` and
`long_name` keep the header that was last read, as the globals do.

*Extraction.* A path is a sequence of names and the file system maps every path
to an inode. `ino` is fresh for each inode that is made: tar tells inodes apart
by device, number and time of change, so a number that is used again does not
deceive it. `from` and `mtime` say which member the contents and the
modification time come from (0: none, and "now"); of the mode the write
permission of the owner is kept, as it decides which later calls fail. Creating or
removing a name sets the time of its directory to "now" - this is what makes the
order of `set_stat` matter. The two lists are sequences with the head first, as
in the C code. `pc` follows `extract_archive`: `fix`
(`apply_nonancestor_delayed_set_stat`), `create` (the extractor of the type and
`maybe_recoverable`, until it succeeds or gives up), and at the end `finish`,
`links`, `fixlast` for the three calls of `extract_finish`. The data of a member
are not modelled here; `VolumeReader` and `SparseFile` deliver them. With
`--backup`, `backed_up` is the pair `before_backup_name`, `after_backup_name`
that `maybe_backup_file` leaves and `undo_last_backup` uses.

*Creation.* `todo` is the stack of what `create_archive` and `dump_dir` have
still to do: names to dump, and directories to leave (their `--remove-files`). `pc`
follows `dump_file0`: the first `stat`, `open`, the data, the second `stat`
(`check`), the table of links, the header, and the end (`stored`). `link_table`
is the hash table; an entry is found by inode number only, as in the code. Other
processes write, remove, create, replace and link plain files between any two of
these steps. `history` is not read by any action of tar.

*Incremental dumps.* Time is the number of dumps begun, and a file's ctime is the
number of the dump before it changed. `dirs` is `directory_table`, `meta` the
table by inode number, `snapshot` the file. The first pass (`collect_and_sort_names`,
`procdir`) makes the dumpdirs, `append_incremental_renames` adds the renames to
the first of them, the second pass dumps. Both directory tables are hashed
in the code: wherever it goes through one, the model takes the entries in any
order. Inode numbers are reused.

*Sparse files.* A file is a sequence of bytes where 0 is a byte of a hole. The
dump and the reader are one process each that run after each other; the file
may be written, cut or extended once, at any step of the dump, or after it. The
numbers of maps and headers go through `to_chars` and `from_header`
(`HeaderNumbers`) with fields of two characters, so that sizes and offsets do
meet the limits of octal and base 256.

*Extended headers.* Values are numbers; those in `Oversized` do not fit the
field of a ustar header, and an access time has no field. Four keywords stand for
all: `path` (stored before the header's block is there), `size` (which says
where the next header is), `uid` and `atime`. A record of a header takes the
`PerBlock`-th part of a block, so that a header has one to three blocks and a record of
the archive can end in any of them. `extended` is `extended_header` while
records are stored, `unwritten` while `xheader_write` copies it, `buffer` when it
was read; `list` is `global_header_override_list`. `ChangeVolume` is the whole
of `_gnu_flush_write` after a write that failed: it destroys what was stored, and
what `xheader_write` still copies may be anything from then on (`Freed`). `of`, the member
a block belongs to, is not read by tar. `Promised` is a definition of the
values of a member that looks at the files and the options only.

*Compression.* One `pc` for each of tar, its child (which reblocks the output, or
feeds the input) and the compressor; a pipe has a number of units in it, and
readers and writers that still hold its ends. A write blocks when the pipe is
full, a read when it is empty and somebody may still write; a write without
readers kills, a read without writers is the end. The compressor is external: it
reads and writes in any order, and makes any amount of output up to
`MaxOutput`.

## 3. What is checked

| run | model and bounds | properties |
|---|---|---|
| `multivolume` | a writer with records of 3 blocks and two members, on one volume or up to four, and a reader with blocking factor 1 or 3. Three groups of settings: members of 0 to 10 blocks on volumes that take whole records, two or more, where the operator mounts up to two wrong volumes; labelled volumes that end anywhere, even before their first block; files that shrink, and reads that fail | `WellFormedArchive` (the volumes implement `TarArchive`), `MembersWritten`, `ContinuationMatches`, `MembersIntact`, `CompleteArchiveRead`, `ReadsBack`, `NextVolumeAccepted`, `ExtractionEnds` |
| `delete` | every archive of up to three members of 0, 1 or 4 blocks, with long names, with pax headers on all members, or with blocks that are no member; in place and as a filter, there also with the last 1 to 5 blocks cut off, and with `--occurrence=2` | `OutputIsPrefix`, `DeletesExactly`, `WritesBehindReads`, `UnreadIntact`, `SkippedIntact`, `NeverAborts`, `Termination`, `TypeOK` |
| `update` | `--append`, `--update`, `--concatenate` to archives with header extensions, with older and newer copies of the files, and to archives that stop anywhere | `OldMembersIntact`, `AppendsExactly`, `AddedIsReachable`, `Termination` |
| `extract` | all archives of two members out of 15, and walks of up to seven members with the directories first or last; an empty tree, an old one and one with a read-only directory; seven settings of the options, two of them with `--backup` | `DirectoriesRestored`, `DelayedOrder`, `OldFilesKept`, `SuccessfulExtraction`, `TypeOK` |
| `incremental` | three levels over two trees of two directories and two files; two changes (writing, removing, renaming, exchanging, replacing), spread over the times before and during the dumps in five ways | `RestoresTree`, `EasyRestored`, `RenamesEnd` |
| `sparse` | 16 files of runs of holes and data, up to 34 bytes in blocks of 4; three formats; extraction to a file and to a pipe, skipping, comparison; one change of the file, or an archive that is cut off; a map of version 1.0 may be refused for an old `errno` | `Restored`, `ComparisonSees`, `NextMemberFound`, `SparseEnds` |
| `dump` | five names for three inodes, one with several links, of every type; six lists of arguments, some with a name twice; three formats; names and times that fit a header or do not; one unreadable file; two changes by other processes | `CompleteWhenSuccessful`, `NothingLost`, `WarnsRightly` |
| `compress` | both directions, with the archive opened by the compressor itself (a file) or by a child that reblocks; records and pipes of 3 units, 0 to 7 units of data; seven kinds of failure at any moment, the opening of the archive by the child among them | `Reported`, `EndsWell`, `AllEnd` |
| `pax` | records of 6 blocks, two records of a header in a block. Two members with values that fit or do not, under 45 settings of the options when they are dumped and 40 when they are read; the same asked for by name; three members of 0 to 17 blocks, with and without a label and an override, on three volumes of which the first ends after two or three records and the second after four | `DeliveredAsPromised`, `VolumesFit` |

Three runs find a disagreement between what the program says of itself and what
it does; each is a finding in `PROJECT.json` with the line quoted there:

| run | what happens |
|---|---|
| `append_short_record` | the last record is short; tar seeks back a whole one, over members that should stay |
| `extract_backup` | a directory that is there already undoes the backup of the member before it: the old file comes back over the extracted one |
| `dump_aborts` | two links to a file whose header cannot be made: the assertion of `file_count_links` fails |

### What the passing runs stay clear of

They do so in their constants or in the hypotheses of their properties, because
the code does not do it. These are the places to look at first when the code
is changed.

Volumes, `--delete`, `--append`:

* If a volume may end in its first record, the label and the continuation header
  may push the moved blocks out of the record that `multi_volume_sync`
  describes, and the last block of NULs may stay in the buffer. Members are not
  lost if every volume but the last took a record (`MembersWritten`); otherwise the two
  flushes of `close_archive` (buffer.c:835-837) may both be spent on volume changes, and with a blocking
  factor of 4 or more members can stay in the record. `ContinuationMatches` is stated for volumes
  that take what begins them and a record more (`WholeRecords`: two records are
  enough if the blocking factor is at least 3), and the refinement calls an
  archive closed only when every volume took two records. With a blocking factor of 1 or 2 two
  records may be all label and headers: `real_s_sizeleft` is then still that of the volume before, and
  TLC finds a continuation header with a wrong size.
* `partial` is false where a reader mounts several volumes: a device that takes part of a
  record makes the offset in the continuation header one of another block.
* The reader's blocking factor is the writer's or 1: after a volume change a
  full read does not move `record_end` (`buffer.c`, `_gnu_flush_read`), and
  with a factor that is larger than what was left of the record blocks are skipped.
  Likewise `record_end` stays where it is when a wrong volume was mounted that is shorter than
  a record of the reader (buffer.c:1149): blocks of the right one are then lost, and it may be refused. So
  `MembersIntact`, `NextVolumeAccepted` and `CompleteArchiveRead` are about
  readers with records that are no larger than the writer's (`RB <= BF`).
* `CompleteArchiveRead` also wants records of three blocks or more: a record that holds only a label
  and a continuation header is used up when the next block is asked for, and is taken
  for the end of the file (buffer.c:370). For the same reason `ReadsBack` wants that a record of the reader, and
  each volume but the last, hold more than a label and a continuation header.
* `short_counts` has no 0: when a file that is dumped has shrunk to exactly
  what was read of it, `safe_read` returns 0, the block is not stored (`if (count)`, create.c:964), but
  `pad_archive` leaves it out too (create.c:979), so the member is shorter than
  its header says, although tar says "padding with zeros". `WholeRecords`
  says so too, as the member then has not the size its continuation header implies.
* All volumes get the same label: `_write_volume_label` ignores its argument
  in the GNU format.
* `ArchiveFactor` a multiple of `BF`: see `append_short_record`; `--delete` in
  place has the same difficulty when it starts to write (`Proper`).
* Pax headers on every member or on none, and none whose data fill their last
  block: `extended_header` keeps the last one read, and it is copied before the
  next member that is kept, also if this one has none; `write_recent_blocks`
  copies one block too many for those.
* `--delete` of an archive that is cut off ends in `abort` (delete.c:350;
  `NeverAborts` is about archives with an end mark), and dropping a member whose
  data are cut off does not end (`DropsForever`, cut off by `MaxReads`).
* A filter that deletes nothing does not pass on the last record.
* One archive is given to `--concatenate`: with two, the second is behind the end
  mark of the first. `xheader_write_global` before the archive is read
  (update.c:113) would overwrite the first blocks in the buffer; the models write
  no global headers.

Extended headers (`torn`, `HoldsOnlyTheEnd`, `SizeLost`, `Promised`):

* `kw:=value` is written only next to other records: a member all of whose
  values fit the ustar header gets none (`write_extended`; `HasHeader`), unless
  a header for the whole archive holds it. The lists are built from
  the front, so of `kw:=` given twice the first wins, of `kw=` given twice the last one in
  the archive that is written, but the first one for the archive that is read.
* `try_new_volume` replaces the list of the last global header by that of the
  volume (`xheader_decode_global`), so values for the whole archive end with the
  first volume. `kw=` is left out of the settings with several volumes.
* A member whose name does not fit is asked for by the name in its ustar header
  (`name_match` is called before `decode_header`, list.c:93).
* If a volume ends when a path was stored (create.c:576) or while records are
  written (xheader.c:384), the records are lost or are read from memory that was freed
  (buffer.c:1599); if it ends between the blocks of a header and the next volume starts with a
  global header, the reader takes this for the rest of the records. Those members are in
  `torn`, and nothing is said of them; everyone else's records are as promised.
* A labelled volume that holds no more than the end of the archive is refused:
  there is no member behind its global header (`HoldsOnlyTheEnd`).
* The label is in the header of the first member, not in a global header, if there is
  no `kw=` option (`xheader_write_global` returns early), contrary to the comment at
  xheader.c:1505.
* All headers in front of the first member of a volume are in its first record (`BF = 6`), as
  `current_block = record_start` (buffer.c:1169) goes back no further. With
  records of 4 blocks, a label and an override TLC finds a member whose records are dropped.
* A volume takes at least two records behind the one that its headers begin, since
  `real_s_*` are not brought up to date by `simple_flush_write`.

Extraction (`Excused`, `Restorable`, `NoDirectoryAfterBackup`):

* A directory that is in the archive twice gets the *older* status with
  `--delay-directory-restore`, and also if its first entry waits for links,
  since the list is worked off from the head.
* A hard link to a delayed symbolic link, from another directory: the time of
  that directory is set before its placeholder is replaced (`Unlinked`,
  `WaitsForLinks`). A delayed link whose target is itself a delayed link leaves
  its placeholder with status 0.
* `extract_dir` is silent when a file that it cannot remove is in the place of
  the directory, and gives it the mode and time of the directory at the end.

Creation:

* After an error (`exit_status` 2) links may go to a member that is not in the
  archive; a hard link whose target does not fit the header is stored with a
  target that is cut off, although tar says "not dumped" (create.c:556). The
  properties speak of runs without errors.
* `--check-links` warns wrongly if a name is given twice (`Once`), and with
  `--remove-files`, which changes the number of links; hard-linked FIFOs are
  stored as separate files.
* A file that shrinks lowers the exit status from 2 to 1 (create.c:978), and a
  file that changed as it was read is removed by `--remove-files` nevertheless:
  `NothingLost` counts the warning (`history.warned`).
* The header of a file may be in a record that is not written yet when the file is
  unlinked; an error of that last write is fatal and is not modelled.

Incremental dumps:

* A directory renamed to a name that another directory had keeps this one's
  inode number in the snapshot (incremen.c, `procdir`), and the next dump
  renames the wrong directory, silently: `stale` in `RestoresTree`.
* A directory that is renamed *during* a dump can make a cycle that
  `rename_handler` follows for ever (incremen.c:583): `shuffled` in `RenamesEnd`
  and `RestoresTree`.
* Chains of renames are emitted in the order of a hash table, sometimes a
  rename twice, contrary to the comment at incremen.c:577; renaming a directory
  with subdirectories, or to a name that is taken, makes the restore report an error:
  `Easy` in `EasyRestored`.

Sparse files (`WholeRegions`, and the `troubles` in the properties):

* A read error while a file is scanned is taken for its end (sparse.c:231); a
  file that shrinks while it is dumped makes `sparse_dump_region` write
  zeros without end (sparse.c:309), so `SparseEnds` excuses it, and `MaxBlocks` cuts
  it off; a file that grows by a hole during the scan has a region that is no
  multiple of a block.
* After a comparison that found no difference, a reader of version 1.0 is
  behind by the blocks of the map. Comparing a file that became
  shorter does not end, or compares what is on the stack; both are outcomes of
  the model.
* `decode_num` tests an `errno` that it has not reset (sparse.c:1074). If an earlier call left
  `ERANGE` there, a good map of version 1.0 is refused: tar reports the member as malformed (`Restored` says
  that it does not pass over it in silence), but the blocks of the map were not taken, and the reader goes on short of the
  next member. `NextMemberFound` excuses this (`"errno"` in `troubles`).
* In the GNU format the size of the file is not compared.

Compression: the calls of `exec_fatal` after `execlp` are commented out
(system.c:363 and below), so a failed `exec` goes on in the child as tar; `kill (child_pid, sig)` is
called with `child_pid` 0 in the child (system.c:459), which signals the whole
group; with `-f -` the output of the compressor is not reblocked. The model
does all of this. It leaves out `undo_last_backup` of a child that cannot create the archive.

### Hazards without a property

The hazards of `PROJECT.json` with no property, or with half of one, are those where the code does go
wrong, and the passing runs stay clear of it as described above: the endless dropping of a
member that is cut off (delete.c:298), the extended header that outlives its member (delete.c:310), the end
marks between concatenated archives (update.c:189), the directory that keeps another one's inode number
(incremen.c:263), the volume that ends while the records of a header are stored (buffer.c:1599), and the
file that shrinks while its sparse map is dumped (sparse.c:309). A property that held there would be about
another program. Two more are outside the models: a member that cannot be opened (extract.c:773) and a
`chmod` that fails (extract.c:180).

### Bounds

Blocking factor 3 is the smallest at which a label, a continuation header and a
block of data are three different places of a record; sizes up to 10 cover data
that end inside, at the end and at the beginning of a record, and members that
span three volumes. `MaxVolumes` and `mistakes` bound the operator: two
mistakes are enough for a refusal after a refusal. Deleting from three members
covers a member before, between and after the deleted ones, with one more
record than the distance between the read and the write position can grow to.
Seven paths - a directory with a subdirectory, a file and a link, the link in the
subdirectory, another directory with a hard link - are enough for an entry of
the list of directories to be behind, before and between others that wait.

Two directories are enough for a rename, an exchange (a cycle) and, with the
subdirectory, for a chain; three levels for a wrong snapshot of one dump to
show in the next. In `sparse` the numbers of a file of 33 or 34 bytes need base 256,
which only the GNU format has, as octal ends at 31; two regions more than
the header holds need an extension header, and a last region of 1, 2 or 3 bytes ends inside a block. In
`dump` a name that is given twice, a link inside a directory and a link that is
not dumped occur together with every type and format; `MaxErrors` 1 is one
failure, and two changes by others are a removal and a new file that gets the
number. In `pax` volumes end after every block of a
header and of the data: the sizes of the first two members move the others by
one block at a time. In `compress` a pipe of one record fills up, and data of 0, 2, 3, 5 and 7
units end at a record and inside one.

## 4. Fairness

tar is one sequential process: `WF_vars(Next)` in `DeleteMembers` and
`UpdateArchive` says that it is not stopped for ever between two steps, and
nothing about which of several outcomes a device chooses. In `MVSpec` the
operator's actions are part of the same weakly fair relation: one who is asked
for a volume mounts some volume. In `SparseFile` only the steps of tar are fair,
the changes of the file are not; nor are read errors. In `CompressPipes`
each of the three processes is weakly fair by itself: the kernel runs every
process that can run. No failure has to happen. `DumpFiles`, `ExtractArchive`,
`IncrementalDump` and `PaxHeaders` have no liveness property and no fairness; the endless
loop of `rename_handler` is a state of its own (`pc = "looping"`), and `RenamesEnd` an
invariant. `CHECK_DEADLOCK FALSE` is in the configurations of programs that
end; `incremental`, `sparse` and `pax` stutter in their final states (`Finished`) instead, so that TLC
checks for deadlock, and that nobody waits for ever in `compress` is what
`AllEnd` says.

## 5. What is proved

Of an archive on several volumes, for every blocking factor, every list of
members with all sizes, every place where a volume or a shrinking file may end,
and any number of volumes, from `WriterAssumption`:

* `WriterTyped`: `Spec => []Typed`. The index into the record and the two ends of a
  copy between volumes stay within the record, and what is left of a member never
  becomes negative, through all the nested flushes.
* `VolumesContinue`: `Spec => []ContinuationMatches`, under `WholeRecords`. The
  property looks at two volumes only; the invariant says for every block what it
  may follow. `Sound`: a header among the first blocks tells the truth, and every block of
  data comes right behind the one before it, or behind a header that says where it
  is. `Lacks`: the member that is being stored still has so many blocks to go.
  `Continues`: a volume begins with its label and, if the one before it
  stopped inside a member, with a header that says how much is missing. `Storing`
  applies them to the mounted volume followed by the record (`Line`), and says that the record
  could go to another volume as it is, behind a header made from `real_s_*`
  (`Movable`): this is what `multi_volume_sync` is for. `Moving` says how far the new
  volume is while the record moves. `Movable` fails until a record was written behind
  the moved one (`Fresh`), hence the hypothesis.
* `AllMembersWritten`: `NoneShort => (Spec => []MembersWritten)`. `Writes` is the
  invariant. Its part `Content` says that what the volumes hold, what the record holds and what a
  volume change has still to copy (`ToCopy`) are, without labels and continuation headers, the members
  dumped so far and then NULs: no block is lost or doubled between the three. `Levels` says
  how far the new volume is filled while a record moves to it, `Ends` what is still in the record after each of
  the two flushes of `close_archive`. Unlike `VolumesContinue` this holds for volumes that end
  anywhere, in their first record and inside a write too.
* `ImplementsArchive`: `NoneShort => (Spec => WellFormedArchive)`, the refinement of
  `TarArchive`. By `Content` the mapped `archive` is a value that only `pc`, the member and what is left of it
  determine; initial states are mapped to the initial state, the
  writer's `Dump` steps append a header, blocks of the member that is open, or a NUL, or nothing, and the steps
  of `FlushWrite` and `VolumeChange` are stutters, or close the archive.

`NoneShort` says that no read finds a file shrunk to nothing: the block is then left out (create.c:964, 979; see
§3), and the member is shorter than its header says.

Of its reader, composed with that writer, for every blocking factor and whatever volumes the operator mounts in whichever order, any
number of times:

* `ReaderTyped`: `MVSpec => []RTyped`: `current_block` and `record_end` stay within
  the record, and nothing is read from behind the end of a volume.
* `ExtractedIntact`: `MVSpec => []MembersIntact`, a property of readers with `RB <= BF` and volumes of
  `WholeRecords`. The record holds what comes before
  the place of the device (`Buffered`); a volume that passed the checks begins where
  the header says that was compared (`Checked`), and no such header comes later on it
  (`Located`); the member that is extracted is the one open at that place of the
  volume, and what was delivered of it is its beginning (`Following`). The step that
  matters is the one in which a volume is accepted: a name, a size and an offset
  that fit what `mv_begin` kept put the reader into the same member at the same block,
  because all headers are `Sound`.
* `NeverRefused`: `MVSpec => NextVolumeAccepted`, under the same two conditions and by the same invariant: the next
  volume `Continues` the one that was read.
* `ReadToTheEnd`: `MVSpec => []CompleteArchiveRead`, for `RB` from 3 to `BF` and `WholeRecords`. Of the writer it needs `Ending`:
  the two blocks of NULs are the last of the last volume, wherever a volume ended
  between them. Of the reader, `Complete`: no record is used up when the
  checks of a new volume ask for a block, no block of NULs was passed over but the one
  that ends the archive, and hence the last volume is never exhausted
  (`LastVolumeSuffices`).
* `DumpedIsReadBack`: `NoneShort => (MVSpec => []ReadsBack)`. Here the end-to-end question is asked:
  is what is extracted what was dumped? Of the writer, `Records` adds to `Writes` how each volume begins
  (`Leads`) and what is then on it, although the volumes may end anywhere (`Carrying`). Of the reader, `Back` says
  that it took the volumes in their order up to one place (`Taken`), and that what was delivered is what the
  members dumped have up to there (`Fed`, `Delivers`): labels and continuation headers are taken out by the checks of a new
  volume and by nothing else (`Plain`, `Identifies`). It needs an operator who does not err, and room behind the label and the
  continuation header (`Roomy`); it does not need `WholeRecords` or `RB <= BF`.

Of `--delete`, for every blocking factor, every set of archives and all names:

* `TypeCorrect`: `Spec => []TypeOK` for `--delete`. The type invariant is more
  than a list of types: `cur + kept <= BF` while data are copied is what keeps
  the copy inside the buffer, `kept <= left` keeps the count from going below
  zero, and `new_blocks < BF` is what makes `write_record` fire on time. It
  holds for short and truncated archives too.
* `NeverOvertakes`: if no archive holds an extended header,
  `Spec => []WritesBehindReads`: what was written, with the header blocks that
  are about to be, is never more than what was read. By itself it is not
  inductive: a long name is read (two blocks) long before its copy is written.
  `Accounted` says for every point of the loop how many blocks were read but
  not yet accounted for; the only place where nothing is left over is the end of
  the file.
* `ReadsTheArchive`: under the same hypothesis, `Spec => []UnreadIntact`: the
  records that were not read yet are as they were. The argument adds that the
  descriptor is never beyond the records read (`NotBeyond`); short reads and
  seeks before the start of the file leave it *before* that, so a record is
  written too early at worst, never too late. (Too early it does destroy members
  that were skipped, see §3.)

The hypothesis is needed: `write_recent_bytes` may write one block more than was
read of an extended header whose data fill their last block.

If, besides, no archive cuts off a member by its end mark (`WholeMembers`; an archive without an
end mark is allowed, and then nothing is claimed):

* `AlwaysSomethingToCopy`: `Spec => []NeverAborts`, and `ReachesTheEnd`: of an archive with an
  end mark, `--delete` ends nowhere but at the end. The invariant `Positioned`
  holds as long as the archive is read: the record is the last one that was read
  (`Loaded`), the descriptor is between two records (`AtRecord`), the end
  mark is behind all that is still to be read of the current member
  (`Before(Target)`), and `kept_blocks_in_record` is right (`Ready`). So a block to copy is
  always in the record or in the one after it. `Loaded` needs `UnreadIntact`.
* `PassedOverIntact`: `Spec => SkippedIntact`: no step changes the records before the first
  deletion. The invariant adds where the descriptor is at the end (`AtEot`), which is where
  the file is truncated. It is about archives with an end mark which, in place, consist of whole records (`Proper`).

If, besides, members are in order in every archive (`MembersInOrder`: data follow their header, and a long name is
followed by its block and by the header of its member):

* `WritesWhatRemains`: `Spec => []OutputIsPrefix`, and `DeletesWhatWasNamed`: `Spec =>
  []DeletesExactly`. `Tracked` relates the reader to the archive: the names counted are those of
  the headers passed (`Counted`), and what comes next of the current member stays or goes with it
  (`Complete`, `Coming`). Until the first deletion everything stays where it was (`Untouched`). Then
  `Copied`: what was written, what `new_record` holds and the headers that wait (`pending`) are
  the blocks to remain among those passed (`UpTo`), less a long name whose member was not
  decided on yet (`Behind`). `Ended` and `Done` add the end mark. The theorem covers in place and filter, `--occurrence`,
  junk between members, and all positions of records.

The archives of the run `delete` that have no pax headers, all but a few of them, satisfy the three
hypotheses; the others are only model-checked.

A recursive function over the archive (`Dumped` of the writer, `Chosen` here) is reasoned about without induction:
if what is claimed failed for some number, it would fail for a least one (`LeastOfNat`, from `WFMin`), and the
definition relates this one to the one before.

`TypedWith(B)` is the type invariant with a set `B` of blocks as its parameter;
`B = Block` gives `TypeCorrect` and `B = Plain`, the blocks that are no extended
headers, gives the others. The lemmas of `ArchiveFileProofs` say what a read
of a record, the blocks of a record and a write over part of a file do, and the
little arithmetic of multiples that positions in whole records need.

Of extraction, for every archive, every tree in which files lie in directories,
every finite set of paths closed under prefixes, and all options:

* `TypeCorrect`: `Spec => []TypeOK`. The part of `TypeOK` that could fail is
  that every file lies in directories. `Typed` strengthens it to what the steps
  need: no delayed link has the inode of a directory (`NoDirectory`), so putting
  a link in the place of a placeholder leaves nothing without its directory; all
  inodes in use are at most `inodes`, so a new directory never gets one of those;
  `valid_source` is never a directory. `FirstMissing` says that the parents
  `make_directories` makes are exactly those from the first missing one on, which
  holds because what is below a missing path is missing too.
* `ListInOrder`: `Spec => []DelayedOrder`. The property compares neighbours; its
  invariant `Ordered` compares all pairs, and relates the list to the state of the
  current member: while members are extracted, the entries that do not wait for
  links name directories that exist, and once
  `apply_nonancestor_delayed_set_stat` was called they are all above the member
  that is created. The first is needed when `make_directories` adds several
  entries at once (directories that exist are above the first missing one), the
  second whenever an entry is put in front. A placeholder makes all entries wait
  or none, since those that do not wait come first.

* `OldFilesSafe`: `Spec => []OldFilesKept`. Every operation on the file system is first
  shown to change no more than a few paths, and of the directories above them nothing but the
  time (`Frame`, `Effect`). With `--keep-old-files` the invariant `Kept` adds that
  what is on the two lists, and what is a placeholder, was not there before, so that
  `extract_finish` does not touch an old file. With `--backup`, `BackedUp` says of each old file
  whose name occurs once that it is `Untouched`, or `Saved`: under the name of its
  backup, and, while its member is extracted, in a place to which it can be renamed
  back. It follows the file through recovery, which may remove what is in
  the way, and through `undo_last_backup` at the wrong time (see `extract_backup`): what this loses
  is the extracted file, never the old one. `ExtractAssumption` says for this proof
  that two names have different backups and that what has one inode number is
  one file; both are true of a file system and of simple backups.

The paths' part of the argument is in four lemmas: a prefix of a prefix is a
prefix, being an ancestor is transitive, and of two ancestors of one path
the shorter one is an ancestor of the longer. The assumption is
`ExtractAssumption`, which TLC evaluates in `extract`.

Of `--append`, `--update` and `--concatenate`, for every blocking factor, all
archives and everything that is added:

* `OldMembersStay`: `WholeRecords => (Spec => OldMembersIntact)`. The property is
  about every step: no block of a member that is there is ever different, not
  even until the next write. The invariant `Safe` says, while the archive is read,
  that the buffer holds the record before the descriptor (`ReadsRecords`); when
  the end mark is found, that the record which holds it is a whole one that begins one
  record before the descriptor, and still has what the archive has up to the
  mark (`StepsBack`); that nothing was written until then (`Unwritten`);
  and that the descriptor is behind the members from the first write on
  (`WritesBehind`). If the end of the file is met first, there is no step back.
  The hypothesis, that an archive with an end mark consists of whole records, is
  what `append_short_record` shows to be needed.
* `AppendedExactly`: with two more hypotheses, `Spec => []AppendsExactly`. The
  invariant `Filled` has three parts. While the archive is read (`Looked`), no block
  up to the end of the current member is an end mark, and `avoided_name_table`
  holds just the names of the members seen that are as recent as the file
  (`Noted`). When the writing begins these are the inputs that are not to be added
  (`Chosen`), and the place is right behind the last member. From then on
  (`Built`) the file up to the record, the record up to `current_block` and the blocks
  still to be stored are, one after the other, what was there and what the inputs
  taken so far add (`Laid`, `Queued`); and behind the descriptor there are only NULs
  (`ZerosBehind`), since the record that is flushed last need not cover the old
  padding. `ProperArchives` says that the blocks a header announces are
  no headers, and that after the end mark there are only NULs; `SameTimes`, that a file
  named twice has one time of modification.
* `AddedWithinReach`: with `EndsLast`, that only the last input may hold an end mark,
  `Spec => []AddedIsReachable`, by an induction over the inputs with the least number
  for which it fails (`MinOfNat`). Files hold no end marks; an
  archive that is concatenated does: `append_file` copies it with its end mark
  (update.c:64), behind which nothing is read. The run `update` satisfies all four
  hypotheses.

Of creation, for every set of files, links, names and options, any number of
errors and any number of changes by other processes:

* `NothingLostEver`: `Spec => []NothingLost`. `Careful` follows one file through
  `dump_file0`: if its ctime is still the one that was told, its name and data are
  too (`SameFile`); when the second `stat` shows no change the archive holds the
  data (`Read`); between that and the registration nobody but a late change touched it
  (`Untouched`); a file that goes on as a link is not the last name of its inode
  (`Linked`); and when the file is removed as the last name, its data are in
  the archive or tar has warned (`Saved`). A change counts as late only for the file it was made to, until
  tar looks at that file again (`OnTime`). The steps of others are shown to be `Calm`:
  they change the ctime of what they touch.
* `NeverAbortsOutsideUstar`: where no setting has the ustar format, `Spec =>
  []NeverAborts`: a header can always be made, so a file with links is
  registered the first time and found the second time (`NotYetKnown`). In the
  ustar format `dump_aborts` refutes it.
* `WarnsOfMissingLinks`: `Spec => []WarnsRightly`. `Counting` says, while nothing failed
  or changed, what the number in an entry of the table is: the links of the inode less its
  members in the archive (`Entries`), that every file with several links that has a member
  has an entry (`Stores`), and that what `stat` and `open` told is still so
  (`Unmoved`). At the end an entry with a number above zero is one for which a name has no
  member, as no name was given twice.
* `CompleteIfSuccessful`: `Spec => []CompleteWhenSuccessful`. `Completing` says, while
  nobody changed a file and nothing failed, that every file asked for is `Finished` (in
  the archive and, with `--remove-files`, gone, or a directory that holds a socket), or is
  below the one that is dumped, or `todo` leads to it (`Covered`). Behind the mark that ends
  a directory this has to hold of what is inside it by the entries before the mark alone
  (`Beneath`), so that when it is left all of it is finished (`Leaving`); a name that
  is gone when the directory is read was taken (`Gone`). What the archive makes is right
  and was made by a member of the same inode (`Right`), and all links that were
  taken are the file the table names (`Tabled`). From `TreeAssumption`: the paths are
  closed under prefixes, what has a name is in directories, and a directory has one name.
  That `Extracted` after one more member is one more step of its recursion (`OneMore`) is
  proved by the least member at which two such functions differ.

Of the compressor and its pipes, for all sizes of pipes, records and data, any
output of the compressor, and any set of failures, from `PipesAssumption`:

* `ReportedAlways`: `Spec => []Reported`, and `EndsWellAlways`: `Spec =>
  []EndsWell`. The invariant `Safe` says how far the three processes may be apart
  (`Placed`); that each still holds the ends of the pipes it is to use
  (`HoldsEnds`), so no one sees an end of file or a broken pipe before the process
  opposite is done; that what was written to a pipe was read or is in it, in
  whole records at the archive (`Conserved`); that a process which waits, or has
  ended well, has seen the end of its input, unless a compressor was never made, as the child
  could not open the archive (`SeenToTheEnd`); and that a good
  status comes from the compressor through the child to tar, and a bad one only from
  a failure (`Propagates`). `Reported` needs the last three: they empty the pipes
  one after the other. `EndsWell` needs `HoldsEnds` and `SeenToTheEnd`: a pipe can
  only break when its reader ended too early, which is a failure.

Only model-checked:

* Properties that relate what is read to what was stored through a recursion over the
  data: `DeliveredAsPromised`, and those of sparse files (`Restored`, `ComparisonSees`,
  `NextMemberFound`), which rest on `to_chars` inverting `from_header`, a recursion over
  digits.
* Long arguments about a final state that were not attempted: what extraction
  leaves behind (`DirectoriesRestored`, `SuccessfulExtraction`), the restore of
  incremental dumps (`RestoresTree`, `EasyRestored`, `RenamesEnd`) and `VolumesFit`.
* All liveness, which is out of the prover's reach (`Termination`, `ExtractionEnds`,
  `SparseEnds`, `AllEnd`).

The proofs corrected two properties that the bounds of the runs had let through: `MembersWritten` was stated
without the condition on the volumes, and `ReadsBack` without that on records and volumes. Both fail only with
blocking factors other than 3, or shorter volumes than the runs have.

## 6. What is not modelled

Left out inside the modelled components: read errors of the archive (retried,
then fatal), write errors (fatal), checkpoints, the second pass of `-W`, `-L`;
of extended headers the text of records, patterns, the names of the headers and a
volume that ends inside the headers of another one; in extraction `--overwrite`, `--keep-newer-files`, special
files, names with `..` or through symbolic links, the rights of root; in
creation `--newer`, `--exclude`, `--one-file-system`, `--atime-preserve`,
`--transform`, `--dereference` and device numbers; in incremental dumps the old
snapshot formats, several arguments and the check of malformed dumpdirs; in
sparse files the star format, which is only read; of `misc.c` numbered backups and
`chdir_do`; of `names.c` wildcards, `-T` and `-C`.

Not modelled at all: option parsing (`tar.c`), whose results are the constants of
the models; quoting and character sets, printing and dates, which are
string conversions without state; `rtapelib.c`, `rmt` and gnulib, which are
vendored libraries; gzip, lz4 and lzop, vendored programs that appear in
`CompressPipes` as a process that reads, writes, ends or fails. Most of
the repository's lines are in these.

What would come next: the list of names with `--occurrence` and `-C` as a module
of its own, `-W` as a third pass of `MultiVolume`; proofs of what extraction
leaves behind, and that the renames of an incremental dump end.
