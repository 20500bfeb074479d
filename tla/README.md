# TLA+ verification of WHDD

WHDD tests and rescues block devices: it reads a device block by block, copies a
failing one to another device or file, overwrites one with zeros, and shows the
progress on a console. This directory holds TLA+ models of its core, TLC
configurations that check them on small instances, and TLAPS proofs that hold for
every size.

Source paths below are relative to the repository; `copy.c` without a directory is
in `src/libdevcheck/`.

## 1. The system

| component | sources | state it keeps | operations |
|---|---|---|---|
| copy procedure | `copy.c`, `copy.h` | list of unread zones, current zone and read direction, progress; outside the process: journal file (a status byte per sector), destination | Open (new journal, resume, refuse), Perform (choose, read, write, record, update), Close |
| read strategies | `copy_read_strategies.c` | the zones, `stage` | `get_task`, `use_results` of plain, smart, smart_noreverse, skipfail, skipfail_noreverse |
| read test | `read_test.c` | position, remaining sectors, statistics, defect intervals | Open, Perform (READ VERIFY or `read()`), Close (two report files) |
| write zeros | `posix_write_zeros.c` | block index, remaining sectors | Open, Perform, Close |
| procedure loop | `procedure.c`, `procedure.h` | `progress`, `report`, `interrupt`, `finished` | open, perform loop, close |
| session | `utils.c` | termination flag, worker thread | `procedure_perform_until_interrupt`, the signal handler |
| render layer | `render.c` | SIGWINCH flag | `render_procedure`, handler, read-and-clear |
| renderers | `src/cui/sliding_window_renderer.c`, `src/cui/whole_space_renderer.c` | ring of reports, two sequence numbers, counters; block map (whole space) | Open, HandleReport (worker), render thread, Close |
| device list | `libdevcheck.c`, `utils.c` | per device: ATA capability, capacity, native capacity, mounted | built from `/proc/partitions`, IDENTIFY, READ NATIVE MAX, `/etc/mtab` |
| HPA | `hpa_set.c`, `utils.c` | the drive's limit | two SET MAX commands |
| encodings | `scsi.c`, `ata.c` | none | build a command, decode its sense data |
| quick diagnosis | `quick_diagnosis.c`, `blk_probe.c`, `scsi.c` | geometry, PI, samples | queries, three one-sector reads, a conclusion |
| programs | `src/cui/main.c`, `src/cli/main.c` | device list, choice, answers | a loop of menus, confirmations and options around the procedures; one-shot modes |
| SMART, log, drawing | `smart_show.c`, `log.c`, the rest of `src/cui` | none between steps | one-shot |

How they interact: the user picks a procedure and a device; `render_procedure` opens
the renderer, which starts the render thread, and calls
`procedure_perform_until_interrupt`, which installs signal handlers and starts the
worker. The worker calls `perform` until `progress.num >= progress.den`, an
interrupt, or a non-zero return, and after each call hands `ctx->report` to the
renderer's HandleReport, which puts it in the ring. The render thread empties the
ring 25 times a second. The main thread polls the termination flag and `finished`,
joins the worker, closes the procedure, then has the renderer close. The three
threads share the procedure context, the ring and two flags without a lock. A copy
also shares its journal and destination with its later sessions. The drive's limit,
what the kernel believes of its size and what the device list says of it are three
separate pieces of state that procedures change or rely on at different times.

What is hard here:

- **copy**: an unbounded sequence of trims, splits, removals and journal parses on
  one list; a loop whose only end condition is a counter kept elsewhere; a process
  that may die between writing data, recording it and updating its list; a resume
  that must fit whatever an earlier session left.
- **read test**: three incremental summaries of one scan (counters, error range,
  intervals with an open end) that must agree with it however it ends; rounding.
- **session and display**: lock-free sharing, signals at any instruction, joins in
  an order that must not wait in a circle, contexts freed while threads exist.

- **programs and drive**: three ideas of a device's size that go stale one by one; a
  descriptor whose position is set by hand after failures, with results nobody looks
  at; commands that get lost; two commands that must leave the drive usable after
  the first; confirmations that must belong to the choice they were given for.

What makes each correct: copy - the zones are well-formed, agree with the journal
and add up to the progress; a sector with a verdict is not read again; "read" in the
journal means on the destination; sessions end; a resume works. Read test - the
range is covered exactly, what is reported is what was verified, the files say what
was seen. Session - reports are rendered once and in order, none is left, the
worker is gone before the context it works on, an interrupt is obeyed, every session
closes. Write zeros - what is reported as zeroed is, nothing else is, and the end of
the loop means the end of the device. HPA - the limit is the one asked for or a failure
is told. Diagnosis - a verdict is backed by reads and queries that succeeded. Programs -
nothing invasive without the answers that belong to it, and what was begun ends.

The `hazards` list of `PROJECT.json` gives each of these at its line with the
property that covers it, or the reason why none does.

## 2. The modules

| module | what it is |
|---|---|
| `CopyZones` | pure operators on the list of zones: blocks at an edge, trimming, splitting, choosing |
| `Copy` | the copy procedure with all five strategies over any number of sessions |
| `CopyLedger` | abstract specification: verdicts on sectors, given once, "ReadOk" only after delivery |
| `CopyProps` | properties of `Copy`, the inductive invariant, the refinement mapping to `CopyLedger` |
| `CopyZonesProofs`, `CopyProofs`, `CopyEdgesProofs`, `CopyLedgerProofs` | proofs: the lists of zones; the invariant of the copy; where it reads next to failures; the reports, and that the copy implements the ledger |
| `ReadTest`, `ReadTestProps`, `ReadTestProofs` | the read test, what is claimed of it, proofs |
| `WholeSpace`, `WholeSpaceProps`, `WholeSpaceProofs` | the whole space renderer composed with `Copy`: its map and counters, proofs |
| `Session`, `SessionProps`, `SessionProofs` | main, worker and render thread of one run of a procedure, signals, the ring, proofs |
| `Drive` | the drive, the kernel's view of it, commands and how the library decodes their answers |
| `DeviceList` | what `dc_dev_list` finds out about the device |
| `WriteZeros`, `HpaSet`, `QuickDiagnosis` | the three procedures that write, limit and diagnose the drive |
| `ReadAhead` | the setting that copying and the read test switch off and restore |
| `Program`, `ProgramProps`, `ProgramProofs` | both programs around these procedures, over any number of runs, proofs |
| `MCProgram`, `MCReadTest` | the drives, options and starts of the TLC runs |

`Copy` and `ReadTest` have a device of fixed size; `Drive` to `ProgramProps` form one chain
of EXTENDS, a component per module, that share the drive.

### Copy

Source state to variables: `Zone *unread_zones` is the sequence `unread_zones` of
records with the fields of `struct zone`; a zone pointer is an index, NULL is 0;
`nb_zones` is the length. `progress` is `num`, `den`. The journal is `journal` (status
by sector) with `journal_len` (file size, -1 when there is none). The destination is
`dst` (per sector: nothing, this sector's data, stale buffer contents) with
`dst_len`. `pc` says where the worker is: parsing the journal sector by sector
(`ScanSector`, `ScanEnd`), at the loop head (`GetTask` is the strategy's `get_task`),
reading, writing, recording, updating, in the callback, closing. Each system call
that leaves something behind is a step of its own, so the process may die between
any two (`Crash`); the context is lost, the files stay.

Outcomes of a read: `ok`; `failed`; `ioctl_failed`, where the error status is
overwritten by that of the zeroed command header; `host_failed`, where only
`host_status` tells, at which `scsi_ata_check_return_status` does not look. The last
two only exist for the ATA interface.

Abstractions. A crash is the death of the process: the page cache survives, a power
loss is not modelled. The write of a block's statuses to the journal (at most 256
bytes) is atomic. A failed assertion on a result of the journal's creation counts as
a crash. The journal is that of one source; two sources with one journal are not
modelled. Failed opens of files leave nothing behind but the read-ahead of the device:
both are in `ReadAhead` and `Program`.

### ReadTest

The access time of a block is its tier, the number of thresholds it reaches; the two
top tiers make a block "slow" and "severe". `fd_lba` is the position of the
descriptor, `probed` the sectors the last command went to: the model keeps what was
read apart from what was reported. The start may be any integer, as in the code. The
seek to it, whose result nobody looks at, is refused before sector 0 and beyond
`kernel_end`, what the kernel has for the size (`SeekAccepts`), and leaves the
descriptor at 0; the address field of a command has `AddressSpan` values (2^48).
Overflow of `512 * start_lba` is not represented. `dg_intervals` and `dg_cur` are the closed
intervals and the open one; `saved` the contents of the two files. `seen` (all
reports of the scan) and `lost` (a failed allocation cost the list a block) are
history variables for the properties. The count field of a command has
`CountModulus` values, 65536 in the code, and 0 stands for all of them.

### WholeSpace

Extends `Copy` with the renderer: `OpenDisplay` happens between the procedure's Open
and the first turn of the loop and reads the journal, one byte per block of the map;
`ShowReport` is the copy's callback together with `update_blocks_info`; every other
step is one of `Copy`. What a set of blocks adds to a counter is the size of a block
for each, but what is left over for the last (`SectorsOf`). The counters wrap at `CountModulus` (2^64). A cell of the
screen stands for `blocks_per_vis` blocks, computed as in the code from the number of
cells. `straddled` is a history variable: some journaled block began inside a block
of the map.

### Session

A report is its number. A step is a read or a write of shared memory: filling a slot
and moving the sequence number on are two steps, as are reading and clearing the
SIGWINCH flag; taking the queue's length is separate from the reads of the slots.
The handlers' installation with the worker's start is one step. Going round the
worker's loop, with its look at the interrupt flag (`WorkerGoesOn`, `WorkerStops`), and
performing a block are two, so that an interrupt may come between them. Memory is
sequentially consistent: stores become visible in program order, which the code
assumes and C does not promise; the accesses have no atomics. Failures of
`pthread_create` are not modelled. A termination signal without a handler kills the
process, after which the user may start it again. `termination_signal_caught` is
static and survives from one session to the next, as in the code. Taking a report
(`TakeNext`, which moves the read number on) and reading its slot (`RenderTaken`) are
two steps; `overrun` is set when the writer comes round to a slot not read yet. The model follows
the sliding window renderer; the ring and the thread of the whole space renderer
(`src/cui/whole_space_renderer.c:72-101,130-167`) are the same code.

`handed`, `rendered`, `overrun`, `checked` and `late` are history variables.

### Drive, DeviceList

`disk` is the kind of the drive: ATA or not, with 48-bit addresses or not, its logical
and physical sector, the block length and the protection bit of READ CAPACITY(16).
`limit` is how many logical sectors the drive lets be reached, `ksize` how many the
kernel believes there are; the kernel may catch up at any time (`Revalidate`).
`zeroed` are the sectors the procedure now running has overwritten. These, `lseek`,
`write` and the fate of a command are external: modelled from how the library uses them.

An answer to a command is one of five: done, refused (error bit), illegal (no ATA
device: fixed format sense data), lost (no sense data), failed `ioctl()`. `SenseKey`,
`ReturnStatusErr`, `ReturnLba` and `Succeeds` are what the library makes of them: a
lost command has sense key -1 and counts as success.

`dev` is the entry of the list. Capacities are in sectors of 512 bytes; the list takes
the drive's own count of logical sectors for such sectors. READ NATIVE MAX looks at no
status. After a lost IDENTIFY the capacity comes from an unwritten buffer (`Garbage`).
A line of `/etc/mtab` matches by prefix.

### WriteZeros

The fields of `posix_write_zeros_priv` by their names, `progress` as `num` and `den`,
and `fd_lba` for the descriptor's position. Unsigned values are taken modulo `Width`
(2^64): a start beyond the end leaves a negative rest, whose `den` is huge, 0 or 1, and
blocks of no sectors or of a huge number. A write that falls short may have written
any aligned part and moved the descriptor or not; then the code seeks. `seeks_ok` and
`write_failed` are history variables.

### HpaSet, QuickDiagnosis

The two commands of `hpa_set` are two steps, between which the process may die. The
address field of a command has `AddressSpan` values (2^48), so that -1, the suggestion
when the native capacity is unknown, is the largest address. A drive without
48-bit addresses reaches nothing by this command. Every query and sample of the
diagnosis is a step, for each opens the device anew; queries of one kind are one step.
`really_read`, `limit_before` and `lost` are history variables.

### ReadAhead

`readahead` is the kernel's setting of the device, `old_readahead` the field of that
name in both procedures' contexts. `disturbed` is a history variable: some session
broke the rule of restoring what was found, and the setting is not the drive's own.

### Program

`pc` is the place in the loop of menus. `frontend` is `whdd` (list built once),
`whdd-cli` (list built in every round, all procedures offered) or a one-shot mode
(`--quick-diagnosis`, `--smart`). Questions may be answered with no, options cancelled
or malformed, procedures fail to open (`TurnBack`). `copy` and
`read_test` only switch read-ahead off and on here: they change neither the drive's
contents nor its limit; copying may fail to open its files in between. A renderer
that does not open, as in a terminal too small for it, makes `render_procedure` return
without the procedure's Close (`render.c:53-55`): `RendererFails`, for every procedure
that has one. In `whdd` a procedure with a renderer ends at `verdict`, and the user's
key 'm' (`PressM`) brings the menu back. `Killed`
loses everything but the drive. The loop here performs in one thread; `Session` has
its threads. `consents` counts the questions answered with yes.

## 3. What TLC checks

| run | bounds | what it shows |
|---|---|---|
| `copy_faults` | 6 sectors, blocks of 2, zones of more than 4 split, 2 zones at most; all strategies, journal on and off, a destination of 5 sectors, every fault, crashes | the inductive invariant and its parts, the edges next to a failure that each strategy does leave for later, finished means complete, no second read of a decided sector |
| `copy_sessions` | 6 sectors, blocks of 1, zones of more than 2 split, 2 zones at most, all strategies, journal, crashes, no short writes, fairness | every session ends and whoever keeps resuming gets a verdict on every sector; the journal is never ahead of the destination and implements `CopyLedger`; the renderer's count is the progress |
| `read_scan` | 6 sectors, of which the kernel knows 5; starts at -2, 0 and 3, ends at and beyond the end, blocks of 0, 2 and 4, three tiers, two error kinds, a count field of 4 values, failing allocations and files | ranges are tiled exactly, commands fit their reports, statistics and defect list are those of the blocks seen, in memory and on disk; a scan ends |
| `whole_space` | 8 sectors in blocks of 3 on 2 cells, all strategies, journal on and off, a destination of 5 sectors, crashes | counters agree with progress (fresh sessions) and with the journal (any session), the map with its legend, unless a block straddled two of the map |
| `program` | 4 logical sectors, blocks of 2 sectors, integers of 5 bits, addresses of 4; six kinds of drive; starts before, in and beyond the drive; limits 0, 2 and the suggestion; renderers that do not open, kills; any number of procedures and runs | zeros where reported and nowhere else, the whole device at the end, the limit asked for or a failure told, verdicts earned, read-ahead restored, questions asked, a procedure that was begun ends |
| `session` | 4 blocks, ring of 2, resizes and signals anywhere, any number of sessions | order and completeness of rendering, the worker is gone before its context, at most one block after an interrupt, every session closes |

Why the bounds suffice. `copy_faults` has a destination that ends inside a
block, a zone long enough to split and a table that fills; six sectors are three
blocks, so that every position of a block in a list of zones occurs, and the proofs
of section 5 cover all other sizes. In `copy_sessions` a zone of 6 blocks is split, both
halves are read from both sides, and the bound at which smart stops splitting is met before
and after a resume (blocks of more than one sector are those of `copy_faults`, partial
last ones those of `whole_space`). In `read_scan` the range -2..6 in blocks of 2 gives four
blocks, enough for an interval to open, extend, close and change its type; 3..6 gives a
partial last block, and a read that the size the kernel has cuts short; blocks of 4 fill the
count field. In `whole_space` the last block is
partial, has more than one sector, and shares its cell with no other; two blocks share
the first. In `session` the worker may run twice round the ring
before the reader starts; every thread can be at every place when a signal comes.
In `program` the drive is two or four blocks (logical sectors of one or two of the
library's), its limit and the two capacities may take all values below and up to its
size, a negative rest may be one, two or more blocks, and one more of each would only
repeat the same cases; the runs of all procedures follow each other without a bound.
Deadlock is checked in every run.

Fairness. `Copy` and `ReadTest`: weak fairness of the worker's own steps - the thread
is scheduled and its system calls return; nothing is assumed of signals or of the
drive's outcomes. `copy_sessions` assumes of the user what `ResumedToTheEnd`
says: that sessions are started again and again, at some point without being
interrupted, killed or run with a skipfail strategy (which may refuse what is left).
`Session`: weak fairness of each of the three threads; the user need never press 'm'.
`Program`: weak fairness of building the list and of the steps of a procedure, which the
program takes by itself; commands and writes return, with whatever result (the
commands have timeouts). No answer to a menu, no key 'm' and no signal is assumed, so
`ProcedureEnds` promises the end of a procedure and not the menu after it; it leaves
out the negative rest of a start beyond the end, which makes about 2^64 blocks and only
in a small instance an end. One thing is assumed of the user in all four: in `whdd` a
message of the log is a dialog that waits for a key in the thread that logs it
(`src/cui/main.c:475-481`), also in the worker, and the user puts it away; a
step that logs may wait for that.

## 4. Where the code departs from what it says

Each is a run that TLC must find violated; `findings` in `PROJECT.json` quotes the
line it is held against.

- `copy_file`: a generic file as destination has, in the second session, the size the
  first one reached; everything beyond it is refused for ever.
- `copy_write_fault`: a block whose write to the destination failed is recorded as read.
- `copy_near_failure`: smart puts off reading next to failures, says its help. After a
  split it reads backward from the cut; when that fails at once, only the first half
  is marked, and the next forward read begins right behind the failed sector.
- `read_posix`: after a failed `read()` the descriptor lags one block behind the
  report for the rest of the scan; the last block is never read.
- `session_resize`: a resize between the read and the clearing of the flag is lost.
- `program_seek`: the seek to `start_lba` is refused when the kernel's size is smaller
  than the list's (right after `hpa_set`), nobody looks at its result, and zeros go to
  the first sectors of the device.

Met while modelling, and left as conditions of the properties named: death while the new
journal is filled leaves a journal that every later session refuses (`ResumedToTheEnd`
assumes that none is refused). A command that fails at its `ioctl()` is recorded as read,
with the block before, still in the buffer, written in its place (`ReadOkIsCopied` is
claimed without such outcomes). `skip_blocks` 0 is accepted, and the first error of a
skipfail strategy fails the assertion on its jump (`StrategyFinds`). A Perform that gives
up leaves the report of the block before, and the callback counts it again
(`HandledMatchesProgress`, `DisplayTypeOK`). The seek of the read test to `start_lba` is
refused before sector 0 and beyond the kernel's size, nobody looks at its result, and
`read()` then reports the first sectors of the device as those of the range
(`VerifiesReportedBlock`). A device that is a multiple of the block has its last block counted as empty by the map
(`CountersMatchJournal`); a journal that says "failed sector" is drawn as copied
(`MapFollowsLegend`); blocks of a copy read backward from an uneven end straddle two
blocks of the map, and a later success covers up a failure (`CountersMatchJournal`,
`MapFollowsLegend` exclude it). A lost SET MAX counts as success, and READ NATIVE MAX that was
refused gives a native capacity of one sector (`HpaSettles`); the capacity of a 4Kn drive
is an eighth and that of a drive without 48-bit addresses 0 (`FillsDeviceSpace`). When
copying fails to open a file, read-ahead is restored through a descriptor already closed
and stays off; when the renderer does not open, nobody closes the procedure, and it stays
off too (`ReadAheadReturns`). These are excluded, not caught.

The renderer's Close, and the render thread when the layout is rebuilt, read the procedure
context that `procedure_perform_until_interrupt` has freed; such a read has no outcome
to state a property of and is listed as a hazard (`WorkerGoneBeforeFree` is about the
worker only). A termination signal after the flag was last looked at stays set for the next
session, which it ends at its first poll; that is legal in every property of `Session`, and
listed as a hazard too.

## 5. What TLAPS proves

Every invariant and every action property that a passing run checks, and the
refinement of `CopyLedger`, for all values of the constants that satisfy the
assumptions below. No bound of a run is assumed. Each module `...Props` ends with the
inductive invariant its proofs use; TLC has checked each of them before it was
proved. A lemma per action, with a step per part of the invariant that the action can
disturb, is combined into the step of the whole.

**Copy** (`CopyZonesProofs`, `CopyProofs`). `IndInv` is inductive. The claims by
themselves are not: that the zones agree with the journal after a resume needs to know
what the parse has done so far (`ScanInv`: zones found, the zone being scanned and the
sectors before the position are the journal's unread ones); that a trim leaves a list
well-formed needs the block in flight to be at the edge of the current zone
(`TaskAtZoneEdge`); that a new journal agrees with one zone over the whole device needs
that nothing is recorded before it has its full size (`JournalFilled`); that a session
starts from a zeroed context is `PhaseInv`. `CopyZonesProofs` proves the facts on
lists: trimming, removal, splitting and appending keep a list well-formed and change
its sectors as they should.

| theorem | says |
|---|---|
| `Invariant` | `IndInv` holds in every reachable state |
| `TypeCorrect` | the type invariant |
| `ZonesStayWellFormed` | zones non-empty, inside the device, ascending, disjoint |
| `TaskStaysAtZoneEdge` | the assertions of `common_update_zones` never fail |
| `JournalAgreesWithZones` | zones in memory are the journal's unread sectors, up to the block just recorded |
| `ProgressIsAccounted` | `num` plus the zones' sectors is `den` |
| `NothingRecordedIsReread` | a sector with a verdict is not read again in any session |
| `FinishedMeansComplete` | a session that ends as finished leaves nothing unread |
| `StrategiesFindWork` | a strategy asked for a block has a zone to take one from; the searches of smart and skipfail end, and the assertions on the list, on the edges of the largest zone and on the split of smart hold |
| `SplitList`, `HalfJumpInside` | a split keeps the sectors; the middle, aligned down, is inside the zone |

**Copy, next to failures** (`CopyEdgesProofs`). That no strategy reads away from a failure
it could have left for later is a fact on the journal, not on the flags of the zones.
`NearFailureInv` ties them: a failure recorded next to a zone is marked at the edge from
which the strategy would read (`FlagsInv`, and `ScanFlagsInv` while a journal is parsed);
where a split made two zones touch, the half next to the cut is the one being read, or is
marked there (`TouchInv`). `EdgeInv` says that the edge in work is unmarked at any time,
which is what survives a trim.

| theorem | says |
|---|---|
| `ReadingNearFailuresIsDelayed` | with a journal, but for plain and the last stage of smart: nothing is read backward away from a sector recorded as failed right behind it; the noreverse strategies read nothing forward away from one right before it |

What the help promises of smart in both directions is false (run `copy_near_failure`).

**Copy, reports and ledger** (`CopyLedgerProofs`). `CountInv` says where the
callback's count is between `num` being advanced and the report being handed over;
`DeliveryInv` says what the buffer and the
destination hold between read, write and record. The step simulation of the ledger
maps `WriteJournal` to a verdict on a block and every write to a delivery or a stutter.

| theorem | says |
|---|---|
| `ReportsMatchProgress` | the callback has counted what progress counts |
| `JournaledDataIsCopied` | what the journal calls read is on the destination, whenever the process dies |
| `CopyImplementsLedger` | `Spec` implements `CopyLedger` |

The last two assume that a read either fills the buffer or fails and that no write
falls short (`ReadResults \subseteq {"ok", "failed"}`, `~WriteFaults`); without it the
code does not deliver them, which is the run `copy_write_fault`, and as little with the outcomes `ioctl_failed` and
`host_failed`.

**Read test** (`ReadTestProofs`). `ReadInv` relates the position, what is left and the
blocks seen (`RangeInv`, `SeenInv`), the descriptor's position (`FdInv`), the closed
intervals with the open one to the sectors seen (`ListedInv`, `OpenInv`, `RowsInv`,
`OrderInv`) and the files to the memory they were written from (`SavedInv`). The parts
on the list are needed together: that closing an interval keeps the rows ascending and
apart follows from where the open interval may begin (`RowsInv`), not from `OrderInv`.

| theorem | says |
|---|---|
| `ReadInvariant`, `ReadTypes` | the invariant and the type invariant |
| `FinishedScanIsWhole` | blocks tile the range; a finished scan has covered it |
| `ListIsHonest` | the defect list has nothing that was not seen, in order, whatever allocations fail |
| `DefectFileIsExact`, `SummaryFileIsExact` | both files say exactly what was seen |
| `ReportsVerifiedSectors` | a command works on the sectors its report names: by ATA from every start that is not negative, by `read()` when the seek to the start was accepted and no earlier block has failed |

`FdInv` has the conditions of the last one, for without them the descriptor is elsewhere
(section 4). The last one assumes block sizes that the count field can hold; those on offer are 256,
1024 and 4096, the field has 65536 values.

**Session** (`SessionProofs`). `SessionInv` says who is alive when (`ThreadsInv`), what
the worker has handed over and how far its sequence number is behind in the middle of
it (`HandedInv`), and that without an overrun the slots from the first report not
rendered, which may have been taken already, up to the writer's number hold the reports
after those rendered (`QueueInv`), which is what a single slot cannot say. That nothing is left follows from the order in which the last length
is taken: after the hangup, which is after the join of the worker.

| theorem | says |
|---|---|
| `SessionInvariant`, `SessionTypes` | the invariant and the type invariant |
| `RenderingKeepsOrder` | without an overrun, reports are rendered once each and in order |
| `NothingIsLeftUnrendered` | at the verdict everything handed over has been rendered |
| `WorkerIsGoneBeforeFree` | the procedure is closed and its context freed when the worker is gone |
| `InterruptStopsWorker` | at most one block after an interrupt |

**Whole space renderer** (`WholeSpaceProofs`). `DisplayInv` holds together with `IndInv`
and `CountInv`: each step with the display is a step of the copy or leaves it alone
(`DisplayLeavesCopyAlone`), so what is proved of the copy holds here too. Between the
record of a block and its report the journal is ahead of the counters and the map by
that block (`Due`, `Ahead`, `MatchInv`, `MapInv`). Where no block has straddled two of
the map, all sectors of a block of the map have one verdict (`UniformInv`), which needs
every block and every zone of a session, found by a parse or cut by a split, to begin
with a block of the map and to end with one or with the device (`AlignedInv`).
The rest is arithmetic: a set of blocks has the sectors that the seeding counts
(`FullBlocks`, `CountedBlocks`), when the last one is not full.

| theorem | says |
|---|---|
| `DisplayInvariant`, `DisplayTypes` | the invariant and the type invariant |
| `DisplayLeavesCopyAlone` | the copy with its display implements the copy |
| `FreshCountsFollowProgress` | in a session that starts with nothing done the counters are the progress |
| `CountersAgreeWithJournal` | the counters are the sectors with each verdict, in resumed sessions too |
| `MapShowsLegend` | a cell shows what the legend says of its sectors |

`CountModulus > 3 * EndLba` is assumed throughout: the counters have 64 bits and a
device has at most 2^55 sectors. The last two assume `~WriteFaults`: a short write is a
failure to the counters and a success to the journal.

**Programs and drive** (`ProgramProofs`). `ProgramInv` ties the place in the program to
the choice and the consents that led there (`PlaceInv`), the descriptor, the sectors
zeroed and what is left of the range to each other while no seek has failed
(`WriteInv`), the sizes to integers that do not run over (`SizesInv`, `CountInv`), a
passed candidate to a read that succeeded (`DiagnosisInv`), and the setting found to
the one put back (`SettingInv`).

| theorem | says |
|---|---|
| `ProgramInvariant`, `ProgramTypes` | the invariant and the type invariant |
| `InvasiveStepsAreConsented` | no step changes the drive without the answers it takes |
| `GoodBlocksAreZero` | what is reported as zeroed is; nothing outside the range |
| `WholeDeviceIsZero` | without a failed block or seek the end of the loop is the end of the device |
| `LimitSettles` | where the two commands of `hpa_set` leave the limit |
| `PassesAreEarned` | a verdict is backed by reads and queries that succeeded |
| `ReadAheadIsRestored` | read-ahead is the drive's own between procedures, until an `ioctl()` or an open fails, a renderer does not open or the process dies while it is off |

`SizesAssumption` (in `Program`) says that what the user enters and the size of a drive
in sectors fit half the width of the integers, as they do in 64 bits.

Assumptions on constants otherwise: sizes are positive, a zone that may be split has at
least two blocks, user choices are subsets of what the program offers.

`StrategiesFindWork` is stated by `CopyProofs` itself, as a state predicate
(`StrategyFinds`): what can be proved of the absence of a deadlock without ENABLED. Its
lemmas (`LeastElement` and what follows from it: the first zone with a clean edge, the
first longest zone, the first zone that skipfail takes) rest on `<` being well-founded.
It leaves out the one assertion of the strategies that can fail, on the jump of skipfail
(`JumpAssertionFails`).

Only model-checked: the liveness properties `SessionsEnd`, `ResumedToTheEnd`,
`ScanEnds`, `SessionCloses` and `ProcedureEnds`, for liveness under fairness, and the
ENABLED it rests on, are out of the prover's reach.

## 6. Not modelled

The layout of commands, and which error bit gives which status of a block (a set of
statuses that the properties do not tell apart); the ATA branch of `dc_blk_read`, which
nothing calls. The text of smartctl, names, models and serial numbers. Logging,
drawing, wording, speed and estimate. Wall-clock names of report
directories. Power loss. Weak memory. `components` in `PROJECT.json` lists every part
with its reason.

## 7. Plan

In the order of importance; stages 1 to 6 are done.

1. Copy: zones, procedure, ledger, inductive invariant, proofs.
2. Read test; session with the ring and signals.
3. The whole space renderer on top of `Copy` and its use of the journal.
4. The drive with its limit, the device list, write zeros, HPA, quick diagnosis,
   read-ahead.
5. Both programs around them, over any number of runs.
6. Proofs of every invariant and action property of the passing runs.
7. The status decoding of `scsi.c` as a function, against the statuses the drive means.
