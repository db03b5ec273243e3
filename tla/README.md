# TLA+ models of agent-resources

agent-resources is a Linux agent: a gRPC server that answers requests for
processor, memory, disk and device data which it reads from `/proc`, `/sys` and
`/etc`, with all memory taken from arenas that it maps itself. This directory
holds TLA+ specifications of the parts that carry its logic, TLC configurations
that check them on small instances, and TLAPS proofs for every size.

## 1. The system

| Part | Source | State | Operations |
|---|---|---|---|
| Arena allocator | `base/base_arena.c`, `base/base_mem.c` | `mem_arena`: capacity, current and previous position; the mapping; `temp_arena` marks held by clients | create, destroy, alloc, pop, pop_to, clear, resize, temp begin and end |
| Resource service | `grpc/server/server.cc`, `grpc/handlers/resource_handler.cc`, `core/core.cc` | one arena per running call, the mappings of the process, deadlines and cancellation | start; `GetSystemResources`, `GetCpu`, `GetMemory` |
| Readers | `libres/resources.cc` | the `sys_*` structures in the caller's arena | `cpu_read` (amd64 and ARM), `cpu_read_usage`, `sys_ram_read`, `disk_read`, `device_read` |
| Partition table | `libres/resources.cc` (`disk_push_partition`) | a growing array in the arena | push |
| Process list | `libres/resources.cc` | a growing array in the arena, filled from `/proc` | collect, read, kill |
| Stack allocator | `base/base_stack.c` | `mem_stack`: offset and padding headers | push, pop, resize, pop_all |
| Parsers | `base/base_parse.c` | none | `parse_u64`, `is_numeric`, `compare_string`, `parse_proc_files` |
| Port reader | `libnet/net.cc` | a scratch arena | `port_read_tcp4`, `port_read_tcp6` |
| Keys | `auth/auth.cc` | `key.pem`, `cert.pem` | generate |
| Journal, bus, packages | `journal/`, `dbus/`, `libpkg/` | none of their own | wrappers of external libraries |

**Interaction.** `main` calls `grpc_server_setup`, which blocks in `Wait`. The
gRPC runtime calls a handler on one thread of its pool for each request. A
handler maps an arena of 8 MiB, allocates one structure per reader in it, runs
the readers in turn, fills the reply and unmaps the arena. `sys_ram_read` maps
and unmaps a second arena; `disk_read` grows its table in the handler's arena.
The threads share nothing but the process: its mappings, and its fate when one
of them aborts.

**What is hard.** Concurrent calls compete for mappings; deadlines run out
between readers; `assert(0)` in a reader ends the process for all clients (the
build does not define `NDEBUG`); the machine changes while it is read;
processes come and go during the scan of `/proc`; arrays are moved when they
grow, and the arena may be full at that moment; pops, clears and temporary
scopes of an arena may come in any order. The readers copy text into fixed
fields next to each other and never look at its length; locals stay
uninitialised when a line is missing; two loops have an end that some inputs
never reach; two files are rewritten one after the other.

**What makes each part correct.**
Arena: live blocks lie inside the mapping, never overlap, hold what their
clients put there, are zero at first, and survive the end of scopes that began
after them; nothing stays mapped after destroy.
Service: no call sees or frees another's memory; every mapping is given back;
every call returns; a reply holds data of its own call, read by its deadline.
Tables: nothing lost, duplicated or reordered by growth; nothing dropped while
there is room.
Process list: each process that ran throughout the scan is there exactly once.
Readers: what is stored is what the kernel printed, whatever the structure held
before and in whatever order lines come.
Stack: as the arena, and the header of a block survives as long as the block.
Parsers: the same entries as splitting the file into lines would give.
Ports: the loop ends, the scratch arena is given back.
Keys: after a complete run the two files belong together, whatever an
interrupted one left.

## 2. Modules

| Module | Models |
|---|---|
| `Region` | Abstract: what any allocator promises: regions are acquired zeroed and apart from all live ones, written one at a time, released |
| `Arena` | `base_arena.c` without resize, and `align`/`is_pow` |
| `ArenaResize` | `Arena` with `arena_resize` added |
| `Service` | server, handlers, and the readers as steps of the handlers |
| `PartitionTable` | `disk_read` and `disk_push_partition` |
| `ProcessList` | `process_list_collect`, `process_read`, `process_kill` against a live process table |
| `Parse` | characters, C strings, `parse_u64`, `compare_string` |
| `CpuInfo` | `cpu_read_amd64`, `cpu_read_usage` |
| `ArmCpu` | `cpu_read_arm64` and its three parts |
| `MemInfo` | `sys_ram_read` |
| `DeviceInfo` | `device_read`, `device_up_time` |
| `ProcStatus` | the bytes `process_read` writes |
| `ProcFile` | `parse_proc_files` |
| `Stack` | `base_stack.c` |
| `Ports` | `port_read_tcp4`, `port_read_tcp6` |
| `Keys` | `generate` |
| `MCArena`, `MCArenaResize`, `MCService`, `MCProcessList` | instances for TLC |
| `MCComponents` | one instance for the eleven modules `PartitionTable`, `ProcessList` and `CpuInfo` to `Keys` |
| `ArenaProofs` | theorems about `Arena` and `ArenaResize` |
| `ServiceProofs`, `PartitionTableProofs`, `ProcessListProofs`, `StackProofs` | theorems about the module of that name |
| `ParseProofs` | theorems about `Parse` and `ProcFile` |
| `ReaderProofs` | theorems about `DeviceInfo`, `ArmCpu`, `CpuInfo`, `MemInfo` and `ProcStatus` |
| `ComponentProofs` | theorems about `Keys` and `Ports`, and about the sum of the eleven modules |

**Arena.** The fields of `mem_arena` are variables; `mapped` is the length of
the mapping behind it (0 when there is none). Positions are byte offsets from
`base_position`. A byte contains the stamp of the block whose client wrote it,
or 0. `blocks` are the blocks that clients hold. They stop holding a block when
the position moves below its end (`MoveTo`), which is what pop, pop_to, clear
and the end of a scope mean to a client. `fault` records an access outside the
mapping and `leaked` a `munmap` of less than was mapped. Widths are
`WORD_BITS` bits, and the sum in `arena_alloc` is taken modulo `2^WORD_BITS`.
`align` is translated with its early return: for a power of two, which
`ARENA_ALIGN` is, the position comes back as it is.
The kernel maps and unmaps whole pages; the model counts bytes, so `leaked` is
stricter than the kernel.

**ArenaResize.** `arena_resize_align` has three branches. `ResizeEmpty` is a
plain allocation; `ResizeInPlace` moves the position of the last block, without
a comparison with the capacity, and when growing clears `new_size - old_size`
bytes starting at the field `current_position` of the header itself
(`ClearFromHeader`: the fields in declaration order, little-endian, then the
data); `ResizeByCopy` copies to fresh memory and returns NULL. `grown` remembers
that a block was grown in place.

**Service.** Each thread of the pool has a program counter: `idle`, `entry`
(cancellation and deadline tests), `map` (`arena_create` and the `*_create`
calls), `read`, `loop` (the loop over the cores on ARM), `scan` (the second half
of `sys_ram_read`), `check` (the deadline test after a reader), `finish`,
`returned`. `get_cpu_impl` and `get_ram_impl` are the same program with one
reader and no test at `check`. `machine` is fixed at the start: the architecture
the agent was built for, the number of its highest core and the files that
cannot be read. On ARM `cpu_read` needs other files, and counts an `i8` up to the
highest core one step at a time before it reads a frequency. Without
`os-release`, `device_read` returns an error that nobody looks at, having read
nothing; without any other file of a reader the process aborts.
`maps` is the set of mappings that exist; `mmap` returns any free one or none:
`refused` remembers that it returned none although `MapIds` was not used up, for
want of memory. `now` counts the moments at which the machine reads
differently; a reading is the moment at which it was taken, and each reader
reads its file at one moment. `late` counts the calls that returned
`DEADLINE_EXCEEDED` between two readers. `Accept`, `Cancel`, `Deliver` and
`Tick` belong to the clients, the runtime and the clock.
`ram_read` in the handlers is the function that `resources.cc` defines as
`sys_ram_read`, and their types `cpu`, `memory`, `disk` and `device` are the
`sys_` structures of `resources.h`: the handlers use the older names.
`get_device_impl` exists but no call is routed to it.

**PartitionTable.** One action per line of `/proc/partitions`. `PartRoom` is
what the arena has left, in elements; `part_used` what the table has taken of it, old
arrays included. A partition is its device and the length of its name; major,
minor and block numbers are part of the device. `given` is the sequence of all
well-formed lines as they are in the file, which the properties compare with.

**ProcessList.** `table` gives each pid its state letter or "none"; `Fork`,
`ChangeState` and `Exit` change it at any time, also between two steps of a
scan. `cursor` walks the pids upwards as `readdir` does in `/proc`. `since` and
`during` are the processes that ran throughout, and at some time in, the last
scan. Reading and killing use listed entries, as a client of the list would.

**The readers (`CpuInfo`, `ArmCpu`, `MemInfo`, `DeviceInfo`, `ProcStatus`).**
One action per line of the file. A character is its ASCII code and a field a
sequence of them, because what these readers can get wrong are lengths, missing
terminating zeroes and neighbouring fields; the key of a line is a name.
Lengths of fields are constants, and the assumptions say what the kernel
guarantees: vendors, models and frequencies are shorter than their fields, and
lines of `os-release` are shorter than the buffer. Task names are of any length:
one that reaches `pid` leaves some number there (`PidsWithName`); what a name of
48 and more characters does to the next entry is outside the model. `CpuInfo`
lets a caller read twice into one structure with other frequencies, and a NULL
argument or a missing file ends the process (`CpuAborts`). `ArmCpu` keeps the loop
variable an `i8`. In `MemInfo` an uninitialised pointer leads to any number of
`Garbage` or to a fault. In `ProcStatus` the process may exit between `fopen`
and the first `fgets`, and the entry may have belonged to another process.

**ProcFile.** The scanner of `parse_proc_files`, one character per step, with
its three allocations granted or not. `EntryFor` and `LineTo` define what it
should find by splitting the file into lines; only the cut to the length of a
field is shared with the model.

**Stack.** Memory is shared by clients and headers: a byte is a padding, a
client's data or 0. A push is granted (`Granted`) when the alignment is a power
of two and the sum fits. `freed` and `stale` are pointers that were given back, since
and before the last push, so that they can be popped again. `harm` is the first
misuse after which the code promises nothing: `stale_pop`, `grown_below` (a
block with another above it was grown), or the end of the process: `no_room` (a
resize whose push is not granted copies to address 0), `wrapped` (the sum in the test of the
capacity), `fault` (any other write outside). `PushStaysInside` excuses the
first two of these and rules out the third.

**Ports.** The arenas of the process are a number. The byte loop reads on into
the end of the file, where the buffer stays as it is. The two functions are the
same but for the path.

**Keys.** A file holds the number of the `generate` whose key it has, or is
empty or absent; each library call may fail, and the process may end, at every
step. OpenSSL itself is external.

**MCComponents.** The eleven components share no variable and no action, so their
disjoint sum (a variable `runs` picks one, the others keep their first state)
has exactly the behaviours of the eleven, and each invariant and property speaks
of one of them.

## 3. Runs

| Run | Checks | Shows |
|---|---|---|
| `arena` | `TypeOK`, `NoFault`, `BlocksInBounds`, `ContentsIntact`, `NothingLeaked`, `ImplementsRegion`, `EndKeepsOlderBlocks` | the allocator without resize is memory-safe and refines `Region` |
| `arena_align` | `BlocksAligned` (violated) | blocks after an odd-sized one are not aligned, although a test is named for it |
| `resize` | `SoundUntilGrown`, `AllocStaysMapped` | everything above still holds until a block is grown in place; even afterwards an allocation touches only mapped memory |
| `resize_overlap` | `BlocksDisjoint` (violated) | growing a block clears the header, and the next allocation overlaps |
| `service` | `Isolation`, `LostOnlyWhenLate`, `DownOnlyAfterLeaks`, `ReadingsInCall`, `TypeOK` | calls never share memory; the only lost mappings are those of late calls; the process goes down only when they have used up the limit, when the kernel refuses memory, or for want of a file other than `os-release`; replies are timely |
| `service_live` | `EveryCallAnswered` | on ARM each accepted call returns, or the process goes down, with one exception: when the highest core is number 127 or above, a call that reads the processor never leaves the loop over the cores |
| `service_leak` | `ServerStaysUp` (violated) | late calls keep their mappings until none is left and `sys_ram_read` writes through a null pointer |
| `components` | `TypeOK` | every structure keeps its shape, texts end inside their fields |
| | `TextOfLastUnlessLonger`, `StaticFieldsIdempotent` | when a text of `cpu_read_amd64` is right, and that reading twice does not make it worse |
| | `AmountsExact`, `DeviceDescribed`, `EntryOfProcess` | memory, device and process data are what the kernel printed, in spite of names that run over the next field |
| | `ArmFieldsExact`, `ArmReadEnds` | the ARM reader ends, below 127 cores, with the frequency of the highest one |
| | `EntriesOfLines`, `FaultOnlyOnEmptyKey` | the scanner agrees with splitting into lines; exactly which lines make it fault |
| | `SoundUntilMisused`, `PushStaysInside` | the stack is memory-safe up to four named misuses |
| | `LostOnlyWhenMissing`, `ScanEnds` | which calls lose an arena, and on which files the loop ends |
| | `CleanRunLeavesPair`, `OutdatedKeyIsEmpty` | a crash or failure at any step is repaired by the next complete run; until then a certificate stands beside its own key, a newer one or an empty file, never beside a complete older key |
| | `StoredInOrder`, `DroppedOnlyWhenFull`, `WasteBounded`, `TableTypeOK` | the partition table is exact, names included, up to the point where the arena is full |
| | `AllRunningListed`, `ListedOnceAndRan`, `CutListIsLong`, `ListTypeOK` | a scan of `/proc` under forks and exits is complete and free of duplicates, and one that is cut off has filled a quarter of the arena |
| `cpu_first` | `FirstOccurrence` (violated) | `cpu_read_amd64` leaves the last occurrence of a field, not the first |
| `device_version` | `VersionFromProc` (violated) | `device_read` takes the OS version from `/etc/os-release`, not from `/proc/version` |
| `process_stale` | `NoStaleEntries` (violated) | a second collection appends to the first |
| `process_kill` | `KillReturnsErrors` (violated) | killing a process that has just exited aborts the agent |

The violated properties state what a comment or a test of the repository says;
`PROJECT.json` quotes the lines. More divergences were met that the models
contain and no run is spent on:

- every reader but `device_read` aborts on a file it cannot open where its
  comment promises `ERR_IO` (`ReaderAborts`);
- the readings of one reply are of different moments, where
  `deviceresources.proto:66` says "a point-in-time view" (`Service`);
- `BuildAndStart` may return a null server, through which `Wait` is then called
  (`StartFails`);
- the state letter `T` is stored as `proc_sleeping`; `proc_stopped` is never
  assigned (`StateOf`);
- `cpu_read_amd64` parses the number of cores from the start of the line and always gets 0,
  where `tests/test_cpu_resources.cc:50` expects "CPU core count is > 0"
  (`CoresOf`);
- `device_read` collects no processes, where `resources.cc:794` says that it does;
- on ARM `cores` is the highest number in the list, not the count, and with 127
  and more the loop never ends (`LoopGoesOn`, `Next_i`, `LoopsForever`);
- `process_read` returns `ERR_OK` with nothing read when the process exits after
  `fopen` (`StatusFirstRead`); 128 threads and more do not fit the `i8`
  (`ThreadsOf`);
- `parse_proc_files` loses the last character of each key and a last line
  without a newline, and faults on a line that starts with a colon (`KeyOf`,
  `EndEntry`);
- `calculate_padding` adds the alignment when the pointer is aligned and nothing
  when it is not; `stack_resize_align` fills a new block and returns the old one
  (`ResizeByPush`); `stack_pop` compares with a sum of two addresses (`Popped`);
- the port loop never ends on a file of newlines alone (`GoesOn`), and a missing
  file costs an arena (`PortMissing`).

**Bounds.** `arena`: capacities 2 and 4, sizes 0, 1 and 3, three allocations
and two marks: full, exactly full and over-full arenas, empty blocks, crossed
scopes, and reuse after pop and destroy all occur; words of 7 bits leave room
for the 32 bytes of the header. `resize`: new sizes of 1 (shrink) and 36 (clears
the whole header and data behind it). `service`: two threads and four mappings,
the smallest number with which two calls in `sys_ram_read` can fill the limit
exactly; three moments (0..2) let a deadline pass before, between and after the
readers; amd64, with and without `os-release`. `service_live`: two mappings, so
that failing to map is common; ARM machines with the highest core below the
largest `i8` (1 in the model, 127 in the code) and at it, and one without
`cpufreq`.
`components`: fields of 3 or 4 characters with values shorter, as long and, where
the kernel allows it, longer; files of up to three lines, which is enough for a
long value before and after a short one and for a line between two others; all
files of up to six characters for `ProcFile`, and 125 of three lines, so that
the third entry overruns an array of two; three pushes (also run with four:
2.8 million states, no error) with sizes that fill the stack exactly, miss by
one, and wrap around (the third push is the one that overlaps after a stale
pop); two arenas and five
calls in `Ports`; four generations in `Keys`, so that an interrupted one can
follow and precede a complete one; an `i8` that wraps at 3. For the partition
table a first array of 1 (8 in the code), an arena of 7 = 1 + 2 + 4 and five
lines: two growths and a refused third, with names of 1 to 4 characters for a
field of 3. For the process list the same arrays and arena with two pids and
three collections: growths in the middle of a collection, a refused one, and
collections after others (also run with three pids and two collections: 1.1
million states, no error).
Bounds that cap a behaviour and not the code: `MaxAllocs`, `MaxTime`,
`MaxLines`, `MaxPartitionLines`, `MaxCollects`, `MaxReads`, `MaxMemLines`, `MaxStatusReads`,
`MaxOsLines`, `MaxPushes`, `MaxPortCalls`, `MaxGenerations`. Runs without deadlock checking are those in which a
behaviour may end: at these bounds, after an abort, or when no port is free.

**Fairness.** `FairSpec` assumes weak fairness of each thread's own steps: the
operating system runs every thread that can run, and no handler waits for
another (there are no locks). Nothing is assumed of clients, the clock or
start-up. `PortFairness` and `ArmFairness` say the same of the thread inside
`port_read_tcp4` and `cpu_read_arm64`; whether and when they are called is left
open.

## 4. Proofs

Each proof follows the same argument: `Init => IInv`,
`IInv /\ [Next]_vars => IInv'` with one step or lemma per action, and
`IInv => Inv`. The inductive invariants stand in the components' modules, after
the properties; each was checked by TLC on the run of its component before it
was proved. All sizes, bounds and sets of inputs are arbitrary, within the
`ASSUME`s named below, which TLC evaluates on every run.

**ArenaProofs.** Assumptions: header of positive size, capacities at most
`MaxCapacity`, and no requested size that would make `MaxCapacity + size` reach
`2^WORD_BITS`. Callers ask for structures, or for arrays at most twice as long
as one that fitted, so this holds in the code. `AlignAssumption` says that
`ARENA_ALIGN` is a power of two, which is why `align` is the identity here.
`IInv` adds to the checked invariants that stamps are unique and bounded by the
clock, that a mark is inside the arena and at or above the end of each live
block older than it (what makes the end of a scope harmless, in whatever order
scopes, pops and clears come), and that an unmapped arena has no blocks.
From it follow `TypeCorrect`, `MemorySafe`, `InBounds`, `Isolation`, `NoLeak`,
the action property `ScopesKeepOlderBlocks`, and `Refinement`: every step of
`Arena` is an acquire, a store, a release or a stutter of `Region`.

With `arena_resize`, new sizes, too, must not wrap around when added to a
capacity and a request. `ResizeInv` says that until a block is grown the
invariant of `Arena` holds together with `LastBlock` (no live block reaches
across `previous_position`, so a block that starts there is the last one and may
be cut short), or that the copy of a resize without room has ended the process:
`ResizeSound`. After a growth the header may hold anything that clearing some of
its bytes makes of it; `HeaderInv` says that it still never promises more than
is mapped, and that positions stay so low that no request wraps around:
`AllocAlwaysMapped`. Its core is that clearing the low bytes of a number gives a
number not greater.

**PartitionTableProofs.** `TableInv` adds `Geometric`: with a capacity of `c` the
arrays taken so far add up to `2c - PART_FIRST`, and the last one was taken because
the one before it was full. From it: `OrderKept`,
`NothingDroppedEarly`, `WasteIsBounded`, `TypeCorrect`.

**ServiceProofs.** For any finite number of threads and mappings and any
machine. `IInv` adds `PlaceInv` (which pointers a thread may hold at each
program point) and `ReadInv` (which readings it has taken there, and that they
lie between the arrival of the call and now). From it: `TypeCorrect`,
`CallsIsolated`, `ReadingsTimely`. `LostByLateCalls` counts: each action adds as
many mappings to those that exist as to those held plus `late`, because by
`Isolation` the held ones are all different. `DownAfterLeaks` needs `FailInv`: a
thread that is about to use a null pointer was refused a mapping, or got none
when every one was taken, of which the threads held at most two each and this
one at most its arena; the rest are lost, and `late` never falls. With every
file but `os-release` readable (`Readable`) no reader aborts for another reason.

**ProcessListProofs.** `ScanInv` is what a scan knows at `cursor`: whatever ran
since it began is listed or lies ahead, and everything it listed lies behind.
From it: `TypeCorrect`, `NoneMissed`, `NoneTwice`, for every set of pids and
every interleaving of forks, exits and changes of state. `ArrayInv` adds up the
arrays the list outgrew: `CutWhenLong`.

**StackProofs.** The stack lies at `BASE`, above its capacity and far enough from
the end of the address space that the sum of two addresses in `stack_pop` does
not wrap around. `StackInv` says of each live block that it lies above its
header and that the header leads back to where the stack was (`BlockInv`), that
of two blocks the lower one ends below the header of the upper one
(`BlocksOrdered`), and that the header of a pointer given back since the last
push lies in no live block (`FreedInv`, which makes a repeated pop harmless).
From it, with `StackShape` (what stays even after misuse): `StackTypes`,
`StackSound` and the action property `PushInside`.

**ParseProofs.** Induction over numbers is done with the set of those reached in
the place of a predicate: a set of numbers that misses one misses a least one
(`LeastExists`, `SetInduction`, `UpInduction`). With it `Decimal` is shown to
satisfy its equation (functions on `0 .. n` that do exist and agree,
`DecimalIs`) and to give digits (`DecimalDigits`), a number below `10^8` at most
eight (`DecimalShort`). The loop of `parse_u64` is the sequence of its values
after each character (`ParseValues`); after the digits of `m` it has `m`, because
it had `m \div 10` one digit earlier and the step does not wrap around
(`DecimalStep`, `Remainder`): `ParseReadsBack`, for every `n` of the type and
whatever follows the digits, provided it is no digit.
`ProcFileInv`: `line_start` is behind the last newline, `delim` the first colon
since, or none (`LineInv`), and the entries are those of the lines before. The
step at a newline shows that the copies of the scanner are the entry of the
line (`EntryForIs`, with `PartOfPart` on subsequences of subsequences), and that
appending it gives it the number of the line among the lines with a colon
(`RankFacts`, `MatchesAppend`): `EntriesExact`, `FaultsExact`. `ProcFileTypes`
follows with the lengths of the copies (`CopiesFit`).

**ReaderProofs.** `DeviceInv`: the name so far is that of the last line read that
has one; with division by 86400, 3600 and 60: `DeviceExact`. `ArmInv`: at each
step of `cpu_read_arm64`, which bytes are already those of the board and of the
highest core passed by the loop: `ArmExact`. `CpuInv`: byte `i` of a field is
that of the last line read that reaches it (`ByteAfter`), the zero behind a
value included, and in a later read the bytes of the lines not yet read are
still those of the first: `CpuIdempotent`, and with the greatest line of a key
`CpuTexts`. `CpuTypes` needs values shorter than their fields and sums of
`/proc/stat` below `2^64`. `CoresNeverFound`: whatever number stands behind
"cpu cores", the field stays 0, since `parse_u64` gets the whole line.
`MemInv`: a pointer is unset exactly while no line of its key was read, and
otherwise the copy of one of them; what is copied is the printed number and a
blank (`CutValue`), so `ParseReadsBack` gives `AmountsRead`. `StatusInv`: from the
line of the name to that of the threads, the name and its zero stand at the
start of the entry; the number of threads is written behind it, over whatever a
long name left there: `EntryRead`. Assumptions are those of
section 2 on the lengths of texts, that names consist of bytes other than zero
and newline, and `I8 <= 10^8` (256 in the code): `process_read` has eight
characters parsed, so a number of threads that an `i8` can hold is read whole.

**ComponentProofs.** `KeysInv` says what the files and the memory of `generate`
may hold at each of its steps: `CleanRun`, `KeyFirst`. `PortsLostWhenMissing` is
proved with the type of the counters. `ComponentTypes` is `TypeOK` of
`MCComponents`: `ComponentsInv` joins the inductive invariants of `CpuInfo`,
`ProcFile`, `ProcStatus` and `Stack`, those of the first two only while that
component runs: the others stay in their first state, with an empty file.

**Only model-checked.** `EveryCallAnswered`, `ScanEnds` and `ArmReadEnds`:
liveness is outside the prover's reach. Every other property of a passing run is
a theorem. The properties of the runs that expect a violation are refuted, not
proved.

## 5. Not modelled

`fs_read`: one calculation, no state, no caller. The wrappers of external
libraries (`journal/`, `dbus/`, `libpkg/`): sequences of library calls with
hardly any state of their own, and `libpkg` is not part of the build. `forge/`,
`libvm/` and `common/` are a build helper and empty stubs. The `.proto` files
define interfaces.

The tables are not composed with `Arena`: `align` is the identity for
`ARENA_ALIGN`, so an array of n elements takes exactly n elements of what is
left, which is what `PartRoom` and `Room` count, and `Refinement` shows that nobody else can
write into them.

## 6. Plan

Done: all modules of section 2 and the proofs of section 4. What could be added:

1. The wrappers of section 5, once they keep state or are called.
2. `get_device_impl` in `Service`, once a call is routed to it.
3. The three liveness properties, with a prover that handles `ENABLED`.
