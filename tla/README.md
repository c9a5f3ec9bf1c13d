# A TLA+ model of rtjn-kernel2

rtjn-kernel2 is a small 32-bit x86 kernel: a two-stage boot loader, a kernel
with paging, a preemptive round-robin scheduler, ring-3 tasks, an ext2 file
system on an ATA disk, a network stack on an RTL8139 card, and a shell with two
editors. This directory holds TLA+ modules for the parts whose correctness
depends on order, interleaving, failure or a long history of calls, the TLC
configurations that check them on small instances, and TLAPS proofs for every
value of the constants.

`PROJECT.json` lists components, runs, mutants, the source lines behind every
definition (`map`), findings, hazards and theorems. To check a run:
`tlc -config MCSched.cfg MCSched`. To check proofs: `tlapm SchedProofs.tla`.

## 1. Inventory

There is one CPU. All IDT gates are interrupt gates, so a handler runs with
interrupts off from entry to `iret`. The shell is task 0: it runs in ring 0
with interrupts on, and executes every command, all memory management and all
file system and network code. Only the timer and the keyboard interrupt:
`irq_remap` masks every other line and nothing unmasks one
(`arch/install_irq.c:45`), so the network card is only ever polled. Other tasks are copies of one ring-3 program that
only prints, sleeps, yields and exits.

| Part | State | Operations | Used by | Hard behaviour |
|---|---|---|---|---|
| Scheduler (`task/sched.c`, `boot/irqs.s`) | task table, `g_cur`, `g_rr`, `g_next_pid`, TSS `esp0`, kernel stacks | tick, yield, exit, add, alive | timer IRQ, `int 0x80`, faults, shell | preemption inside `sched_add`, frames on shared stacks, slot reuse, fairness |
| System calls (`task/syscall.c`) | none | yield, exit, write, getpid, ticks | ring 3 | switch on return |
| User tasks (`task/usertask.c`) | slot to pid table, stack pages, code page | spawn | shell | preempted between its steps, every step may fail, pages of dead tasks |
| Physical memory (`mm/pmm.c`) | bitmap, used counter | alloc, alloc_blocks, free, free_blocks | heap, user tasks | runs over word boundaries, blocks past the last word |
| Virtual memory and heap (`mm/vmm.c`, `mm/heap.c`) | page tables, headers in the allocated pages | find_free, map, kmalloc, vmalloc, kfree | everything | unchecked NULL from the block allocator |
| ext2 (`fs/ext2.c`) | bitmaps, group descriptor, inodes, blocks; counts in memory | create, remove, rename, truncate, write, mount | VFS | power loss between sectors, directory records that merge and shrink |
| VFS (`fs/vfs.c`) | descriptors, mounts, eight recycled nodes | open, close, read, write, unlink, rmdir, rmtree, rename | shell, editors | pointers to recycled nodes |
| Network (`net/network.c`, `dev/rtl8139.c`) | ARP cache, pending resolution, one ping, one UDP exchange, one TCP connection, receive ring | resolve, ping, exchange, connect, send, recv | shell commands | a poll inside a handler re-enters the stack; late, lost, repeated frames; the card stores frames at any time |
| Keyboard and readline (`dev/keyboard.c`, `shell/readline.c`) | one-slot mailbox, modifier, line, history | key IRQ, read line | shell, editors | IRQ between the reader's two stores |
| ATA (`dev/ata.c`) | none kept | read, write sector | ext2 | errors after the flush are ignored |
| Shell and commands (`shell/shell.c`, `shell/commands.c`) | history | commands | user | few; sequential |
| Editors (`shell/editors.c`) | rows, cursor, register, one line of undo, redo data that outlive the session | every key of nano and vi, load, save | user | long sequences of commands at the limits of fixed arrays, saves that fail |
| Boot loader, GDT/IDT/TSS set-up, ACPI, PCI, USB, terminal, strings | tables written once | - | - | hardware I/O only |

What makes each part correct:

* scheduler: a task resumes exactly where it was interrupted; every runnable
  task runs; pids are unique; the machine does not stop because a task exits;
* memory: a block has one owner, no block leaks on any failure path, the
  kernel's own blocks are never handed out, nothing is refused without need;
* user tasks: a task that can still run keeps its stack page;
* ext2: blocks in use are marked and have one owner, names lead to inodes of
  their type, an operation touches the name it was given and no other, and a
  loss of power keeps all that;
* VFS: a descriptor stays with the file it was opened on; a tree removal
  removes the tree;
* network: an answer is accepted only for the question it answers, a stream is
  delivered in order and once, every wait ends;
* input: no key press is lost or used twice while the reader waits;
* editors: no command leaves the fixed arrays, what was typed is in the file when
  an editor is left without a question, and undo and the inverse commands give
  the text back.

## 2. Plan

| Order | Module | Models | State |
|---|---|---|---|
| 1 | `TaskSet`, `Sched`, `SchedProofs` | the task set promised, the scheduler, its proofs | done |
| 2 | `PhysMem` | the block allocator (its proofs are in `MemSystemProofs`) | done |
| 3 | `KernelHeap`, `UserTask`, `MemSystem` | the clients of the allocator, and all of them with the task set | done |
| 4 | `Ext2Disk`, `Ext2` | on-disk structures, file system calls with power loss | done |
| 5 | `Vfs` | descriptors, recycled nodes, path walks, rmtree, moves, on an abstract directory tree | done |
| 6 | `Net` | ARP, ICMP, UDP exchange, DNS, with the nested polling; the receive ring | done; the transmit buffer is left |
| 7 | `Tcp`, `TcpProofs` | the HTTP exchange over TCP, against an unreliable network, its proofs | done |
| 8 | `Input` | keyboard handler against readline, nano_event and vi_event; history | done |
| 9 | `MemSystemProofs`, `NetProofs`, `InputProofs`, `VfsProofs` | the safety properties of 2, 3, 5, 6 and 8 for every value of the constants | done |
| 10 | `TextBuf`, `Nano`, `ViMotion`, `ViText`, `Vi`, `Editors` | the two editors on the files they share | done |
| 11 | `Ext2Proofs` | blocks, names, link counts and free counts of 4 for every value of the constants | done |
| 12 | `EditorsProofs` | the five properties of 10 for every value of the constants | done |
| 13 | `Ata` | the port protocol of the disk | left |

`Editors` composes `Nano` and `Vi`, both built on `TextBuf`. `MemSystem` composes `KernelHeap`, `UserTask` and, through them, `PhysMem` and
`TaskSet`; it uses `TaskSet` in place of `Sched`, which `Sched` is proved to
implement. The abstract specifications worth stating are the task set (done)
and the descriptor table as a partial function to files; the byte stream of a
connection is stated as an invariant (`StreamIntact`), since it holds only under
conditions.

## 3. Modules and their correspondence to the code

### Sched, TaskSet

Each handler is one action: the stub pushes the interrupted context
(`Pushed`), the C code runs, and the stub resumes the frame chosen (`Resume`).
`TimerIrq` is `irq_common_stub` with `timer_int` and `sched_tick`; `SysYield`,
`SysExit` and `SysOther` are the branches of `syscall_dispatch`; `UserFault` and
`KernelFault` are `exc_handler`; `OtherIrq` any other interrupt. `sched_pick` is
`Pick`, its two loops stated as "the first slot of the scan that satisfies the
condition". `sched_add` runs with interrupts on and is cut where an interrupt
can tell the difference: one loop iteration (`AddScan`), the stores into a slot
no handler looks at (`AddClaim`), `S_RUNNABLE` (`AddPublish`), the stack
(`AddSetStack`) and the frame (`AddBuildFrame`).

A frame address is the stack it lies on and a frame's content is the pid whose
registers are in it. That is enough to see a task resumed from another's frame,
from an overwritten one, or from none at all (`cpu = "lost"`).

`TaskSet` is the promise: pids wait, one runs, one is issued at a time, a task
other than the shell may end. A pid counts as issued when its slot is
published.

### PhysMem

`pmap` is the bitmap as a set; `FirstFree` and `Consecutives` state what the two
searches return; `ScanIsLoop` compares the latter with the loop itself, written
as a recursive function. `held`, `failed` and `straddled` are history
variables: `straddled` becomes true when a run is taken across a full word,
which the code does not intend. `_pm_blocks / 32` words are searched, so the
blocks after them (`NBlocks > NWords * WordBits`) are never handed out.

### KernelHeap, UserTask, MemSystem

`KernelHeap` keeps page table entries as `present` and `vframe` and the header
that `kfree` reads as `hdr`, which lies in the *frame*. `vmalloc` is one step
per page. A NULL from the block allocator is mapped on frame 0, as in the code
(`nullmap`). `UserTask` follows `utask_spawn` step by step, since tasks run and
end between its steps. `MemSystem` interleaves both with the task set over one
allocator; the shell is in at most one of them at a time.

### Ext2Disk, Ext2

A call is a function from a *session* (disk, counts in memory, log of disks
after each write, success, result) to a session. `Ext2Disk` holds the
bitmaps, inodes, block pointers and directory records; `Ext2` the operations and
the actions. `Apply` either completes a call or stops it, after any of its
writes or between two sectors of a block, and mounts the disk again. A block goes out
one sector at a time (`ata.c:258`), a sector at once. Only the split of a
directory entry changes two sectors of a block in use (`ext2.c:649-661`): merges,
tombstones, "..", pointers, bits and inodes lie in one sector, a new block is not
pointed to while it is written, and a table is cut within the window of a truncation.
`Torn` gives the disks between the sectors of a split: the old entry is short already
and behind it is what was there before, zeros or the remains of any entry merged
away. A directory entry takes one unit of 12 bytes
(names of up to four characters); a block holds three units in two sectors, a file has one
direct block and a table of two, so that blocks, tables and directory blocks
all run out. Sizes wrap at `SizeMod`, as the 32-bit size does. Left out: several
block groups (the superblock's totals decide nothing), double indirect blocks
(this code frees them but never allocates one), file contents, disk errors.
`mkfs.ext2` makes the initial disk; `lost+found` is not kept. Permitted names
exclude "." and "..", as the shell's paths are resolved before.

`marks` records the steps after which no consistency is promised: an unlink that
took a tombstone of the same name for the entry (a helper notes it in its session),
a power loss inside a rename or a truncation, or between the sectors of a split, which
may bring a removed name back with a free inode, a `mkdir` below a path that is a file,
which raises the file's link count before it fails, so that removing the file later
keeps its inode (`ext2.c:821`), and the move of a directory that removals have shrunk
to size 0, whose ".." stays as it was (`ext2.c:1203`). They are the known windows; the
invariants say that there are no others in what is modelled.
`DirIsMap` leaves aside a creation in a directory whose table of pointers is
full: it succeeds, and the name is lost with the block nothing points to.

### Vfs

`Vfs` is `vfs.c` with the callbacks of `ext2.c` that it calls, as the shell's file
commands and the editors use them. Only the shell calls it, so nothing runs
beside it; what is hard is that nodes are recycled. `ext2_node_finddir` hands out
the nodes of a ring of eight in turn (`Stored`), so a pointer to a node holds
something else after eight further lookups. A walk (`OpenNode`, `FindParent`)
passes the ring along; a descriptor (`file`) keeps a place of the ring.

The tree below is abstract: a directory is the sequence of its records, and a new
one goes anywhere in it, as ext2 puts it where there is slack. `readdir` and every
lookup see only the records that the directory's size covers, the first `seen` ones.
`ext2_remove_dir_entry` shrinks the size when the last of them goes (`ext2.c:954`,
`973-977`), and by the space merged into it too. The first such removal still leaves
the size right (`size` becomes "cut"). After the next one, or after an addition, which
splits a record that may reach beyond the size (`ext2.c:646-662`), what is listed
depends on where the records lie: `size` becomes "vague", `seen` is any number
(`Outcomes`), and a call on such a directory may also be refused, because it walks the
records in another way than the lookup before it. The exact arithmetic is in `Ext2`;
here every outcome it can have is allowed. Tombstones are left out (Ext2's mark
`tombstone` has what they do to a removal). Contents, and creations that fail because blocks run
out, are in `Ext2`; here only inodes run out. Paths are sequences of names, what
`canonicalize` leaves. `Load`, `Save` and `EchoWrite` open a descriptor, and then
`Truncate`, `Transfer` and `Close` follow, one step for each call. `RmTree` and
`RmTreeStep` are `vfs_rmtree` with its recursion as a stack of frames. `Mv` is
`cmd_mv` with `vfs_rename`: four walks, of which the last ones may overwrite the
node of the source's parent, so the parent used is the one its place of the ring
holds *by then*. Where the source does not exist, `mv` only walks, as `Look` does.

The properties state what holds and under which condition; the conditions are
places where the code does something else than its caller expects:

* a save of a path with nine components or more: the walk of `vfs_truncate` goes
  round the ring, and the descriptor no longer holds the file (`ext2.c:1402`;
  `FdKept`, `Len(path) <= NNodes`);
* a move whose target has four components or more may take the source from
  another directory than its own (`vfs.c:448`; `MoveExact`, `Short`);
* a directory moved into its own subdirectory is cut off from the root
  (`vfs.c:431`; `AllNamed`, `lost`), and so are the records of a directory that did
  not list them when it was removed (`ext2.c:1110`; `lost`);
* after `mkdir d; touch d/a; rm d/a; touch d/b` the record of `b` lies behind the end
  of `d`: its inode is in use and no path leads to it (`AllNamed`: a record there is
  always, a path only outside such directories); a move from or into such a
  directory may hide or uncover other names (`MoveExact`, `Unshrunk`);
* `rm -r` of a directory with several entries skips every second one, because its
  index goes on while the entries move up, and then fails (`vfs.c:407`;
  `RmTreeExact`, `thin`);
* `touch`, `mkdir` and `echo >` do not look for the name, so a directory may hold a
  name twice and the first entry counts (`Index`).

### Input

`Input` is the keyboard interrupt against the code that polls its mailbox. One
action per branch of `keyboard_handler` (`HoldModifier`, `CtrlL`, `TypeKey`,
`Arrow` ...), since the handler runs with interrupts off; one action per access
of `readline` that decides something or stores, since it runs with them on:
`KeyTest` sees a key, `KeyTake` clears `in_read`, `KeyEnter`, `KeyBack`, `KeyTab`,
`KeyPrint` and `KeyInsert` each read `read_key` again, `KeyClear` clears it. A
press that falls between two of them can replace the key that is being looked
at or be wiped by `KeyClear`; such presses are counted in `crowded`. The line is
modelled byte by byte (`insert_char`, `backspace_at`, `delete_word`,
`replace_line`), because what the shell runs is decided by where the 0 is;
drawing is left out. `nano_event` and `vi_event` share the steps `Ev...`; what an
editor does with an event is in `Editors`. Interrupts are numbered, so that the
properties can tell which press took effect, and at which prompt it was made:
`read_key`, `nav_key`, `word_del` and `cancel` hold the press.
Two keys that are not spaces count as different letters.

Two flags outlive the prompt they were meant for, against the comment at
`readline.c:143`, and are left out of `UsedOnce`: `readline` does not reset `do_clear_screen`, so Ctrl+L pressed while a
command runs clears the screen at the next prompt, and nothing resets `ctrl_char`
before an editor starts, so a Ctrl+letter from the prompt is its first event.

### Tcp

`Tcp` is `http_get` from `tcp_connect` to `tcp_close`, again and again, against
`tcp_handle` and a peer. `SendSyn`, `SendRequest` and `Close` end the calls of
`tcp_send_seg`; `Connected`, `NotConnected`, `Recv` and `RecvEnd` are what the two
waiting loops do; `BeginPoll` and `EndPoll` enclose `rtl8139_poll`. While `polling`,
`Handle` runs the code of `tcp_handle` up to its acknowledgement. That goes out
through `ipv4_send`, which may have to wait for an address and then polls, so
`tcp_handle` can be entered again before it has returned: `depth` counts the calls
under way, `rest` holds what each has still to do (`established`, `closed`), and
`HandleRest` does it. Sending polls as well, for the same reason, so `polling` is
true at every send. How an address is resolved is in `Net`: here `ipv4_send`
succeeds or fails. A frame may be handled more than once, late, or never, and
frames of earlier connections (`Old`) are around: the handler looks only at the
destination port.

Sequence numbers count from 0 on both sides instead of from the tick counter and
the peer's choice, so the peer's byte `b` has number `b`; the value of a byte is
its number, which lets `StreamIntact` compare the response with what was sent.
`late` stands for the tick count at which a wait ends and for Ctrl+C, which ends
it early. The properties say that these are the only ways a response can be
damaged:

* the handler never looks at a sequence number, so a segment that is repeated or
  comes out of order is taken as the next one (`network.c:993`, `:983`);
  `disorder` counts those;
* a FIN on a segment that does not fit closes the stream, so the response ends
  early and looks complete (`network.c:995`, `:1004`; `cut`).

### Net

`Net` is `ping` and `nslookup` down to the receive ring. Its state is the stack of
calls under way (`calls`): a command, the `arp_resolve` it waits in, the
`rtl8139_poll` (`"rx"`) inside that, the `arp_resolve` for the answer to an echo
request inside *that*, and so on, up to `MaxNest` resolutions. All of them share
one `arp_pending`. `Send` is `ipv4_send` up to the wait: the next hop is in the cache
or a request goes out. `ArpDone` and `ArpTimeout` end a resolution, `PingEnds` and
`QueryEnds` a command; a wait may end at any time, by its ticks or by Ctrl+C, so
no clock is kept. `Poll`, `RxTest`, `RxHandle` and `RxAck` are `rtl8139_irq_handler`
and its loop; `Arrive` lets the card store a frame between any two of them.
`HandleArp`, `HandleEcho`, `HandlePong` and `HandleAnswer` are the ends of
`net_handle_frame`'s dispatch. `arp_pending_ip` and `icmp_wait_id` are read only
while `arp_pending` and `icmp_waiting` are set, so each pair is one variable.
Commands are numbered by the tick they start at, which is where the code takes
ids and ports from; that the 16-bit id repeats after an hour is left out, that the
port repeats after `Ports` ids is not.

What the properties except is what the code gets wrong or leaves to chance:

* a resolution that waited while another one was entered returns whatever
  `arp_pending_mac` is, the MAC of another host or, after a time out, an old one
  (`network.c:344`; `crossed`);
* a frame stored between the last look at the ring and the clearing of the status
  waits until another frame arrives (`rtl8139.c:127`; `window`);
* a frame of more than `NET_BUF_SIZE - 4` bytes, its checksum included, so any frame
  that fills the Ethernet MTU, ends the loop and is not taken from the ring; the
  status is cleared all the same, and nothing behind it is ever received
  (`rtl8139.c:86`; `Stuck`);
* a query takes a late answer to an earlier one from the same port
  (`network.c:736`; `Port`).

That `arp_cache_add` skips `arp_pending` when it refreshes an entry
(`network.c:264`) is shown to be harmless: the address waited for is never in the
cache. A frame whose place was overwritten half-way through its copy is not
modelled, only one replaced as a whole.

### TextBuf, Nano, ViMotion, ViText, Vi, Editors

`editors.c` has two editors, each with a copy of the same buffer: an array of rows,
a line count, a cursor, a flag. `TextBuf` is that buffer as a record, with the
functions both copies have (insert, backspace, newline, clamp, arrows, load) and
the files. `ViMotion` and `ViText` are vi's functions, one operator each, as
functions from a buffer to the buffer they leave. `Nano` and `Vi` turn them into
actions, one per key or command; `Editors` lets the shell start one editor after
another. `vi_op`, `vi_pending`, the visual selection and the text of the prompts are
folded into the action of the key that completes the command: only the editor
runs, and what an incomplete command leaves behind is nothing (a second key that
does not fit drops the first), but for the direction of a search
(`SearchEscape`).

All rows of the array are kept, not only those in use: `CloseRows` leaves the last
row where it was, and `u`, which restores one line and the line count, relies on it.
What the arrays hold behind a terminator is not kept; where the code makes it part
of the line (`r` at the end of a line, `J` of lines that do not fit), it is any
string of characters (`Overwrite`). A write or read outside the arrays ends in the
mode `undef`, the endless loop of `:s///` in the mode `loop`, and nothing is said
after either. H, M and L go to any row the window can start at or show, as scrolling is
not modelled. A file is read 1024 bytes at a time, which only `:r` shows: the break at
`editors.c:1890` leaves the inner loop, so that in the bytes just read further lines
are dropped, while a line end in the next ones is stored behind the array
(`FillsPast`; `ReadSize`, four bytes in the run). A save succeeds, or fails and leaves the old file or any part of the new one. `Char` is the set of characters a file may
hold; everything typed, and every pattern and replacement, is made of them. Four fields are there
for the properties: `snap` and `exact` (the text to which `u` leads back, and whether
nothing was done since that it cannot take back), `disk` (`torn` in nano) and `left`.

The properties state what holds and what is excepted, which is what a user may
stumble over:

* `u` restores the text only if one line was changed, or lines came or went at the
  end of the text; in all other cases it mixes old and new lines
  (`editors.c:1383`; `exact`). `:e` keeps the undo data of the other file;
* `U` before the first `u` sets the line count to 0 (`:1402`; `undef`);
* a whole-line register longer than a row, `r` at the end of a full row, `:r` near
  or on the last row run out of the arrays (`:1239`, `:2425`, `:1886`, `:1891`; `undef`);
* within one row a range that goes forward (`dw`, `d$`, `v` to the right) selects
  nothing, as the columns are swapped (`:827`; `RowText`); `cc` drops every line
  below (`:2391`);
* a file that fills the array loses its last line when it is loaded (`:1741`;
  `RoundTrip`), and a put of several lines makes one row with line ends in it;
* a save that fails half-way, then `:q` on an unmodified text; nano's Y with a failed
  save; vi on a relative path, which loads one file and writes another (`:1763`,
  `:449`, `:3004`; `LeaveSaved`).

## 4. Runs

| Run | Checks | Instance |
|---|---|---|
| `sched` | types, `ContextIsCurrent`, `FrameIntact`, `LostOnlyInAdd`, `RoundRobin`, `ImplementsTaskSet`, liveness `RunnableRuns`, `SpawnReturns` | 4 slots, 5 pids: slots are reused and the table fills up |
| `sched_race` | violated: `FrameBeforeResume` | 3 slots, 2 pids: one spawn is enough |
| `physmem_share` | violated: `NoSharedBlock` | 4 words of 2 blocks, runs of 2, so a run can go across a full word |
| `memsys` | `FramesAccounted`, `LiveStackKept`, and of the allocator `Exact`, `FailsOnlyWhenFull`, `ScanIsLoop` | 6 free blocks and one behind the last word, runs of up to 3 looked for, 3 pages, 3 user slots, 3 tasks: every allocation and `sched_add` fail somewhere |
| `ext2` | types, `BlocksOwned`, `NamesSound`, `CountsExact`, `DirIsMap` | 3 inodes, 4 blocks, 2 names, 2 restarts |
| `ext2_vanish` | violated: `OthersStay` | 3 names, 4 inodes |
| `ext2_short` | violated: `AppendComplete` | 6 blocks |
| `input` | `UsedOnce`, `NoneLost`, `LineSound`, `KeyTakesEffect` | 4 scancodes, 2 of them crowding; 2 history lines of 3; lines of 2 |
| `vfs` | `FdKept`, `AllNamed`, `MoveExact`, `RmTreeExact` | 4 inodes, 2 names, a ring of 2 nodes, paths of up to 3 components, so that a walk goes round the ring |
| `tcp` | types, `StreamIntact`, `EndHonest`, `NoDangling`, liveness `CallsReturn` | `inbuf` of 2 bytes, `resp` of 3, 4 bytes sent in segments of up to 2, 1 segment amiss, 4 left from an earlier connection, `tcp_handle` inside itself once |
| `net` | `RightHop`, `Noticed`, `AnswersOwn`, liveness `CommandsReturn` | 2 local hosts and a remote one, a cache for 1, a ring for 1 frame, long frames, 2 commands, 2 nested resolutions |
| `editors` | `BufferSound`, `UndoRestores`, `Reversible`, `RoundTrip`, `LeaveSaved` | 3 rows of 3 characters, a register of 7, 2 files of 2 lines, one with carriage returns, 3 changes: 1 121 362 states |

The four violated properties are findings:

* a timer tick inside `sched_add` switches to a task that has no frame yet
  (`sched.c:108`). The proof `OnlyAddLosesCpu` shows it is the only way;
* a search for consecutive blocks counts over a full word and hands out blocks
  in use (`pmm.c:48`). The proof `ExactUnlessStraddled` shows it is the only way;
* removing a directory's last entry shrinks the directory by space already
  subtracted, and other names vanish (`ext2.c:975`). A directory that has shrunk to
  size 0 and is then moved keeps its old ".." (`ext2.c:1203`): the proof of
  `Ext2NamesSound` came upon it;
* an append over a block boundary stops at the boundary (`ext2.c:307`).

**Bounds.** `MaxPid`, `PMax`: tasks ever spawned.
`OnlySane` (MCMemSystem), `Unmarked` (MCExt2): corrupted states are checked but
not explored further, as nothing is promised beyond them. `MaxLinks`: a failed
`mkdir` leaves its parent's link count raised, so counts grow without limit.
`MaxBoots`: restarts. `MaxKeys`: keyboard interrupts; `MaxCrowd`: how many of
them come before the key before them is dealt with: one race needs two.
`MaxConn`, `Total`, `Mss`: connections, and bytes a peer sends, in all and in a
segment; `MaxAmiss`: segments of a connection taken out of order. One connection
is enough for the state inside it, as `Connect` clears all of it and the
segments of an earlier one are in `Old`; more than `inbuf` holds is sent, so that
a segment finds it full. Each instance is the smallest in which every failure
return is taken; the proofs cover all other sizes of all modules (of
`Ext2`, all but `ETypeOK` and `DirIsMap`). The ext2 invariants also hold with four inodes, one restart and one write size
(about five minutes, not kept as a run).

`MaxNest` (Tcp, Net): calls inside each other. In `Net` it also counts the echo
requests that are stored, so that each one stored can be answered. `MaxId`:
commands, two so that the second can meet what the first has left. `CacheSize` is
less than the number of hosts, so that entries are evicted; `RingSize` is one, so
that the ring is full often (with a ring for two frames and one command, where frames
also wait behind a long one, all properties hold as well: three minutes, not kept as a
run). `Long` says which frames may be long; one type is enough, as the type decides
nothing before a frame is taken. `Ports` is more than one, so that an answer to
another port is met; with `MaxId` three a port repeats, and, `Long` being empty,
all properties hold as well (about four minutes, not kept as a run).

`MaxDepth`: components of a path; `NNodes`: the ring, 8 in the code, here less than
`MaxDepth` so that walks go round it. `Explored` (MCVfs): a tree that has lost a
part of itself, or has two directories of a vague size, is not explored further (the
properties hold with two as well, 547 999 states; the proofs have no such bound).
`MaxOpen` is two though no command opens two files: `FdKept` shows none is left open.

`Budget` (Editors): sessions, changes of the text or the register, searches and
failed saves together; undo, redo, saves and leaving are free, and the cursor
moves freely as long as a change can follow. Three are enough to open a file,
change it twice, and undo, save and leave in every order; two changes fill a row,
the array and the register, as the start files nearly do. No property has needed
more than two changes to be refuted by a mutant.

`MCVfs` uses a VIEW that keeps of the ring only the node a descriptor holds and
its distance from the next one written: every other node is written before it is
read, and the places of the ring are alike. `moved` describes the step just taken
and decides nothing. `MCExt2` uses a VIEW without the inodes and blocks no path reaches: they are
written before they are read again. Names are symmetric.

**Fairness.** Only `sched`, `input`, `tcp` and `net` assume any. In `input`,
`WF(ReadlineStep)`: the shell task runs, which is `RunnableRuns` of `sched`;
nothing is assumed of keyboard, commands and editors. In `tcp`, `WF(HttpStep)`
for the same reason and `WF(Tick)`, as the timer interrupt counts on. A poll goes on
as long as the ring is not empty, so it is also assumed that the network leaves it
empty now and then: `SF` of the steps that end a poll or a send. Nothing else is
assumed of peer and network. In `net`, `WF(Step)` and `WF(Returns)`, the shell task
and the tick counter again; there the assumption on the network is part of the
property: commands return unless frames arrive for ever. In `sched`, `WF(TimerIrq)`: the timer chip
interrupts periodically and every handler ends in `iret`, which sets the
interrupt flag again. `SF(ShellStep)`: each time the shell is given the CPU it
executes instructions before the next tick. No task is assumed to yield or exit.

**Deadlock** is checked in all runs: a stopped machine is an explicit stutter.

## 5. Proofs

`SchedProofs` proves, for any `MaxTasks >= 2` and `MaxPid`: `TypeCorrect`,
`ContextCorrect`, `FramesStayIntact`, `PidsUnique`,
`OnlyAddLosesCpu`, `RoundRobinFair` and `Refinement`. None of the safety
properties is inductive alone. The invariant `IInv` adds what they rest on:
each slot's stack pointer is its own, which fields of the slot being added are
set at each point of `sched_add`, pids in use are below `g_next_pid`, the
shell's slot is live and its context is on the boot stack, and a runnable slot
without a frame is the one being added. One lemma per action shows it is kept;
the theorems follow from it, `RoundRobinFair` with lemmas on the distance
`Step` modulo the table size, `Refinement` with one lemma per action that maps
it to `Dispatch`, `End`, `Spawn`, `Stop` or a stutter.

`MemSystemProofs` proves of `PhysMem`, for every memory size and set of requests,
`ReservedSafe`, `ExactUnlessStraddled`, `RefusalsJustified` and `ScanIsTheLoop`. The
first three come from `PMInv`: reserved blocks are marked and not held, and unless a
run has straddled a full word the marked blocks are exactly the reserved and the
held ones and the counter is their number. The counter needs the cardinality
theorems for adding and removing a range of blocks. `ScanIsTheLoop` says that the
loop of `mmap_get_free_consecutives`, turn by turn, stops where `Consecutives` says
it does. What a loop computes after any number of turns is proved without an
induction rule: `LoopExists` shows that the function of its turns exists, and
`UpTo` that an invariant holds for every turn, by looking at the *first* turn that
would break it, which the well-foundedness of `<` provides (`SmallestOf`).

Of `MemSystem` it proves, for every memory size and every number of pages, slots,
tasks and pids, `MSInvariance`, `StackKept`, `FramesExact` and `AllocatorKept`. `MSInv`
has two halves. `SlotInv` does not depend on the allocator: the slot `utask_spawn`
has chosen stays free to the end of the call, as the scheduler meanwhile only lets
tasks end, and `g_user_slots` names the owner of each slot except between
`sched_add` and the store that records its result. `MemInv` says who uses which frame at
each position of `vmalloc`, `kfree` and `utask_spawn`, half-built states
included; it is promised only while `Sane`. `AllocatorKept` carries the theorems
about `PhysMem` over into the composition.

`NetProofs` proves, for all sets of hosts, sizes of cache and ring, and depths,
`NInvariance`, `HopRight`, `FramesNoticed` and `OwnAnswers`. `NInv` reads the stack of
calls: `StackOK` (a command is outermost, a resolution is called by a command or a
handler), `ResolvesOK` (only the innermost `arp_resolve` may be uncrossed, and
`arp_pending` is either its address or has been cleared by its answer), `AckOK` (what
is in the ring when the loop has ended came in the window or cannot be taken) and
`CommandOK` (what is waited for is the running command's).

`InputProofs` proves, for every number of presses and every size of line and
history, `InputInvariance`, `PressUsedOnce`, `PressNotLost` and `LineIsSound`. `KeyInv`
follows a press through the mailbox: at each position of the reader, which key
`read_key` can hold, whether it has been used, and that every press that is due and
not crowded out is still somewhere. `LineInv` says that the line is a string at
every step between two stores of `insert_char`, `backspace_at` and `replace_line`, and
that the history holds only printable lines that fit.

`VfsProofs` proves, for every set of names and every number of inodes, nodes,
descriptors and components, `VfsInvariance`, `DescriptorKept`, `NothingUnnamed`,
`MoveIsExact` and `RmTreeIsExact`. `VInv` contains `TreeInv`: only directories have entries, an entry
names an inode in use that is not the root, no two entries name the same one, and a
size that is not vague covers all of them (`SeenOK`). What a call leaves open is one
lemma, `OutcomeIs`: types, records and sizes are those of the call, and only what a
vague size covers differs (`Redrawn`).
That makes paths unique (`UniquePath`), which is what a move rests on: the two
names it changes lie on no other path (`MovePaths`). `Below`, a union of levels, is
shown to be the least set closed under entries, by a pigeonhole argument on the
sizes of the levels; creations, removals and moves are then compared as changes of
closed sets. The ring is measured by `Ahead`, how many nodes it hands out before a
given one: a walk that is shorter leaves the node alone (`OpenFacts`), which gives
both the `Len(path) <= NNodes` of `FdKept` and the `Short` of `MoveExact`. `Resolve`,
`OpenNode` and `Below` are recursive functions and are unfolded with the loop lemmas
above. `rm -r` needs an invariant of its own, `RmInv`: the calls of `vfs_rmtree` under
way are a chain of paths that goes down from the argument one component at a time
(`Chain`), the argument still names the tree and nothing has come into it (`TopOK`),
and, when every directory is `Thin` (at most one entry, none if it was shrunk), the
call at work is before its first turn or its directory is empty (`HeadOK`): its index
cannot have run past an entry. Every removal is a `Cut` below the argument, which
leaves the paths of the calls above it alone (`CutPaths`).

`TcpProofs` proves, for all buffer sizes, requests, segments, depths and bounds,
`TcpTypeCorrect`, `StreamKept`, `EndKept` and `NeverDangling` (`current_conn` never
points to the connection of an `http_get` that has returned). The invariant `TInv`
adds to the properties what they need: `Bounds` (lengths are within their buffers),
`NestInv` (`tcp_handle` is under way only inside a poll of an `http_get`), `NetInv` (the
segments of this connection are the peer's), `Fresh` (nothing is in the buffers
before the connection is, or is about to be, established) and `End`, which is
`EndHonest` already while the closing call of `tcp_handle` waits to go on. The
lemmas `AwaitedMore` and `AwaitedLess` say what a call that is entered or goes on
adds to or takes from what is still to come. One lemma per action shows `TInv` is
kept, two for `tcp_handle`.

`Ext2Proofs` proves, for every set of names, every number of inodes, blocks, direct
pointers and table entries, every block size and any number of power losses,
`Ext2Invariant`, `Ext2BlocksOwned`, `Ext2NamesSound` and `Ext2CountsExact`. None of the
three properties is inductive: they speak of what a path reaches, and a call works on
inodes that no path reaches yet or any more, and on entries behind the end of a
directory. `Good(d, R, c)` therefore speaks of a set R of inodes *in use* that holds
the root and is closed under names (`Leads`), sees every record of a directory's
blocks whatever its size (`Live`), and allows one inode *in transit*, `c`: the one being
named, moved or removed, which may have two names or none in stated places
(`NamedAt`), and may be counted by a parent that has no entry for it (`Crowd`). The
other conjuncts: blocks of inodes in use are marked and referred to once (`Own`),
each directory begins with "." and ".." (`Heads`), only `c` may have several names
(`OneName`), ".." is where the name is (`Parents`), link counts cover names and
subdirectories (`Linked`). `EInv` says that while no mark is set the disk is `Good`
with nothing in transit for some R, and that until the first reboot the counts are
those of the bitmaps. A call is followed through its session: `Mid` says that the disk
so far is `Good` for an R and a transit, that every image in the log is a disk on
which a restart finds nothing in transit, and that the counts are exact; there is one
lemma per helper of `ext2.c`, and the actions only put them together. For rename and
truncation the images in between are left out, as a loss of power there sets a mark,
and so does one between the sectors of a split.
The loops (`FreeAll`, `WriteData`, `Reach`) are recursive functions, shown to exist and
to keep `Mid` by the loop lemmas. The proof found the window `dotdot` of `marks`: without it
`Parents` is not kept by a move, and TLC has a behaviour to show for it.

`EditorsProofs` proves, for every number of rows, columns and bytes of the register,
every set of files, characters and patterns and any number of sessions and changes,
`EditorsInvariant`, `BuffersSound`, `LeavesSaved`, `UndoIsExact`, `RoundTrips` and
`EditsReverse`. `EdInv` says of a live buffer that lines, rows and register are within their arrays
(`ViBufs`, `NanoBufs`), that vi's cursor is in a row of the text and its undo data, as long as
`exact` is set, lead back to `snap` (`Fit`, `Brings`), that the column is on the line
(`Placed`), that a text which is not modified, and which no failed save has torn, is held
by its file (`Holds`), and that one editor runs at a time. The proof has one lemma per function of
`TextBuf`, `ViMotion` and `ViText`, which says what the function keeps of this (`Works`); several of
vi's leave the column behind the end of the line, so `Placed` is claimed only of the buffer
after `vi_clamp` before the next event (`Settled`), whatever the command has done. What a
change does to undo depends on where it happens: in the saved row, or in rows at the
end of the text, it keeps `exact` true; anywhere else it must have cleared it. That the
rows past the last line keep what they held is what makes a lower line count
reversible. `modified` is shown to be set by every function that changes the lines,
so a text that is not modified is still the one that was loaded or saved. `RoundTrips` rests on what
`Pieces` does with the bytes of a save: the line ends of the file are counted by rank, and
the pieces between them are the lines, as no line holds a line end. The loops (the text of a yank, a
substitution, the bytes of a save) are recursive functions, unfolded with the loop
lemmas.

Assumed are only the named ASSUMEs on constants, which TLC evaluates in the
runs. Three say more than the kind of a constant: in `Net`, 0 is no host, as the code
takes 0 for "none"; in `Input`, a history line is shorter than the line
(63 characters against 255 in the code), and `Typed`, what stands for the lines already in the
history, are printable lines that fit in it. In `ViText`, the register holds a row
(4096 bytes against 160).

**Only model-checked:** liveness (fairness is beyond the prover); `DirIsMap` of
`Ext2` (what a lookup finds after each way to split or merge records) and the
numeric bounds in its `ETypeOK` (the shapes are part of `EInv`).

## 6. Not modelled

* The transmit side of the RTL8139: four descriptors share one buffer and only one
  is waited for. Whether a frame is overwritten before it is sent depends on the
  card alone, so a model would state an assumption and get it back.
* Outside: boot loader, ACPI, PCI, USB, terminal, fonts, strings: register
  sequences and drawing. Shell parsing, and drawing, scrolling, line numbers and messages
  of the editors: sequential and without effect on the text.
* `task/ipc.c` and `user/shell.c` are not in the Makefile.
* The identity mapping at boot, the frame mask of a page table entry and tick
  counter wrap are facts about constants or about years of uptime. So is the
  place of a user task's first stack pointer: `usertask.c:123` puts it in the
  last of a slot's eight pages while only the first is mapped, so a task faults
  on its first push. `UserTask` keeps one page per slot whatever `esp` is, and
  `Sched` lets a user task fault at any point. A failed sector write is not
  modelled: `ata.c:220` reports success whatever the drive says.
