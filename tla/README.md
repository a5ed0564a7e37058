# A verification project for dlog

dlog is a single-threaded daemon that collects log lines from files, FIFOs and TCP
clients, matches them against a tree of rules and writes what the rules make of
them to files, rotated files (`rotlog`) and TCP peers. This directory models the
parts of it that are hard to test in TLA+, checks them with TLC on small
instances and proves the central results with TLAPS for all instances.

1. [The system](#1-the-system) is the inventory: parts, state, operations,
   interactions, what is hard, what correctness means.
2. [The modules](#2-the-modules) says how modules correspond to code.
3. [The runs](#3-the-runs) lists what TLC checks, with bounds and fairness.
4. [What the runs show](#4-what-the-runs-show) gives the results, the
   disagreements between code and documentation included.
5. [The proofs](#5-the-proofs)
6. [What is not modelled](#6-what-is-not-modelled)
7. [Plan](#7-plan)

Source references are relative to `src/`. `PROJECT.json` holds the machine-readable
side: components, runs, mutants, the definition-to-line map, findings, hazards
and theorems.

## 1. The system

### Parts

| Part | State | Operations | Correct when |
|---|---|---|---|
| Memory pool (`mempool.c`) | buffer of equal slots; free list threaded through the free slots (`free_next`, `num_slots`), `-1` at its end; head index | create, alloc, free | no slot is handed out twice; allocation fails only when all are held; headers are written only into free slots |
| Arena (`arena.c`) | pools in size classes, malloc beyond | alloc, realloc, free | a block goes back to where it came from; realloc keeps contents |
| Dynamic strings (`dynstr.c`) | length and data | append, resize, remove range, compare | length and contents agree |
| Hash table (`hashtable.c`) | buckets of chained entries | upsert, find, remove, visit | it is a map; visiting while entries are removed misses nothing |
| Line reader (`lr.c`) | text read and not yet delivered, scan index | get buffer, fill, next line, reset | each line is delivered once, whole, however `read(2)` cuts the stream |
| Write queue (`lw.c`) | array of at most `DLOG_WRITE_HIGH_WM` lines | add, write, destroy | nothing accepted is lost, repeated or reordered; nothing freed is kept |
| Descriptors (`coredesc.c`) | type, state (INIT, PENDING, ACTIVE, DRAIN, DRAIN_ROTATE, DEAD), fd, reader, queue; the TAILQ of active ones | open, close, reset, per-type functions | the list holds exactly the active descriptors |
| Rotlog (`rotlog.c`) | size of the current file | account a write, rotate | no line is split between files; rotation at the configured size |
| TCP destination (`coredesc.c`, `dlog.c`) | connection state, socket number, write event, write queue | connect, reconnect, write | the queue survives reconnections; the state says what the socket is; writes go to its own socket |
| Listening socket and clients | one descriptor per client | accept, read, close | all input of a client is read before it is closed |
| Event system (`evt_inotify.c`; `evt_kq.c` on BSD) | watches on files and directories, epoll registrations | register, wait, process vnode events | changes of a source's file are noticed |
| Main loop (`dlog.c`) | table of pending reads, files to read in this turn | one turn: signals, wait, events, reads; idle turn: pending reads | what is readable is read eventually |
| Signals (`proc.c`, `dlog.c`) | a flag per signal, `sig_delivered` | deliver, process | every signal is acted upon |
| Binary upgrade and shutdown (`fdxfer.c`, `proc.c`, `dlog.c`) | transfer socket, pid file, listening port, inherited descriptors and buffers | SIGHUP: drain, start new process, hand over, shut down; SIGQUIT: shut down | queues are written, sources and clients are continued, port and pid file change hands, both processes get past the transfer |
| Rule tree (`node.c`, `strpartial.c`) | tree of match and write nodes, captures | evaluate a line | rules run in order, `break` leaves the right scope |
| Configuration parser (`parse.y`), patterns (`patterns.c`, Lua's), logging (`log.c`), shared memory (`shmem.c`, unused) | | | |

### Interactions

`main_loop` calls `process_signals`, waits in `EVT_LOOP` for at most
`DLOG_EVENTLOOP_TIMEOUT`, lets `evt_process_vnode` turn inotify events into state
changes and files to read, reads them with `descriptor_read`, and continues pending
reads in a turn without events (`idle_loop`). `descriptor_read` fills the line
reader and passes each line to the rule tree, whose write nodes call
`descriptor_write`. That adds the line to the destination's write queue, writes the
queue and calls the type's `post_line_write`, which rotates a rotlog
(`rotlog_rotate`) or reconnects a socket. Rotation, reconnection and reopening
all call `open_descriptor` or `reset_descriptor`, which keep the active list.
Signal actions walk the same list. All of this is one thread; what runs
concurrently is the signal handler, the kernel's event queue, other processes'
file operations, and the peers.

### What is hard

* A signal handler shares flags with `process_signals` without blocking signals.
* Files are created, deleted and renamed between any two system calls; inotify
  reports it later, when the path may have changed again.
* `read(2)` and `writev(2)` stop where they like.
* Multi-step operations fail half-way: close, rename, open in a rotation.
* A list is changed inside the loop that walks it, and its membership rule (state
  ACTIVE) is changed by code that does not touch the list.
* Two processes share a pid file, a port and a socket during an upgrade, and either may die.
* Events wait in a batch while lines written from the same batch replace the socket they are about.
* Numbers of closed files stay in `d->fd`, and the kernel gives them to other files.
* Progress hangs on events that must not be missed (edge-like notifications, a
  pending table read in idle turns only).

The hazards in `PROJECT.json` list these at their lines, with the properties that
cover each.

## 2. The modules

| Module | Models | Kind |
|---|---|---|
| `SlotAllocator` | what callers of the pool may rely on | abstract specification |
| `Mempool` | `mempool.c` | component; refines `SlotAllocator` |
| `LineReader` | `lr.c`, the loops of `descriptor_read` | component |
| `WriteQueue` | the arithmetic of `lw.c` | operators, used by the next three |
| `Destination` | a destination with a write queue | component |
| `RotLog` | `rotlog.c` composed with the write queue | composition |
| `TcpDest` | `open_skt_w`, `_sktw_post_line_write`, write events of `main_loop`, with the write queue | composition |
| `ActiveList` | life of descriptors and the active list | component |
| `Signals` | handler, `process_signals`, turns of `main_loop` | component |
| `FileSource` | `open_file_r`, `evt_inotify.c`, reading of a file | composition of event system, main loop and descriptor |
| `RuleTree` | the tree of a rule (`parse.y`) and its evaluation (`node.c`) | component |
| `Upgrade` | SIGHUP and SIGQUIT: `dlog_sig_restart`, `dlog_sig_shutdown`, `fdxfer.c`, process control, `main` with `-x` | composition of two processes |
| `KeyMap` | what callers of the hash table may rely on | abstract specification |
| `HashTable` | `hashtable.c` and the table of pending reads | component; refines `KeyMap` |
| `*_proofs` | theorems about the modules they extend | proofs |
| `MCSource` | `FileSource` and `LineReader`, with their constants | instance |
| `MCOutput` | `RuleTree` and `Destination` | instance |
| `MCControl` | `Signals` and `Upgrade` | instance |
| `MCStorage` | `HashTable` and `Mempool` | instance |
| `MCActiveList` | `ActiveList` | instance |

**Mempool.** `hdr[s]` is the `slot_hdr` at the start of slot `s`; a slot that is
held has whatever its holder wrote there (`UserWrite`, over `Junk`), so the pool may
rely on headers of free slots only. A "wild run" is the never used tail of the
pool, one list element with `num_slots > 1`; `AllocCarve` takes its first slot and
writes a header behind it. Pointers are slot indices.

**LineReader.** `buf` and `cur_idx` are the fields of the reader; `input` is the
whole stream, chosen in `ReaderInit`, and `pos` how much of it has been read. `Read(n)` is one `read(2)`
of any size, `StopReading` the end of the read loop, `GetLine` and
`NoLine` the two results of `reader_get_next_line`. The code delivers a line with
whatever terminators were skipped in front of it; `out` is the concatenation of
what was delivered, `ends` where deliveries end, `cuts` where a scan ran out of bytes.

**WriteQueue, Destination.** A line is a record of an identity and a length. After
`writev` wrote up to byte `n` of line `i`, `Written` is what reached the file,
`Retained` what `wq_write` keeps in the array (it subtracts `i+1` entries
whether or not line `i` was complete), `FreedLines` what it frees. `cutoff` records
the line that was last in the queue at a short write. Reading a
freed line is undefined behaviour: the model stops in front of it (`Defined`).

**RotLog.** `file` is what is at the path, `archive[t]` the file renamed in second
`t`. `size` is `*(int *)d->vfn.state`. `Rotate` is the whole of `rotlog_rotate` with
`open_descriptor` and `rotlog_on_activate`; its failures are chosen by `Faults`.
After a failed rename `fd` is a closed number with which the destination goes on; another
descriptor may get it (`NumberReused`), and `strayed` is what is then written to that one's file.
`Init` includes a file left behind by an earlier run, of any size.

**ActiveList.** `st[d]` is the descriptor's state, `list` the TAILQ link by link
(`Store`, `InsertTail`, `Remove` are the macros of `sys/queue.h`), because the code
inserts elements that are already linked, and only the links say what happens then. A
link is named after the element or head it lies in. `kind` is the configuration,
chosen in `Init` from `Configs`. One action per event that opens, closes or changes
the state of a descriptor; the walk of `dlog_sig_rotlog` goes element by element.
`misuse` records the descriptors that events known to bring state and
list apart have touched, `begun` the list as a walk found it, `rotated` and `renewed` the rotlogs the walk has tried and reopened.

**Signals.** Each access of `process_signals` to `sig_delivered` or a flag is a
step; `Deliver` (the handler) may come between any two. `main` is where `main_loop` stands.

The definitions every module has (`Init`, `Next`, `Spec`, `vars`, `TypeOK`) have a prefix in `LineReader` (`ReaderSpec`), `Signals`
(`SignalsSpec`), `RuleTree` (`TreeSpec`) and `Mempool` (`PoolSpec`), because an instance, or a module of proofs, extends each of them together with a neighbour.

**FileSource.** One action per system call of `open_file_r`, `evt_watch_vnode`,
`evt_reg_read` and `evt_reg_vnode_del`, per event of `evt_process_vnode`, and per
outcome of `descriptor_read`; `Others` acts between any two. Files are inodes
numbered as they are made, lines are counted. The inotify queue merges an event with an
equal last one. `unseen` and `overtaken` are histories of arrivals for
which no event was raised, and of deletions that were overtaken by an arrival.

**RuleTree.** A rule is a sequence of statements with depths; `Child` and `Sibling` are the
links that `parse.y` builds from it. `stack` is the recursion of `_eval_node`, a frame per call
with the point it stands at. Whether patterns match, and whether a line comes from the source
asked for, is open (`Outcomes`). `re_match` and `prev_match` are the
pointers of the code, named by the node they point into; `held` are the nodes whose captures are
allocated. `NextLine` starts over with what one line leaves behind for the next. `FollowsNull` and `PatternFails` are the two ways
evaluation ends the process: a capture group without a match, and an error in a pattern, whose text, a string literal, is passed to `free` (node.c:244).
`Enclosing(n)` and `Voided(n)` read off the text of the rule whose captures statement `n` refers to; they are the reference the pointers are compared with.

**TcpDest.** `state` is the descriptor's, `conn` what the kernel makes of the number in `d->fd`, so that the
two can disagree. `event` is a write event that `epoll_wait` has returned and `main_loop` has not come
to: any number of lines may be written in between. How an error is reported differs (`Reports`): epoll sets EPOLLERR, for which
`main_loop` only logs a message; kqueue sets EV_EOF. `WriteErrors` are the errors of `writev` by the state of the connection;
EAGAIN is not among them, since `wq_write` reports it as -1 without an error and `post_line_write` is then not called. A number that another
descriptor has got may refuse the write too, and is then closed under it.
Taking an element off the active list that is not in it stops the model (`crashed`); `ActiveList` has the links.

**Upgrade.** `pc[p]` is where the old process and its child stand, one system call or one turn of a loop at a time. `setup` is
the situation the signal came in. The list only shrinks from there on, so `list` and `todo` are sets, taken in the order
of `setup.order` (`IsNext`). `Walk` is one element of `desc_active_writes_drain`, which closes and frees the elements
it has to go on from: memory used after it was freed is as it was or brings the process down (`Crash`). A child whose
`execve` fails goes on as a copy of the old process. `Killed` ends a process anywhere. Sources are counted in units:
`appended` since the signal, `held` in the reader's buffer, `skipped` what the new process passes over.

**HashTable.** Cells, links and allocation as in `hashtable.c`; the first cell of a bucket is part of the table. A visit
is a sequence of steps, because the visitor (`_read_pending`) removes the entry it was called for (`ReadsToEnd`) and may add one
(`Reopens`). `NextSaved` is the link saved before the call; it may be to a freed cell, and following it may end the process (`crashed`). The loop of
`ht_remove` goes on by the link of the cell it has just freed, which may end the process as well (`ReadsFreed`, `down`). `KeyMap` is the map the callers take it for;
the refinement mapping reads the map off the chains.

## 3. The runs

| Run | Question | Bounds | Distinct states |
|---|---|---|---|
| `source` | `FileSource`: is what is appended read, which changes are missed? | 2 files of up to 2 lines at the path, one or none at the start | 183,226 in all |
| | `LineReader`: which lines are delivered, and is any byte lost? | all inputs of up to 6 bytes, all ways to cut them | (45,526 of them) |
| `output` | `RuleTree`: which statements are evaluated, with whose captures? | all rules of up to 4 statements, those of 5 that open four blocks before a template with captures, all outcomes of patterns, line after line | 715,139 in all |
| | `Destination`: what may be lost, when, and in which order do lines arrive? | 6 lines of length 1 or 2, queue of 3 | (32,731 of them) |
| `rotlog` | when are lines split, unaccounted for or in a foreign file; is rotation on time? | 4 lines, queue of 2, rotation at 3 bytes, 3 seconds, all faults | 3,360,620 |
| `tcp_dest` | does the queue survive, is a connection noticed, does the state agree with the socket? | 4 lines, queue of 2, all outcomes of connect, both ways to report errors | 542,776 |
| `active_list` | is the list exact, what does the walk miss and does it end, when does a reset crash? | 3 descriptors in three configurations, all outcomes of connect and rotation | 97,736 |
| `control` | `Signals`: is a signal served twice, or overlooked? | the three signals of `proc.c`, each sent up to 3 times | 212,182 in all |
| | `Upgrade`: what is written, handed over and left behind, and do both processes get past it? | 40 situations, one upgrade, 1 unit appended, either process killed anywhere | (203,764 of them) |
| `storage` | `HashTable`: is the table a map, is a visit complete while the visitor changes the table? | 4 keys, three of them in one bucket, 2 values, 2 cells; symmetric in values and cells | 105,187 in all |
| | `Mempool`: is the free list exact, is the allocator's promise kept? | 4 slots, two kinds of junk | (10,374 of them) |

Four runs have two components that share no variable. Their instances explore each component while the other is at rest,
in one fixed initial state (`ReaderAtRest`, `TreeAtRest`, ...): every state and step of each component alone is covered, and no product
of the two is built. Fairness is stated for the steps of a component under that guard.

Four claims of dlog's README have a run that states the claim and that TLC refutes, one of them two, with a finding in `PROJECT.json`:

| Run | Claim | Property | Bounds |
|---|---|---|---|
| `line_reader_joined` | README.md:15 "line by line" | `LineByLine` | inputs of up to 4 bytes |
| `rules_break` | README.md:161 "leave the current rule, not just the enclosing block" | `BreakLeavesRule` | rules of up to 3 statements |
| `rules_captures` | README.md:143 "capture groups are made available to inner statements" | `CapturesAvailable` | rules of up to 3 statements |
| `upgrade_closed` | README.md:25 "Open socket connections will be maintained" | `ConnectionsMaintained` | as the upgrades of `control` |
| `upgrade_daemon` | README.md:25 "the upgrade process should be transparent" | `SuccessorFound` | as the upgrades of `control` |

Beside these runs the passing ones say exactly what the code does instead; such a property is not a claim that it should. Where
the code falls short of other claims (README.md:19, 33, 47, 49 and 51; section 4), the passing properties bound the damage: they say under which
circumstances alone it happens.

**Why the bounds are enough.** Four slots give free lists of single slots
with the wild run present, of one slot and exhausted, and releases in every order.
Six bytes hold two lines with empty ones before, between and behind them,
each cut at every byte. A queue of three can be short-written in its first, middle
and last line and then overflow; six writes refill it after that. A
rotation size of three with lines of one and two bytes is hit exactly and exceeded,
and four lines make two rotations with a fault in between. Three descriptors give a list element a
predecessor, a successor, both or neither. Each signal sent three times
can be pending, served and late at once. Two files at a path are a file and the one that takes its
place. Four statements hold two nested blocks with statements behind the inner one, and an else
with a predecessor and a body; the fifth is behind a matchall block that is itself inside a block of a match. Four lines fill a queue of two and reconnect four times, so that an event can be late by more than one socket. Three
keys in a bucket are a first, a middle and a last entry. The situations of an upgrade have each of source, destination,
client and inotify first in the list, deleted and unknown sources, and an empty list. With three files of one line each the properties of `FileSource` hold too (716 thousand
states, a minute).

**Named bounds.** `MaxWrites`, `MaxNow`, `MaxSent`, `MaxFiles`, `MaxLines`,
`MaxLen`, `MaxStatements`, `MaxAppends`, `NumBuckets`, `N` and `HighWM`. `HighWM` stands for `DLOG_WRITE_HIGH_WM`; the proofs hold for
every value.

**Fairness.** Only where progress is asked for. `Signals` and `FileSource` assume weak
fairness of the daemon's own steps: it is one thread, `EVT_LOOP` never waits longer than
`DLOG_EVENTLOOP_TIMEOUT`, and none of the modelled steps blocks. `ActiveList`
assumes it of the steps of one walk, a loop without blocking calls. `TcpDest` assumes that the loop is returned an
event that is registered and has happened, and comes to it. `Upgrade` assumes it of each process as a whole: neither stops by itself, except in
`accept` and `recvmsg`, which are guards, and nothing obliges a call to fail. Nothing is
assumed of signals, other processes and peers, except by guards that stop them at a bound.

**Deadlock** is checked in `rotlog`. The other
systems may stop: the process exits, the queue holds freed memory, a null link or
pointer was followed, freed memory read or a string literal freed, both processes of
an upgrade are at their end, the lines to write or the cells to allocate are used up, or
nothing more happens to the file and dlog, whose turns without work are not steps, waits.

**Types.** `TypeOK` is proved for all modules (section 5). In the runs
it is the first conjunct of the invariant about the component's structure: `ListExact`, `ChainsExact`, `SizeTracksFile`, `LinesKept`, `UnreadIsAnnounced`,
`CapturesOfEnclosing` (`TreeTypeOK`), `HandedOverExactly`; in `Mempool`, `LineReader`, `Destination` and `Signals` it is left to the proofs.

**Mutants.** Every property of a passing run has a mutant in `PROJECT.json`: a variant of
one mapped definition with a plausible bug (marked `Bug:` in the modules)
that makes the property fail under the same cfg.

## 4. What the runs show

*Memory pool.* The list is always a stack of released slots that ends in the wild
run; the pool never hands out a held slot and fails only when it is full.

*Line reader.* No byte is lost or moved (`Conservation`). `DeliveredExactly` says
which lines come out: all but those whose text, without the terminator, was at the end of the
buffer when a scan ran out of bytes. `cur_idx` is then at the end, the
terminator comes first in the next scan and is skipped as an empty line (lr.c:77), so
that the text is delivered glued to the following line, although README.md:15 says that dlog works "line by line" (finding of `line_reader_joined`).
Skipped terminators of empty lines are also delivered in front of the next line, although
README.md:15 has it that empty lines are ignored.

*Destinations.* Until a write stops short, everything accepted arrives once and in order,
and the queue is sound. A short write takes one line too many off
the array (lw.c:72): the last line of the queue is lost although it was accepted, and a
line that was completely written may stay in the queue after it was freed.
README.md:51 has it that lines are dropped "if the buffer is full"; `LossOnlyByShortWrite` and `InOrder` bound the damage of a short write.

*Rotlog.* Among the rotlog's own files no line is split, under all faults (`SplitOnlyIfStrayed`), because a rotation destroys what is left
in the queue (rotlog.c:83), which is also how lines are lost. With the file of another descriptor a line can be split, against README.md:19: a write stops short
in it, the rename of a rotation by SIGUSR1 fails, another descriptor gets the number, and the line goes there whole. A second rotation within the same second renames over the first archive
(rotlog.c:79). After a
failed rename the file is closed and not opened again until a later rotation succeeds, while the message says
that writing continues (rotlog.c:80): lines are queued, then refused, or go to another descriptor's file if
that got the number (rotlog.c:78). `LinesAccounted` says that only a failed rename leads there and that there is no
other way to lose a line besides short writes.

*TCP destination.* Lines survive every reconnection in order (`LinesKept`). A line written between the establishment of a connection and the event that
says so drops the connection (coredesc.c:422); the event is then applied to its successor,
which is taken for active while it is in progress (`ActiveIsConnected`, dlog.c:445). A line written while the connection
is in progress does not disturb it on Linux, where `writev` returns EAGAIN; where it returns ENOTCONN (kqueue) it starts another connection. An
established connection is noticed all the same, unless it is dropped or goes first (`EstablishedNoticed`). If every address fails at once, the reason is
asked of a socket that is closed (coredesc.c:568), and the destination stays in its initial state for good, although README.md:47 says that it keeps trying and the
message for a refused connection says "will retry" (coredesc.c:570). On kqueue a refused connection leaves a closed number in a
pending descriptor: the next line goes to whatever got it (`OwnNumberOnly`).

*Active list.* `ListExact` holds until a rotlog is rotated, a deleted source is reopened,
a pending connection is established, or (kqueue) a client is closed on end of file. After each of these
list and states differ. `rotlog_rotate` inserts an element that is in the
list: what followed it is cut off, so that rotlogs behind it are not rotated by SIGUSR1
(against README.md:49 and the comment at dlog.c:656; `MissedOnlyBehindRenewed` says that no others are missed), and when it is the last it becomes its own successor
and SIGUSR1 never returns; `WalkEndsOrLoops` says that on an intact list this is the only way. A connection that is established
after EINPROGRESS (dlog.c:445) is active and not in the list; when it
breaks, `reset_descriptor` follows null links. `CrashOnlyByLateConnect` says this is the only way.

*Signals.* No signal is served more often than it was sent, and one delivered while `main_loop` waits is
served. A signal delivered while `process_signals` is at work may have its announcement erased
by `sig_delivered = 0` (dlog.c:649), or its flag lowered after its action was started, so that
a USR1 may never rotate anything; `OverlookedOnlyIfLate` says these are the only ones overlooked.

*File source.* Lines appended to the file that is open and watched are read. A source that waits for
its file misses it only if it is moved to the path (IN_MOVED_TO is handled, but not asked for,
evt_inotify.c:111) or created between `access` and the watch (coredesc.c:258). A deletion goes unnoticed
only if another file is at the path when the event is processed (evt_inotify.c:217). A file that is
deleted when nothing is left to read is put in DRAIN_ROTATE, but nothing schedules the read
that would reopen the path (evt_inotify.c:220, against README.md:33; the comment at dlog.c:454 expects every such file to come there once); `DrainedBeforeGone` says
that at least nothing it had is lost. A file renamed away raises no event,
and the renamed file is read on.

*Rules.* Blocks are evaluated as they nest, and captures are those of the innermost match, never freed ones, however
blocks are left. Two exceptions to the documentation (findings of `rules_break` and `rules_captures`): `break` leaves its own block only
(`EvaluatedExactly`; the comment at node.c:198 intends it), while README.md:161 says it leaves
"the current rule, not just the enclosing block"; and a matchall inside a match takes the captures away from the
statements behind it, because it shares the clean-up of match (node.c:47), so that a template with a capture group
follows a null pointer there. This lasts to the end of the match's block, also where the block of the matchall was
nested in an else that has ended (`Voided`). An error in a pattern ends the process (`PatternFails`, node.c:244), so that EVAL_ERROR is never seen by
the statements around it.

*Hash table.* The chains stay exact and the table is the map its callers take it for. A visit calls the visitor once for every
entry that stays, unless the visitor removes the first of several entries of a bucket: the second is then moved
(hashtable.c:201), and the visit goes on from the freed cell it was in. Two pending descriptors whose numbers
agree modulo the number of buckets are enough.

*Upgrade.* The queue of every destination on the active list is written before the process goes (one that is pending, or has dropped off the list, is not), the port is free for the successor, the old
process goes even if no successor comes, and a transfer that has begun ends. Three results are at odds with
README.md:25: only the first descriptor of the list is handed over, if it is a source or a client, since the others are closed before
(`HandedOverExactly`, finding of `upgrade_closed`); a daemon never hands over anything, since
`proc_daemonize` changes the parent whose pid names the socket (`DaemonCutOff`, fdxfer.c:33, finding of `upgrade_daemon`), and its successor then waits in
`accept` for good; and the beginning of a line in the reader's buffer is erased (`HandedOverExactly`, coredesc.c:148). The old process
may remove the pid file of the new one (`PidFileKept`).

Met while reading, not checked: `close_descriptor` frees the symbol that `ht_remove` has freed (coredesc.c:199); a file destination that is deleted is never created
again, against README.md:43.

## 5. The proofs

All theorems hold for every value of the constants under the named assumptions of the
component's module, which TLC evaluates in the runs: pools, queues, lists, inputs and numbers of files of every
size, not only those of section 3. Every invariant that a passing run checks is a theorem, and so are the refinements of
`SlotAllocator` and `KeyMap`; what is left to TLC is liveness. No theorem has hypotheses besides the specification.
Inductive invariants that TLC can evaluate were checked on an instance of the component's run first.

Where a definition is recursive (`CellAt`, `Bytes`) or a maximum is taken (`Enclosing`), induction is a statement about sets of numbers:
`LeastNumber` and `Reaches` (a set with 0 and the successor of each member below `n` reaches `n`) follow from the library's `WFMin`, and a function that
solves the recursion up to `n` is shown to exist (`PathExists`, `SumExists`) before the defined one is compared with it.

`Mempool_proofs`
: `FreeListCorrect` (`PoolTypeOK`, `FreeListExact`), `CarveSafe` (`CarveInPool`),
  `MempoolImplementsAllocator` (refinement of `SlotAllocator`). `FreeListExact` is
  inductive with `PoolTypeOK`: it says there are a length `n`, a start `w` of the wild
  run and a stack `f` such that `FreeListIs(n, w, f)`. Each action's case picks the old witness and gives the new one:
  alloc pops `f` or moves `w`, free pushes. `CarveInPool` and each step of the refinement follow from
  the witness.

`Destination_proofs`
: `NothingIsLost` (`TypeOK`, `NothingLost`) and `QueueNeverDangles` (`NoDangling`), up
  to the first short write and for all faults. Strengthened by `Increasing` (identities in `accepted` increase
  and are below `count`) and `FreedSent` (what was freed was sent): a freed line in the queue would occur twice in
  `sent \o line = accepted`, which is increasing.
  `StaysInOrder` (`InOrder`) and `LossesBounded` (`LossOnlyByShortWrite`) hold across short writes. They are proved together
  (`ShortInv`) with `SentBefore` (what is sent or queued is older than the next line, so a new one goes last) and
  `QueueAccepted` (a queued line is as it was accepted, so that one that is sent whole counts as arrived). The lemmas
  `WrittenPieces` and `WriteRepeats` say piece by piece what `wq_write` sends and keeps: after stopping in line `i` of `m` it
  keeps the `m - i` lines from the `i`-th on, so the `m`-th is lost, and only the `i`-th can come again.

: The rules, which decide what is written, are proved about here too (it extends `RuleTree`): `WalkIsExact` (`EvaluatedExactly`) and `CapturesInScope`
  (`TreeTypeOK`, `CapturesOfEnclosing`), for rules of any length and depth. `WalkInv` describes the recursion: each call was made for the child or the sibling of
  the node below it (`Chained`), the calls waiting for a child are those of the statements around the innermost node (`Surrounded`), and nodes are evaluated in the order
  of the text (`Ahead`, `Within`), so that none is evaluated twice (`OnlyOnce`). `Led` and `Descended` with `Continued` are the two halves of `EvaluatedExactly` while calls are under way: a node
  that is evaluated was led to; one that was led to is evaluated, due, or the sibling of a call that has yet to come to it. `BlockReturns` is why a break inside a block
  does not end the list around it: the block's own node returns EVAL_TRUE. `CaptureInv` adds what the pointers are: the captures in use are
  those of the innermost open match unless a matchall block has ended in it (`Scoped`), and each open match has saved what was in use where it stands and still holds its own (`Saved`). `ScopeKept` says why
  what was saved is still right when the block ends: the captures statement `n` refers to depend on statements before `n` only. The proof of the case of a matchall showed
  that the captures stay lost to the end of the match's block, which rules of four statements are too short to tell apart from the end of the block around the matchall.

`RotLog_proofs`
: `SplitsOnlyByStray` (`TypeOK`, `SplitOnlyIfStrayed`), `SizeIsTracked` (`SizeTracksFile`) and `EveryLineAccounted` (`LinesAccounted`). `Archived` says that archives share no lines with each other, `Settled`
  that the file, and a queue that can still be written, shares none with an archive: so a line that is half written can only be completed in the same file. `Settled` takes the file, the queue and the
  histories as parameters, since a write of the rules is a new line, then what `wq_write` does, then a rotation, in one step: `LineAdded`, `WriteOutKeeps`,
  `WriteFailsKeeps` and `RotateKeeps` carry it from one to the next. `Apart`, in `Settled`, says that a line that is queued or has gone to a foreign file is whole in none of the rotlog's own, and that while the number is the rotlog's no queued line has bytes elsewhere. `LostByRename` says that only a failed rename leaves an active rotlog without its file. `BytesConcat` is what the
  size needs of the sum over the pieces, `WriteShares` what `wq_write` does to the lines of queue and file.

`TcpDest_proofs`
: `LinesSurviveReconnects` (`TypeOK`, `LinesKept`), `ActiveOnlyByStaleEvent` (`ActiveIsConnected`), `StraysOnlyIfDropped` (`OwnNumberOnly`). `SockInv` relates the event in the batch to the
  socket: events are of sockets there were (`SocketsCounted`); a write event of the present socket means that it is, or was, connected
  (`OutIsConnected`), so an active descriptor without a connection has had an event of an earlier one
  (`ActiveByOwnEvent`); and only `main_loop` closes the number of a descriptor still in use (`ClosedIsDropped`).

`FileSource_proofs`
: `UnreadLinesAnnounced` (`TypeOK`, `UnreadIsAnnounced`), `DeletedIsDrained` (`DrainedBeforeGone`) and `ChangesAreNoticed` (`ChangesNoticed`). The
  properties speak of the moment dlog goes to sleep; the invariant says what holds at every system call before it. `Steps` relates state,
  watches and the point in `open_file_r`; `Links` says that a queued IN_ATTRIB is for a deleted file; `LinkCount` what the saved link count is
  compared with. `DrainedBeforeGone` needs an order in the queue: when a file is deleted with lines unread, an
  IN_MODIFY is queued ahead of its IN_ATTRIB, or a read is due (`UnreadAtDelete`); the event that sends the source into
  DRAIN_ROTATE then comes after the one that has it read. `Enqueued` and `Dequeued` say what the queue, which merges equal neighbours, keeps of that.

: What becomes of the bytes that are read is the second part (it extends `LineReader`): `ReaderDeliversExactly` (`ReaderTypeOK`, `DeliveredExactly`) and `BytesConserved` (`Conservation`). `Conservation` is kept
  as a statement about each byte (`BytesInPlace`), which the solver handles better than equality of concatenations;
  the strengthening adds `ScanBoundary`: a scan stops behind a terminator or where
  the bytes ran out, so that the byte before it decides which lines were skipped.

`ActiveList_proofs`
: `ListIsExact` (`TypeOK`, `ListExact`), `WalkReachesUpToRenewed` (`MissedOnlyBehindRenewed`) and `OnlyLateConnectsCrash` (`CrashOnlyByLateConnect`). `Stored`, `Inserted` and `Removed`
  give the effect of the TAILQ macros field by field, `InsertList` and `RemoveList` what that is to a list with `n` elements `f[1]`..`f[n]`.
  `Exact` keeps such a witness until the list is misused. `Tracked` follows a walk from an intact list, with the list as it was as the witness: nothing has been
  reopened and the walk stands at some element (`GoingOn`), or one before the last was reopened and has no successor (`CutShort`), or the last was and is its own (`GoingRound`), from which the walk
  does not return. `Linked` says that an active connection
  outside `misuse` has its links, which hold even when the rest of the list is broken.

`Upgrade_proofs`
: `QueuesWrittenAtExit` (`DrainedAtExit`), `OnlyFirstHandedOver` (`TypeOK`, `HandedOverExactly`), `PidFileIsKept` (`PidFileKept`) and `DaemonIsCutOff`
  (`DaemonCutOff`), for every list and situation. `Control` relates the places of the two processes: no child before the fork, no name
  for the socket before `bind`, nothing received before `accept`. `Named` carries the argument for daemons: the socket has
  the old process' pid only if there was no fork in between, and it is named after the last one. `Emptied` says what the walk of SIGHUP leaves: whatever is still listed is freed, is
  the first (`FirstNext`), or is before the walk; with `SentFirst` only the first is sent. `WrittenFirst` says that a destination is freed or taken off the list
  only after its queue was written, so the second walk finds all others. `PortClosed` and `NoPidYet` are what the port and
  the pid file need.

: The signal that starts an upgrade is the second part (it extends `Signals`): `NoSpuriousService` (`SignalsTypeOK`, `ServedOnlyIfSent`) and `OverlooksOnlyLate` (`OverlookedOnlyIfLate`), for every
  table of signals. `SignalsCovered` says that a raised flag whose action has not started stands for one more delivery than there were starts;
  `LeftBehind` that a flag `process_signals` has passed and left raised was raised while it was at work.

`HashTable_proofs`
: `ChainsStayExact` (`TypeOK`, `ChainsExact`), `EveryEntryVisited` (`VisitsExactly`) and `TableImplementsMap` (refinement of `KeyMap`). `ChainsExact` speaks of the cells found by following links;
  the invariant has a witness instead, which gives each live cell its bucket and its place there (`Layout`), with the entries in it (`Entries`). `CellAtPlace`, `CellAtFinds` and
  `ChainIs` show that following links finds exactly that. Each way to change a chain (`UpsertFirst`, `UpsertMatch`, `UpsertLast`, `RemoveAlone`, `RemoveFirst`,
  `RemoveBehind`) gives the new witness, and what it does to the contents (`Upserted`, `Removed`), from which the steps of the map follow. `OnCourse` is the invariant of
  a visit: as long as no entry was moved to a first cell, the entries that have been visited are not among the cells still to come, and those that must be visited are.

`WalkIsExact` and `CapturesInScope` are about walks that end: after `FollowsNull` and `PatternFails` no step is taken.

Only model-checked: liveness (`AnnouncedIsServed`, `AppendedIsRead`, `WalkEndsOrLoops`, `EstablishedNoticed`, `OldGoes`, `TransferEnds`), because the prover does not
handle fairness. The properties of the violated runs have no theorem for the obvious reason.

## 6. What is not modelled

* Whole components: the ones with status `not_modelled` in `PROJECT.json`. Arena, dynamic strings and templates are sequential
  computations on sizes and text, without the state changes, interleavings and failures the other modules are about; the parser runs before the system does; patterns are third-party code;
  logging keeps no state; shared memory is unused.
* Reader: NUL bytes in the input, `reader_reset`. An inherited buffer is erased (`Upgrade`), never used.
* Rotlog: overflow of the `int` size; writes of a queue that keeps a freed line (`Destination` shows how it comes about).
* Active list: what happens behind a freed element. The walks of SIGHUP and SIGQUIT (`Upgrade`) start from an intact list.
* TCP destination: data in flight that a peer never reads; several addresses of one name, which end like one.
* Clients: reading from them, half-closed connections, starvation of pending reads by other events.
* Hash table: string keys, who owns keys and values, `ht_destroy`; lookups of key 0.
* Upgrade: what `post_line_write` does after the queues are written (a rotlog may rotate, a TCP destination reconnect, dlog.c:577), so that destinations are plain files there; a second upgrade; messages larger than the receive buffer; the files that the new process inherits open.
* Signals: the signal mask that `sig_init` reads uninitialised; `dlog_sig_rotlog` is taken to
  return (`ActiveList` shows when it does not); restart and shutdown are single steps (`Upgrade` has theirs).
* File source: FIFOs, several sources in one batch of events, overflow of the inotify queue, truncation, hard links.
* Rules: the text of templates and the values of variables; several rule sections.
* kqueue, apart from its reports of end of file in `ActiveList` and `TcpDest`.

## 7. Plan

Modelled, in the order of importance to users of the daemon (are lines read, kept, written?): `Mempool`, `LineReader`,
`WriteQueue` with `Destination` and `RotLog`, `ActiveList`, `Signals`, `FileSource`, `RuleTree`; then `Upgrade`, `HashTable` with `KeyMap`, and
`TcpDest`. All safety properties and refinements of the passing runs are proved.

Left to model, in this order: reading from clients on an event loop with several descriptors; batches of events with several sources and the array of files
to read; variables that outlive a line in `RuleTree`; ownership of keys in `HashTable`, with the arena as a family of pools.
