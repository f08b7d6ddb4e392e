# Code-Storage: specifications, model checking and proofs

TLA+ modules for the programs of this repository, with TLC configurations that
check them on small instances and theorems that TLAPS proves for every
instance. Paths are relative to the repository's `src/`.

- [Inventory](#inventory)
- [Plan](#plan)
- [The tiny shell](#the-tiny-shell-tsh)
- [The cache simulator](#the-cache-simulator-csim)
- [The allocator](#the-allocator-mm)
- [The Y86-64 tools](#the-y86-64-tools-pipe-seq-isa-y64sim-y64asm)
- [The proxy](#the-proxy)
- [The BASIC interpreter](#the-basic-interpreter)
- [Runs](#runs)
- [Proofs](#proofs)
- [What is not modelled](#what-is-not-modelled)

## Inventory

The repository collects the exercises of a systems course (`icslabs/`) and a
BASIC interpreter with its library. They are separate programs: nothing calls
across them, except that the pipelined and the sequential processor and the
instruction-set simulators implement the same instruction set, and the
assembler makes the files that the lab 4 simulator loads. Hazards are
listed one by one, at their lines, in `PROJECT.json`.

| component | state | operations | hard behaviour | what makes it correct |
|---|---|---|---|---|
| **tsh**, the shell (`icslabs/lab9/tsh.c`) | job list `jobs[]`, `nextjid`, signal mask, handlers on the stack; the kernel's processes and pending signals | read a command, `eval` (fork, addjob, waitfg), `bg`/`fg`, `jobs`, `quit`; handlers of SIGCHLD, SIGINT, SIGTSTP, SIGQUIT | handlers interrupt main and one another between any two steps; signals do not queue; children end and stop at any time | one foreground job, none at the prompt; the list agrees with the children; keys reach the foreground job only; every child is reaped; waitfg returns |
| **csim**, cache simulator (`icslabs/lab8/csim.c`) | lines with valid bit, tag, time stamp; three counters; variables kept from line to line | read a trace line, access a block (hit, fill, evict) | LRU by aging time stamps; the hit test ignores `valid`; modify accesses twice; unreadable lines repeat the last access | the counts are those of an LRU cache |
| **mm**, allocator (`icslabs/lab7/mm.c`, `memlib.c`) | heap words: boundary tags, free-list heads and links, payload; `mem_brk` | `mm_init`, `mm_malloc`, `mm_free`, `mm_realloc` | long call sequences; order of list and tag updates; splits at the minimum size; heap used up | tags tile the heap; free lists hold exactly the free blocks; no two free neighbours; client blocks disjoint, kept, moved with contents |
| **proxy** (`icslabs/lab10/proxy.c`, `csapp.c`) | descriptor table, thread arguments on the heap, sockets and robust I/O buffers per thread, the log on standard output | accept, a thread per connection, forward request and response, log | threads share descriptors that are reused at once; peers that close at any time or send too little; errors that end the whole process | what a client gets is what its own server answered, in order; every thread ends and closes what it opened |
| **pipe**, pipelined Y86-64 (`icslabs/lab6/sim/pipe/pipe-full.hcl`, `psim.c`) | five pipeline registers, register file, memory, condition codes, status | one clock cycle: fetch, decode, execute, memory, write-back; stall and bubble | forwarding priorities, load/use, mispredicted branches, `ret`, exceptions, and their combinations in a cycle | implements the instruction set; keeps completing instructions |
| **seq**, sequential Y86-64 (`icslabs/lab6/sim/seq/`) | PC, registers, memory, condition codes, and the changes that wait for the next step | one instruction a step | exceptions in the middle of an instruction, changes that are applied late | implements the instruction set |
| **isa** (`icslabs/lab6/sim/misc/isa.c`) and **y64sim** (`icslabs/lab4/y64sim.c`) | PC, registers, memory, condition codes, status | one instruction | partial effects of an instruction that faults; address bounds; the edges of a word | the two agree, but for named differences |
| **y64asm**, assembler (`icslabs/lab5/y64asm.c`) | lines, symbol table, relocation list, address counter, output file | parse a statement, define and relocate symbols, write the binary | forward references, duplicate symbols, gaps and overlaps left by `.pos` and `.align` | the file has the bytes that the source means; wrong sources are refused |
| **basic**, interpreter (`basic_interpreter/Basic/`) | program (lines by number), current line, variables | enter and delete lines, `RUN`, `CLEAR`, `GOTO`, `IF`, `INPUT`, `LET`, `PRINT`, `END` | jumps to missing lines, errors in the middle of `RUN`, iterators that outlive what they point to | lines stay as they were typed; a run without jumps back ends |
| trans, bits, bomb, word puzzles, `mdriver`, `hcl2c`/`yas`/`yis`, StanfordCPPLib | – | – | straight-line or text-processing code, drivers, vendored library | not modelled |

Within **tsh** the parts interact through shared memory and signals: main and
the handlers share `jobs[]` and `nextjid`; children act on the shell through
the kernel (status to wait for, SIGCHLD), the shell on them through `kill`.
Within **csim** main calls `cache_deal`. Within **mm** the client calls `mm.c`,
which calls `memlib.c` for more heap and keeps all its structure in the heap's
own words, next to the client's. Within **proxy** threads share the log and
the process; within **pipe** the stages share the registers and the forwarding
wires of one cycle; within **basic** statements share the program and the
variables.

## Plan

In the order in which the modules are written, the most important behaviour first.

| step | modules | composition and abstract specification | runs, bounds | theorems |
|---|---|---|---|---|
| 1, done | `JobList`, `Tsh`, `TshProperties`, `MCTsh` | `JobList` is the data structure of `Tsh`; `JobControl` is what the header comment of `tsh.c` promises, and `Tsh` implements it | 5: safety, liveness, three disagreements with comments | done: all safety properties, refinement, what a full list loses |
| 2, done | `Csim`, `CsimProperties`, `MCCsim` | `LruCache` is the definition of LRU; `Csim` implements it | 1 | invariant, modify, refinement, counts |
| 3, done | `Mm`, `MmProperties`, `MCMm`, `MmProofs` | `Heap` is what a client may rely on; `Mm` implements it | 1 | done: all safety properties, refinement |
| 4, done | `Y86`, `Isa`, `Hcl`, `Pipe`, `PipeProperties`, `Seq`, `Y64sim`, `Simulators`, `MCSimulators`, `SimulatorProofs`, `PipeProofs` | `Y86` and `Hcl` are the operators that the machines share; `Isa` is the abstract machine that `Pipe` and `Seq` implement; `Simulators` puts the tools side by side | 1, and one disagreement | done: both processors implement `Isa`; where `nexti` agrees with it; types; stall and bubble exclude one another; nothing acts behind a fault |
| 5, done | `Y64asm`, `Y64asmProperties` | the two-pass algorithm against a reading of the source as a whole; its output is the program the simulators run | with step 4 | done: what is refused, the bytes of the file, that it is the program |
| 6, done | `Proxy`, `ProxyProperties`, `MCProxy` | `Forwarding`: each server gets its client's bytes, each client its server's | 1, and one disagreement | done: types, descriptors, own bytes in order, refinement |
| 7, done | `Basic`, `BasicProperties`, `MCBasic`, `BasicProofs` | – | 1 | done: all safety properties |

Modules meant for proofs have no RECURSIVE operator; parameters are CONSTANTS
with named assumptions; each call, handler step or cycle is one action; and
invariants are conjunctions of named parts.

Operators marked "Faulty" in the modules are variants of the definition below
them with a plausible mistake; they are used by no specification, only to see
that the properties would find the mistake.

## The tiny shell (tsh)

`JobList` translates the routines on `jobs[]` (`clearjob` ... `getjobjid`) as
functions of the array and `nextjid`. `Tsh` is the state machine around it:

| module | code |
|---|---|
| `pc`, `bg`, `pid`, `job`, `mask` | where `main`, `eval`, `do_bgfg` or `waitfg` is, its locals and the signal mask |
| `EvalStart` ... `EvalUnblock` | `eval`: block SIGCHLD, fork, block everything, `addjob`, restore |
| `WaitCheck`, `WaitSleep`, `WaitTimeout` | the loop of `waitfg` with `sleep(100)`, which a handler cuts short |
| `BgfgFind`, `BgfgSetState`, `BgfgCont`, `FgWait` | `do_bgfg`: find the job, set its state, SIGCONT, and for `fg` read `job->pid` again and wait |
| `stack`, `hpc`, `hpid`, `Deliver` | active handlers, innermost first, each with its own signal blocked |
| `ChldWait`, `ChldDelete`, `ChldStopped` | the loop of `sigchld_handler` |
| `FwdRead`, `FwdKill` | `sigint_handler`, `sigtstp_handler` |
| `proc`, `unreported`, `pending`, `Exec`, `Die`, `SelfStop`, `Key` | the kernel's view of the children, the children, the keyboard |

Steps are cut where an interruption can be told apart: main's steps run only
when no handler is active, and handlers interrupt main, and one another,
between any two steps unless the signal is blocked. A child that has not yet called
`setpgid` is in the shell's own group, so that `kill(-pid, ...)` misses it; a
stopped child keeps a SIGINT until it is continued. `jobs`, blank lines and
rejected arguments change nothing and are stuttering steps.

Properties (`TshProperties`):

- `ForegroundDiscipline`: never two jobs in the foreground, and none while the
  shell prompts.
- `EntryHasChild`: an entry stands for a child not yet reaped (or being
  deleted this moment), and a child has one entry. This is the race of
  `addjob` against `deletejob` for which `eval` blocks SIGCHLD.
- `KeysSpareBackground`: whatever happens between the `fgpid` of a key's
  handler and its `kill`, the process signalled is not a background job.
- `StopIsListed`: a stop that `waitpid` reported is on the list, but for the
  moments in which the handler or `do_bgfg` is about to act on it.
- `UnlistedOnlyWhenFull`, of steps: a child comes to be without an entry only
  when `addjob` finds no free one, never by a race of `eval` with the handlers;
  and `sigchld_handler` follows the null pointer of `getjobpid` for such a child
  only. The run has more children than entries. That the crash happens is the
  finding `tsh_full`.
- `ImplementsJobControl`: the listed states move as `JobControl` says. The
  header comment of `tsh.c` lists four transitions; `JobControl` needs a fifth
  (a background job stops): `sigchld_handler` lists as ST any child that
  `waitpid` reports stopped (line 401).
- `ZombiesReaped`, `WaitReturns`: liveness, below.

**Fairness.** Weak fairness of main's own steps, of the steps of the active handler, and
of the delivery of each handled signal: the scheduler runs a process that can
run, `sleep(100)` ends, and the kernel delivers a signal that is not blocked.
Reading a command, quitting, keys, and what children do have no fairness: a
user need not type and a program need not end.

**Findings**, each a run that TLC must find violated:

- `tsh_waitfg`: `fg` of a job that is reaped after `do_bgfg` found it. The
  entry is cleared, `job->pid` (line 349) is then 0, `fgpid` also answers 0
  when nothing is in the foreground, and `waitfg(0)` does not return, though
  its comment says it blocks "until process pid is no longer the foreground
  process".
- `tsh_full`: with `jobs[]` full `addjob` refuses a child that runs all the
  same. When it stops, `getjobpid` returns NULL and `sigchld_handler` uses it
  (lines 398, 399): the shell crashes and leaves zombies, though the comment says
  that the handler "reaps all available zombie children". With an entry for
  each child `ReapsAllAvailable` holds.
- `tsh_jid`: `nextjid` wraps to 1 while job 1 is on the list, so two jobs share
  a job ID and `getjobjid` finds the first only.

## The cache simulator (csim)

`Csim` has main's loop (`SkipLine`, `Read`, with what `sscanf` leaves unread
kept from the line before, and `operation` uninitialised, hence arbitrary, at
the start) and `cache_deal`, whose three outcomes are `Hit`, `Fill` and
`Evict`. Every call first ages the valid lines of the set. A tag is cut to an
`int`, as in the code; counters and time stamps wrap like an `int`.

`LruCache` defines an LRU cache by its contents and the order of last use, with
no time stamps. The refinement mapping takes the cached blocks from the valid
lines, the order from the time stamps, and the block being accessed from `addr`,
so that each access is the abstract access to *that* block.

- `ImplementsLru`: hits, misses and evictions are those of `LruCache`.
- `CountsMatchContents`: misses less evictions are the valid lines.
- `ModifyHits`: the second access of a modify always hits.
- `CsimInv`: the inductive invariant: valid lines of a set differ in tag and
  time stamp, no time stamp exceeds the accesses made, other lines are as
  initialised, and between the accesses of a modify its block is cached.

The hit test does not look at `valid`, and an empty line has tag -1. The
results therefore assume (`AddrAssumption`) that no address of the trace has
tag -1 and that tags tell the blocks of a set apart once they are cut to an
`int`; `LengthAssumption` says that the trace is too short for an `int` to
overflow. Both are hypotheses of the proofs and are evaluated by TLC.

## The allocator (mm)

`Mm` keeps everything in `mem`, one function from addresses to words, as the
program does: a word is a tag (`PACK`), half of a pointer, client data, or
undefined. The macros and routines of `mm.c` (`GET_SIZE`, `FTRP`,
`free_from_list`, `coalesce`, `place`, `extend_heap`, `find_fit`, ...) are
operators on that memory with the same names, and each call of the client
(`MmInit`, `mm_malloc`, `mm_free`, `mm_realloc`, `Write`) is one action, for
the program is sequential. A program that read a tag or a link from a word
that holds none would stop TLC with an error.

Abstractions: sizes are counted in words of 4 bytes and fit an `int`; writing
the tags of a block makes the words between them undefined (the code leaves
old values there, on which nobody may rely); `mem_reset_brk` likewise leaves
undefined words. `held`, the client's blocks and the sizes asked for, is the
client's own knowledge, as `mdriver.c` keeps it in its trace. `Links` follows a
list for as many steps as the memory has words; the loops of the code have no
such bound and need none, as no list is longer (`ListsHoldFree`).

- `HeapTiled`: from the first header, well-formed blocks with matching footers
  lead to the epilogue.
- `FreeApart`: no two neighbours are both free.
- `ListsHoldFree`: each list holds exactly the free blocks of its class, once.
- `HeldAllocated`: the allocated blocks are those the client holds (no leak),
  and each has room for what was asked.
- `FitFound`: `find_fit` fails only when no free block is large enough.
- `ImplementsHeap`: the promise of `Heap`: aligned, disjoint blocks that
  nobody else changes and that a reallocation moves with their contents or
  leaves alone.

## The Y86-64 tools (pipe, seq, isa, y64sim, y64asm)

| module | code |
|---|---|
| `Y86` | `isa.c`: words, memory, registers, ALU, conditions, and `step_state` as an operator from states to states |
| `Isa` | the loop of `yis.c`: one `step_state` after the other; the abstract specification |
| `Hcl` | the control signals that `pipe-full.hcl` and `seq-full.hcl` share |
| `Pipe`, `PipeProperties`, `PipeProofs` | `sim_step_pipe`: `update_state`, `update_pipes`, then the stages in the order of `psim.c:716`; stall and bubble logic |
| `Seq` | `sim_step` of `ssim.c` |
| `Y64sim` | `nexti` and `compute_cc` of lab 4 |
| `Y64asm`, `Y64asmProperties` | `assemble` with `parse_line`, `relocate`, `binfile` |
| `Simulators`, `Y86Programs`, `MCSimulators` | the tools side by side, the programs and sources they get |

A program is a function from addresses to instructions that are already taken
apart; a word takes `WORD` addresses. `F`, `D`, `E`, `M`, `W` are the pipeline
registers, `nextF` ... `nextW` what the stages computed for them, `op` what the next clock edge
does with each. One action is one call of `sim_step_pipe`, `sim_step` or
`nexti`, or one statement, relocation or line of the assembler.

- `ImplementsIsa`: `Pipe` implements `Isa` under the mapping "an instruction is
  done when it enters write-back": the registers are those after the pending
  write-back, the program counter that of the oldest instruction behind, the
  condition codes those of one cycle ago (history variable `ccW`). This covers
  forwarding, load/use stalls, mispredictions, `ret`, and that nothing behind a
  fault acts.
- `NoConflict`: no pipeline register is told to stall and to bubble.
- `FaultsActAlone`: from the cycle in which an instruction turns out to be at
  fault, the edges to come change neither memory nor condition codes.
- `PsimKeepsCompleting`: while it runs, the pipeline keeps completing instructions.
- `SeqImplementsIsa`: the same for `ssim`, which applies the changes of an
  instruction at the start of the next step (`ssim.c:669`).
- `NextiAgrees`: each step of `nexti` does what `step_state` does, but for
  four named differences: the sign flag is that of `(int) val`
  (`y64sim.c:284`), the overflow of subtracting the least word is missed
  (`:292`), a store to a bad address goes on (`:431`), and `iaddq` is no
  instruction.
- `ImageRight`: the file has, at each address, the byte which the source read as
  a whole puts there. It is about lines with one statement (and labels before
  it), as the labs write them: `parse_line` accepts several statements, but they share
  one `y64bin`, so that the last one overwrites the others, and a relocation
  recorded for an earlier one patches it. The model has this, the property excludes it.
- `RefusedRightly`: exactly the sources with an error are refused, and without a file.
- `CodeLoaded`: assembling a labelled program gives the program with addresses.

`Isa` leaves one thing open because the code differs: after a stack
instruction with a bad address `step_state` has moved `%rsp` and the processors
have not. It allows both.

**Fairness.** Weak fairness of `Cycle`: `sim_run_pipe` is a loop.

**Finding** `pipe_absolute`: `d_valB` (`pipe-full.hcl:247`) compares register
numbers without excluding `RNONE`. `rmmovq %rax, 20` or `mrmovq 20, %rax` behind a
store takes the address which that store computed for its base. `yas` accepts
these instructions ("Check for optional register"), `step_state` adds no base
then, and `psim -t` on such a program reports that the ISA check fails. The
programs of the run `processors` therefore always name a base register for psim.

## The proxy

`Proxy` has main (`Accept`, `AcceptFails`), the threads (`Start`, the steps of
`doit`, `Leave`), and the peers. `stream[k]` is what the peer of connection `k`
sends, as lines and bytes; `pos`, `sent` and `peer` what was read, written, and
how far the peer has closed; `file` is the descriptor table of the process, from
which the kernel always hands out the lowest free number; `heap` the `struct
args` that main gives to a thread. The functions of `csapp.c` are the guards of
the steps: `GetsLine` and `GetsNoLine` are `Rio_readlineb_w` (which returns 0
for a line that is cut off), `GetsBytes` is `Rio_readnb_w`, `Write` is
`Rio_writen_w`, whose write to a closed connection may be taken, fail, or end
the process with SIGPIPE. `unix_error` ends the process: `AcceptFails`, `ConnectFails`.

- `FdsAccounted`: the open descriptors are exactly those that the running
  threads still have to close, and they are their own connections.
- `ImplementsForwarding`: every server gets its client's bytes in order, every
  client its own server's, the log entries count what was passed on. The
  refinement maps `Forwarding`'s variables to what the sockets hold.
- `TransfersEnd`: every thread ends, or the process does. It is checked for
  clients that end their sending side behind a body (`Ending` in `MCProxy`); for
  clients that keep it open, which is what `grade.py` does, it does not hold, and
  `proxy_post` is that other half.

`ImplementsForwarding` and `TransfersEnd` accept that the process ends, since
`Open_clientfd` does end it when one host cannot be reached, and SIGPIPE may:
neither says anything against the loss of the other threads' transfers.

**Fairness.** Weak fairness of main and of each thread: the kernel runs threads
that can run. A peer that ended its message too early closes eventually;
a peer that has sent everything need not.

**Finding** `proxy_post`: the body is read `MAXLINE` bytes at a time
(`proxy.c:301`), whatever is left of it, so `Rio_readnb_w` waits for bytes that a
client with its connection open does not send; the server never sees the body.
`grade.py` tests POST (line 857) with such a client.

Modelled as it is, and no property's subject: a length right behind
the colon is missed (`sscanf(buf + 16, ...)`); SIGPIPE is not ignored; the
failure to reach one host ends the process with all other transfers.

## The BASIC interpreter

`Basic` has the console (`Type`, `processLine`), the stored program `statements`
(`addSourceLine`), the variables, and `RUN` with one action per line.
Expressions are trees, nested to the depth `Depth`; `eval` evaluates them with
`int` arithmetic that wraps, a quotient that traps, and errors (`DIVIDE BY ZERO`,
undefined variables). `INPUT` waits for the user (`asking`). `CompoundExp::eval` knows an
operator `=` that assigns (`exp.cpp:115`), but the parser, from which every
expression comes, refuses `=` wherever it stands (`parser.cpp:85`): expressions do
not assign. Nor do they have signs, so negative values come from `INPUT` and from
arithmetic. The text of an expression is parsed when its statement is executed,
and `malformed` stands for text that the parser refuses.

- `LinesKept`: a line of the program changes only when a good line with its
  number, an empty one, or `CLEAR` is typed; not by a line that is refused, an error of a
  run, or another line.
- `RunEnds`: a run of a program without jumps back ends or waits for `INPUT`.
  The one thing that may keep it is an `IF` whose condition holds and whose line
  does not exist: it leaves the iterator where it is and is repeated for ever
  (`statement.cpp:198-209`).

Erasing a line erases the map entry that the loop's iterator stands on and then
increments the iterator (`program.cpp:47`), which is undefined: the model has both
outcomes, going on and crashing, and `LinesKept` accepts both. `GOTO` and `THEN` without a number store a target of 0.

**Fairness.** Weak fairness of the interpreter's own steps. The user need not type.

## Runs

| run | instance | states | what it shows |
|---|---|---|---|
| `tsh_safety` | 3 children, 2 entries, 3 commands, 2 keys, children symmetric | 552,143 | the safety properties, the inductive invariant, the refinement |
| `tsh_live` | 2 children, 2 entries, 3 commands, 1 key, no symmetry | 165,530 | liveness under the fairness above |
| `tsh_waitfg`, `tsh_full`, `tsh_jid` | smallest instances that show them | – | the findings |
| `csim` | 5 addresses, 2 sets of 3 lines, 5 trace lines | 94,855 | refinement, counts, modify, invariant |
| `mm` | 3 lists, heap of 72 bytes beyond the prologue, requests of 0, 8, 12, 36 bytes | about 79,000 | all of the allocator's properties, for call sequences of any length |
| `processors` | words of 6 bits, addresses 0 .. 39, two registers; all programs of 3 instructions (psim: also of 4), 3,375 + 729 assembler sources | 257,060 | the simulators against `step_state`, the assembler against its definition |
| `pipe_absolute` | stores and loads without a base register | – | a finding |
| `proxy` | 2 connections, 4 or 2 free descriptors, bodies of up to 3 bytes, chunks of 2 | 382,728 | descriptors, forwarding, that every transfer ends |
| `proxy_post` | 2 clients that keep their connections open | – | a finding |
| `basic` | 2 line numbers, 2 variables, 13 statements, 2-bit values, expressions two operators deep | 73,622 | lines kept, runs end |

Why the bounds suffice. *tsh*: with two entries and three children the list
fills up, an entry is used again, and a stopped, a background and a foreground
job can exist together; three commands start two jobs and resume one; two keys
interrupt each other's handlers. *csim*: four blocks compete for three lines,
so a victim must be chosen by use and not by age of loading (which needs a hit
between fills, five accesses in all); the addresses 0 and 2 lie in different
sets; modify and unreadable lines occur anywhere. *mm*: requests need blocks of
16, 24 and 48 bytes on a `CHUNKSIZE` of 24: a split may leave 8 bytes (too
small for a block), 16 or more; a request may exceed `CHUNKSIZE`; merges move
blocks through all three classes; all four cases of `coalesce` and the failure
of `mem_sbrk` occur. There is no bound on the number of calls. *processors*:
the pipeline has five stages, so a program of four instructions behind a
prologue of two fills it with any combination of producers, consumers, loads,
branches, returns and faults; a word takes one address, which scales the 8 of
the source and keeps every address computation; 6 bits are enough for an
overflow, for addresses outside memory on both sides, and for results that do
not fit the smaller `int` of `y64sim` (3 bits). Programs come to a halt after
at most a few loops, as memory beyond the program is zero, which is `halt`.
*y64asm*: three lines suffice for a use before, between and behind two
definitions and for code that `.pos` puts over other code; the 729 labelled
programs come back as the programs the simulators run. *proxy*: one connection
has every request and answer and peers that go away at any step, the other is
an ordinary transfer that must not be disturbed; with room for one pair of
descriptors only, `Accept` and `Open_clientfd` fail; 3 bytes in chunks of 2
leave the last chunk partly filled. *basic*: sessions have no length bound; two
lines allow a jump forward, back, to a missing line, and the deletion of the
line before, at and behind the iterator; 2-bit values overflow in one operation.

`CHECK_DEADLOCK FALSE` is set for tsh, which exits on `quit`, end of file and
SIGQUIT, for csim, which ends with the trace, for the simulators and the
assembler, which end, for the proxy, whose clients may all be served, and for
the interpreter, which `QUIT` leaves.

## Proofs

TLAPS checks these for all values of the constants, under the assumptions that
the modules name.

**tsh** (`TshProofs`; assumptions `MAXJOBSAssumption`,
`PidAssumption`, `BoundAssumption`). `TypeCorrect`, `ForegroundCorrect`,
`EntriesCorrect` and `KeysCorrect` state `TypeOK`, `ForegroundDiscipline`,
`EntryHasChild` and `KeysSpareBackground`. None but the first is inductive;
the strengthening is `TshInv`, which `InvariantHolds` states:

- `JobNamed`: while `do_bgfg` uses its pointer, it points to an entry.
- `HandlersNest`: the active handlers are distinct and where their code is,
  and no SIGCHLD handler runs while `eval` blocks SIGCHLD.
- `ForegroundInv`: where the foreground job may be at each place of main: it is
  the pid that `waitfg` waits for, or the entry that `do_bgfg` works on.
- `ChildInv`: between fork and `addjob` the child is not on the list and not
  reaped; this carries `EntryHasChild`.
- `JobsHaveState`: an entry in use has one of the three states.

`Refinement` proves that every step is a step of `JobControl` or changes no
listed state, with lemmas on what each update of the array does to the listed
states.

`StopsListed` states `StopIsListed`, which is inductive together with
`NewbornUnreported`: a child whose pid `eval` has not put on the list yet has
reported nothing, as SIGCHLD is blocked. `LostOnlyWhenFull` states
`UnlistedOnlyWhenFull`, on a list of any length. It needs `ReportInv` besides:
`sigchld_handler` marks a child stopped that is not reaped, deletes the job of one
that is, and what `waitpid` has still to report is stopped.

**csim** (`CsimProofs`; assumptions `GeometryAssumption`, `LengthAssumption`,
`AddrAssumption`). All three outcomes of `cache_deal` put a loaded line at one
index whose tag no other line has (`Puts`); `PutsInv` shows once that this
preserves `CsimInv`, `PutsCached` and `PutsUses` what it does to contents and
order. `InvCorrect`, `ModifyCorrect`, `Refinement` and `CountsCorrect` follow.
Strictness of the time stamps is what makes "largest time stamp" the least
recently used block.

**mm** (`MmProofs`; `HeapAssumption`: any memory of whole double words
that holds what `mm_init` asks for first, any number of lists, a `CHUNKSIZE` of
whole double words that makes a block, and any set of requests in whole words).
None of the allocator's properties is inductive. They speak of a walk over the
headers; a call changes some of the blocks that this walk meets. The invariant
`HeapInv` speaks of a set of blocks instead. Once `mm_init` has run there is a
set `B` of blocks with:

- `Tiled`: each has matching tags, ends where the next one or the epilogue
  begins, and they start at `first_block`.
- `Lists`: each list holds the free ones of its class, each once. `ListOK` says
  this of one list by a depth for each of its blocks, one more than
  its successor's: an argument by induction without the induction.
- `Apart`: no two of the free ones are neighbours.
- `Taken`: the others are those of the client, each with room for its request.

The lemmas have three layers. The first is about one list (`Unlink`, `LinkFirst`, and
that `Links` follows it from head to end, `LinksOfList`). The second is about tags: a block whose words lie
apart from those that are written stays as it is (`Outside`), so merging,
splitting and extending exchange the blocks in one interval only (`Merge`,
`Split`, `Extend`). The third has a lemma for each function of the code
(`FreeFromList`, `AttachToList`, `Coalesce`, `ExtendHeap`, `Place`, `FindFit`,
`FreeBlock`), which leads from one valid heap to the next and says what the client's
blocks keep (`Keep`).

From there it goes to the calls. `CallIs` shows that each action keeps `HeapInv` and
is one of six things that may happen to the client's blocks (`Call`). `HeapInvariant`
follows, and from it `TypeCorrect`, `TagsWhole`, `FreeBlocksApart`, `ListsRight`,
`NothingLeaks` and `FitsAreFound` for the six invariants of the run, because the walk meets the
blocks of `B` and no others (`WalkIs`). `KeepsPromise` is the refinement of `Heap`:
each case of `Call` is a step of `Heap` on the contents of the client's blocks.

**seq** (`SimulatorProofs`; the assumptions of `Y86` on words, memory and
registers). `SeqCorrect` states `SeqImplementsIsa` of every
behaviour of the tools that starts with a legal program. `LegalProgram` says that
instructions lie in memory as a whole, name the registers they need (without one,
`isa.c` refuses an instruction that the processors execute) and that return
addresses are words; TLC checks that the programs of the run are legal.

- The ALU is proved to stay within words (`AluTyped`); the bitwise operations are
  sums over a set of bits, whose existence takes an induction over finite sets
  (`SumExists`).
- `Does` says what ssim makes of a state by one decoded instruction, in terms of
  the signals of `seq-full.hcl`. One lemma per kind of instruction (`DoesPushq`,
  `DoesRet`, ...) shows that `step_state` makes the same of it; `DoesAll` puts
  them together.
- `SeqInv` has the types of the registers and of the changes that wait.
  `SeenBetween` shows that a call of `sim_step`, which applies the waiting changes
  and computes new ones, is one step of `Isa` on the state with the waiting changes
  applied, and that an instruction that is not AOK leaves its own behind.

**y64sim** (`SimulatorProofs`, with `IntAssumption`). `NextiCorrect` states
`NextiAgrees` for legal programs: `NextiDoes` goes through the instructions one by one
and finds in each what `step_state` does, or one of the differences that `Agrees`
names. `FlagsAre` compares the conditions, with an `int` of any width. `LabInv`
says that the state is one of words for as long as the simulator runs.

**pipe** (`PipeProofs`, on top of `SimulatorProofs`; `FetchAssumption` besides).
`NoConflictCorrect` follows
from the definitions of one cycle's conditions (`ControlOfCycle`).
`FaultsCorrect` states `FaultsActAlone`, with the inductive invariant `FaultInv`:

- `Harmless`, of every pipeline register before memory and of what the stages
  computed for it: an instruction that is at fault when it is fetched does not
  store. (One that turns out to be at fault in the memory stage is the one
  whose address is bad.)
- `Controlled`: a fault in the memory stage or behind it makes the next edge
  put a bubble into M, and neither E nor M ever stalls. So what could act one cycle after
  a fault is already gone.

`PipeTypeCorrect` states `TypeOK` for legal programs, also of instructions on a
path that is not taken.

`PipeCorrect` states the refinement `ImplementsIsa`. Its invariant `PipeInv` adds
to the two above what the instructions in flight are:

- `Done` is the state after the instruction in write-back, as the program sees it;
  `AfterM`, `AfterE` and `AfterD` are the states after the instructions in memory,
  execute and decode, one `step_state` after the other.
- `InOrder`: M is the instruction at `Done`, executed with its operands; E is the
  one at `AfterM`, decoded; D the one at `AfterE`, fetched; and the address fetched now is that
  of `AfterD`. This holds of E as long as the instruction in M goes on (`GoodM`), and
  of D and of the fetch as long as in addition no branch in front of them was predicted wrongly
  (`PathE`, `PathD`): what lies behind a fault or a misprediction may be anything.
- `Bubbles`: a bubble writes nothing, and only bubbles follow a `ret` and a
  branch that was not taken.
- `Computed`: what the stages computed belongs to the registers they read.

`ForwardIs` shows that the forwarding order gives a register's value after the
instructions in execute, memory and write-back, unless the one in execute still loads it
(which `LoadUse` excludes, `DecodeStageIs`). `MemoryIs` and `ExecuteStageIs` say that the
other stages compute what `step_state` does. The edge moves all of this on by one
instruction (`DoneNext`, `InOrderNext`, with one lemma each for a stall, a bubble and a load
of D: `StallKeepsOrder`, `BubbleKeepsOrder`, `LoadKeepsOrder`), and the program
sees a step of `Isa` when an instruction leaves the memory stage and nothing
when a bubble does (`EdgeIsStep`).

Two hypotheses besides `LegalProgram` are needed because the refinement is false
without them. `SourcesNamed`: the program names the registers that it adds or
addresses with; "no register" takes part in forwarding, which is the finding
`pipe_absolute`. TLC checks it for psim's programs. `AwayFromEnd`: the program does not go on at an
address in the last `FetchAhead` bytes of memory, where psim's fetch faults and
`step_state` need not. Addresses outside memory are included, and no program of the run comes
near the end.

**proxy** (`ProxyProofs`; `ProxyAssumption`: finitely many
clients, whose streams are any sequences of items, and any number of
descriptors). `TypeCorrect` and `FdsCorrect` state `TypeOK` and `FdsAccounted`,
with the inductive invariant `ProxyInv`:

- `HeldOpen`: what a thread holds is open and its own connection; a thread
  that has not started holds what its `struct args` says.
- `OpenHeld`: a connection that is open is held by its own thread, which is why
  closing a descriptor never closes another thread's.
- `ArgsHeld`: a `struct args` in use belongs to a thread that has not started.
  There are as many as clients, so `MallocIsFree` is a pigeonhole argument.
- `Lengths`: what is left of a body is above zero while it is being read.

`RelayCorrect` states `OwnBytesInOrder`, the part of `ImplementsForwarding` that
does not speak of bodies' lengths: what is written to a server was read from its
client, and what is written to a client from its server, in the order of
reading. Its invariant `RelayInv` says how much was read and is not written yet;
it holds only while the process runs, because SIGPIPE may end the process between
reading and writing. `ProxyCorrect` adds the rest and states `ImplementsForwarding`, for
streams of any items, of which the first line of a client is a request line. Its invariant
`ForwardInv` relates the variables of `doit` to the message as a whole:

- `RequestInv`: `c_content_len` is what the lines read so far declare and then, with
  what was sent, makes up the message, unless the request is cut off (`CutOff`); when a thread turns to
  the answer, the request was passed on or is cut off.
- `AnswerInv`: the same of `s_content_len` for the answer, and `size` is what was passed on;
  a thread at its log entry has passed on all of it, or the server is gone.
- `LoggedInv`: an entry belongs to a thread that is done, so no connection has two.

**y64asm** (`SimulatorProofs`). `RefusesRightly`, `ImageCorrect` and `LoadsCode`
state `RefusedRightly`, `ImageRight` and `CodeLoaded` of every behaviour of the tools
that starts with a source of lines of statements (`LegalSource`, what the parse
functions can take off a line), whatever their number and whatever the size of a
word. `LoadsCode` has two more hypotheses: a line has one instruction or
directive (`OnePerLine`; the code keeps only the last one of a line, `ImageRight` is
about such sources too), and the statements are those of the program (`Denotes`:
each instruction is a statement at its address with the address of its
symbol for a constant, without `.pos`). TLC checks that the sources of the run
are legal and that the labelled ones denote their programs (`SourcesLegal`).

`FlattenSeq` and `Address` are recursive functions over the source. That such
functions exist and satisfy their equations is proved for all lengths by a least
counterexample, on the offsets at which the lines of the source stand among its
statements. The inductive invariant `AsmInv` says of the two passes, in terms of the
source as a whole:

- `PosInv`: `parse_line` takes the statements in order, and which it has taken.
- `SymInv`: `vmaddr` is the address of the next statement, `symtab` holds the labels
  that were read, at their addresses, each from one statement.
- `RelInv`: each entry of `reltab` stands for a use of a name on its line, and
  a use whose name is not known yet has an entry. So a name that is missing when
  `relocate` comes to it has no definition at all.
- `LineInv`: a line holds the one statement on it that has bytes, at its address,
  with the constant filled in unless an entry still stands for it.
- `WriteInv`: the file holds the bytes of the lines written, and of those that
  overlap the last.
- `RefuseInv`: nothing is in the file before `binfile`, and a source that was refused
  has an error.

**basic** (`BasicProofs`; `BasicAssumption`, `StmtAssumption`: any lines, names and
depth of expressions, an `int` of any width). `BasicTypeCorrect` and
`LinesCorrect` state `TypeOK` and `LinesKept`. `eval` is a recursive function on
expressions of bounded depth: that it exists is proved level by level, again
by a least counterexample (`LevelsExist`, `EvaluationExists`), and `EvalOutcome` says that
it yields an `int` or an error. The inductive invariant is `BasicInv`: the line typed last
(`LineOK`), the stored statements (`StatementsOK`) and the variables (`SymbolsOK`) are
what the program can hold, and the iterator of `RUN` stands on a stored line.
`LineKeptStep` looks at each kind of input and at each statement of `RUN`.

`NatSets` has the facts on `Min` and `Max` of sets of naturals that these proofs
use, from the well-foundedness of `<`.

**Only model-checked.** Liveness (`ZombiesReaped`, `WaitReturns`,
`PsimKeepsCompleting`, `RunEnds` and the rest), which needs ENABLED. And the properties
that a run shows violated.

## What is not modelled

- tsh: what is printed (the `[jid]` announcement, `jobs`), the tokens of
  `parseline`, several processes in one process group, SIGCONT from outside
  the shell, the keyboard reaching a child before its `setpgid`, and the
  re-entrancy of `printf` in handlers.
- csim: options, usage text, verbose output.
- mm: sizes that do not fit an `int`, bytes within a word, the client's misuse
  (freeing what it does not hold), `mm_init` failing for want of the first 96
  bytes.
- Y86-64: code that rewrites itself (`Y86` keeps the program apart from
  memory), loading and printing, the graphical interface, SEQ+, the limits of a
  run: `FarFromLimit` stands for an instruction count far from `max_instr`. psim
  counts cycles with a bubble in write-back as instructions there (`Stat` at
  `pipe-full.hcl:330` maps SBUB to SAOK, and `psim.c:762` tests for SBUB), so that
  a run with a limit stops early. Register bytes that name no register in
  `y64sim`, addresses for which `pos + 8` overflows. The last bytes of memory as
  code for psim: it faults if fewer than 6 bytes remain (`psim.c:1402`, "maximum
  length instruction", which is 10), the simulators of instructions do not.
- y64asm: tokens (lexing, names that begin with a mnemonic), the printed listing,
  a negative `.pos`, offsets past the range of `long`.
- proxy: the text of lines and of log entries, a head longer than MAXLINE, writes
  that block because a socket buffer is full, negative lengths, failures of `malloc` and
  of `pthread_create`, resolving of names (an unreachable host is a request
  marked so).
- basic: tokens, the text of `LIST`, `HELP` and `PRINT`, the end of the input (the
  main loop then repeats for ever), line numbers that are negative
  or not numbers.
- Left out as components: `hcl2c`, `yas` and `yis` (handout tools; generated scanners and
  parsers), `trans` (a fixed order of loads and stores, whose own test is
  exhaustive), the bit and word puzzles (no state), `mdriver` and the other test
  drivers, StanfordCPPLib (vendored).
