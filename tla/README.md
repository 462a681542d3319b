# A model of the NeXT UnixKit's programs: make, zsh and vim

The repository packages Unix tools for NeXT/OPENSTEP: six small BSD tools, six
GNU programs and three larger ones, each with its own source tree. They share
no code and no state; each is a program of its own. This directory holds a TLA+
development of the ones whose logic a model checker can say something about:

- GNU make 3.76.1, with child processes, `SIGCHLD`, fatal signals at any moment, a
  load limit and a fixed number of job slots under one hand-written discipline of
  flags and signal masks, and an update engine that walks a graph while it changes;
- zsh 4.0.6, whose job table is written by a signal handler and read by everything
  else, and which keeps the two apart with a ring of queued signals of its own;
- vim 6.3, whose text lives in numbered blocks that move between memory and a swap
  file, and are to be found again after a crash.

Source paths below are relative to `src/`; `make/` stands for
`gnu/make/make-3.76.1/`, `zsh/` for `other/zsh/zsh-4.0.6/` and `vim/` for
`other/vim/vim63/`.

## Inventory

| Component | State | Operations | What is hard | What makes it correct |
| --- | --- | --- | --- | --- |
| make: job service (`make/job.c`) | `children`, `waiting_jobs`, `job_slots_used`, `good_stdin_used`, `dead_children`, struct child | `new_job`, `start_waiting_jobs`, `start_waiting_job`, `start_job_command`, `reap_children`, `child_handler` | signal handlers between any two statements, merged or lost `SIGCHLD`, re-entrance of `reap_children` through `die`, vfork failure half way through a target | slots and chain agree, every process is known, one owner of the good standard input, all jobs end, a failure never passes for a success |
| make: fatal signals (`make/commands.c`, `make/main.c`) | `handling_fatal_signal`, `dying`, the signal mask | `fatal_error_signal`, `delete_child_targets`, `die` | the handler runs the code it interrupted | half-made targets are deleted, untouched ones are not, no child is left, nothing new is started |
| make: update engine (`make/remake.c`, `make/file.c`) | struct file: `command_state`, `update_status`, `updated`, `updating`, `last_mtime`, `deps` | `update_goal_chain`, `update_file`, `update_file_1`, `check_dep`, `notice_finished_file`, `remake_file` | the dependency graph is walked again every time a child ends, and changes under the walk; cycles; `-k` | dependencies before targets, each target once, cycles dropped, status propagated |
| make: reader, variables, functions, implicit rules, archives, directories, other systems' ports | symbol tables, directory caches | parsing, expansion, pattern search | text | not modelled |
| zsh: queue of signals (`zsh/Src/signals.h`, `zhandler`) | `queueing_enabled`, `queue_front`, `queue_rear`, `signal_queue`, `signal_mask_queue`, the signal mask | `queue_signals`, `unqueue_signals`, `dont_queue_signals`, `restore_queue_signals`, `run_queued_signals`, `zhandler`, `signal_suspend` | a drain of the ring is itself interrupted, and handlers drain it again; a wait inside a critical section opens it | a signal is dealt with once, outside critical sections, and some day; masks come back |
| zsh: jobs (`zsh/Src/jobs.c`, `signals.c`, `execpline` in `exec.c`) | `jobtab`, `thisjob`, `curjob`, `prevjob`, `lastval`, `lastval2`, `cmdoutpid` | `initjob`, `addproc`, `update_job`, `printjob`, `zwaitjob`, `waitforpid`, `bin_fg`, `preprompt` | the handler changes the table between any two looks; a pipeline ends while it is being started; places are used again | the table follows the children, the shell sleeps only with a cause, `$?` is the right one, `%%` names a job |
| zsh: the rest | parse tree, options, history | parser, executor, line editor, loadable modules | text and terminals | not modelled |
| m4 (`gnu/m4/m4-1.4.4/src`) | input stack, symbol stacks, diversions | `pushdef`, `divert`, `undivert`, `push_string` | diversions move from memory to files at a limit | text comes out once and in order |
| gawk (`gnu/gawk/gawk-3.0.6`) | redirection table, node reference counts, arrays | `redirect`, `close_one`, `unref` | a redirection closed behind the program's back when files run out | output is complete and in order |
| sed (`gnu/sed/sed-3.02`) | pattern and hold space, ranges, append queue | the execution cycle | ranges that end before they begin | |
| patch (`gnu/patch/patch-2.5.9`) | hunk, offset, output file, backups | `locate_hunk`, `apply_hunk`, `move_file` | interruption between writing and renaming | original or result, never neither |
| grep (`gnu/grep/grep-2.4.2`) | automata, read buffer | `dfaexec`, `fillbuf` | text | |
| sudo (`other/sudo/sudo-1.6.7`) | timestamp file, sudoers, its lock | `timestamp_status`, `update_timestamp`, `visudo` | clocks set back, files replaced between two looks | |
| vim: memory file and lines (`vim/src/memfile.c`, `memline.c`) | `memfile_T` (used list, free list, numbers, translations, `mf_dirty`), `ml_locked`, the pointer block, the swap file | `mf_new`, `mf_get`, `mf_put`, `mf_sync`, `mf_release`, `mf_write`, `ml_append`, `ml_delete`, `ml_replace`, `ml_preserve`, `ml_sync_all`, `ml_recover` | blocks are evicted and renumbered while others point at them; a crash between any two calls; a full disk | the text is what was typed; after `:preserve` a crash loses nothing |
| vim: undo, and the rest | undo list, windows, scripts | `u_undo`, editing commands, the display | text, terminals | not modelled |
| cut, dirname, env, md5sum, printf, uname (`bsd/`) | almost none | a filter each | numeric edges | equal to a reference definition |

`PROJECT.json` lists every component with its status, and every hazard with the
line where it bites and the properties that would show it.

### How make's parts interact

`main` reads the makefiles and calls `update_goal_chain` (`remake.c`), which
walks the dependency graph in rounds. A target that must be remade goes through
`remake_file` and `execute_file_commands` to `new_job` (`job.c`), which returns
as soon as the first command has been forked (with one slot: when the target is
finished). Each round begins with `start_waiting_jobs` and `reap_children (1, 0)`;
`reap_children` starts the next line of the target whose line has ended, or tells
the update engine with `notice_finished_file`. `SIGCHLD` only counts. A fatal
signal runs `fatal_error_signal` (`commands.c`) on top of whatever was running: it
deletes what the children were making, reaps them with the same `reap_children`
and dies of the signal. A command that fails without `-k` makes `reap_children`
call `die` (`main.c`), which again calls `reap_children`.

### How zsh's parts interact

The executor (`execpline`) takes a place in the job table, forks the processes of a
pipeline into it with `SIGCHLD` blocked, and waits (`waitjobs`), puts the job into the
background (`spawnjob`) or forgets it. Every signal goes through `zhandler`: inside a
critical section it only puts the signal and the mask it found into a ring; outside,
`SIGCHLD` reaps all children that have changed and updates the table, which may end
the wait the shell is suspended in. `unqueue_signals` at the end of the outermost
section hands the ring's signals to `zhandler` again. `zwaitjob` opens all sections for
the time of the wait. Builtins (`bin_fg`) are one critical section; before a prompt
`preprompt` reports changed jobs, with `SIGCHLD` let through.

### How vim's parts interact

`memline.c` keeps the lines of a buffer in data blocks below a tree of pointer blocks
and asks `memfile.c` for a block by its number. `memfile.c` keeps blocks in a list
with the one used last in front, gives up the one used least when memory is short,
and writes to the swap file then, in `mf_sync`, and nowhere else. A block of a file
just read has a negative number and no place in the swap file; `mf_trans_add` gives it
one, and whoever follows the pointer to it next corrects the pointer (`mf_trans_del`).
`ml_recover` reads what the swap file holds and, for pointers still negative, the
original file.

## Modules

| Module | Contents |
| --- | --- |
| `JobService` | what `job.c` promises `remake.c`, without processes, slots or signals |
| `MakeJobs` | `job.c` with the signal handler and `die`; its properties and its two inductive invariants |
| `MCMakeJobs` | targets and command lines for TLC |
| `MakeJobs_proofs` | proofs about `MakeJobs`: chains, slots, signal masks, standard input (`IInv`); what becomes of each target, its file and make's exit status (`LifeInv`); the refinement of `JobService` |
| `MakeUpdate` | `remake.c`: the rounds over the goals, the walk over the graph, what becomes of the commands meanwhile; its properties and its inductive invariants, each of which contains the one before |
| `MCMakeUpdate` | small makefiles and command line switches for TLC |
| `MakeUpdate_proofs` | proofs about `MakeUpdate`: types, the stack and the marks of the walk (`WalkInv`); when the commands of a target are started (`MadeInv`) |
| `MakeUpdate_result_proofs` | proofs about `MakeUpdate`: what is considered, what is up to date and the exit status (`DoneInv`, `ExitInv`) |
| `ZshSignals` | the ring of queued signals, critical sections, masks and waits of zsh, statement by statement; its properties and its inductive invariant |
| `ZshSignals_proofs` | proofs about `ZshSignals` (`SInv`) |
| `ZshJobs` | zsh's job table with its children, the `SIGCHLD` handler, pipelines and builtins; its properties and its inductive invariant |
| `ZshJobs_proofs` | proofs about `ZshJobs` (`JobsInv`) |
| `VimText` | what `memline.c` promises: a sequence of lines that changes only where it is edited |
| `VimSwap` | `memfile.c` and `memline.c`: blocks, their numbers, the swap file, what recovery would find; its properties and its inductive invariant |
| `VimSwap_file_proofs` | lemmas about the operations of `memfile.c` on any memory file (`MemInv`) |
| `VimSwap_lines_proofs` | lemmas about the operations of `memline.c`: the lines below block 1, finding a line, inserting, deleting, splitting a block |
| `VimSwap_proofs` | the steps of `VimSwap`: its invariants (`SwapInv` and `RecoveryInv`), that recovery finds the text, and the refinement of `VimText` |
| `MCZshSignals`, `MCZshJobs`, `MCVimSwap` | instances for TLC |

An operator whose comment begins with *Wrong* is not part of a model: it is the
definition after it with a bug a programmer might have made. Put in place of that
definition it makes the property it belongs to fail (`mutants` in
`PROJECT.json`), which shows that the property looks at what the definition does.

### MakeJobs

make is a process with one thread. `pc` names the place it is at: `idle` in the
caller, `sw`, `sw_pop` in `start_waiting_jobs`, `slot` in `new_job`, `start` and
`chain` in `start_waiting_job`, `serial` at the end of `new_job`, `reap` and
`reap_...` in `reap_children`, `die`, `sig` in the handler, `exited`. An action is
a stretch of code in the middle of which no other actor can do anything that
matters; the cuts are where a signal handler or a child can come in between:
either side of `wait`, of `block_sigs`, of the two halves of `--dead_children`.

| State | Code |
| --- | --- |
| `command_state`, `update_status`, `last_mtime` | the members of struct file; `last_mtime` is `cached` or `zero` |
| `line`, `good_stdin`, `deleted` | the members of struct child (`command_line` and `command_ptr` together; the sets of children whose flag is set) |
| `children`, `waiting_jobs`, `job_slots_used`, `good_stdin_used`, `dead_children` | the variables of `job.c` (the order of `children` is nowhere observable; that of `waiting_jobs` is) |
| `frame` | the arguments of the `reap_children` call under way, and where it returns to |
| `register` | the register of the comment in `reap_children` |
| `blocked` | the fatal signals are in the signal mask |
| `handling_fatal_signal`, `sig`, `dying`, `die_err` | `commands.c`, and `dying` and `err` of `die` |
| `proc`, `disk`, `sigchld` | the system: each target's process (`none`, `running`, or dead and not waited for, with its result), the target file, a pending `SIGCHLD` |
| `log`, `outcome` | history: which lines were run with which result, and how make ended |

A child is named by its target, since a target has one child at most. A command
line is `run`, `ignore` (a failure does not count) or `blank` (no words). A
target file is `old`, `changed` since make looked, or `gone`.

What the comment of `reap_children` calls harmless is in the model: `SIGCHLD`
does not queue, is delivered at any time after a death or never, and an
increment between the two halves of the decrement is lost. `wait` may be
interrupted by `SIGCHLD` (`WaitInterrupted`, `EINTR`) or restarted
(`child_handler` alone), as 4.3BSD and System V differ. A next line is started by
`RunNextCommand`, from inside `reap_children`, whoever called it. `NullCommand` is
undefined behaviour: the model crashes or takes the line for an empty one.

Left out: remote jobs (the port links `remote-stub.c`), `-q`, `-t`, `-n`, a `:`
that is not forked at all, `$(shell ...)`, `also_make` (other targets of the same
commands), phony targets and archive members, the deletion of intermediate
files, a second fatal signal, targets whose commands are white space only
(`execute_file_commands` finishes them without `new_job`). The caller asks for each
target once, in any order: a superset of what `remake.c` does. Commands are assumed to
write their target no more once they have got the user's signal (`ChildWrites`);
`InterruptedDeleted` rests on that.

### JobService

Each target goes from not started to running to finished; its lines are run in
the order they are written, the next one only if every one before it succeeded
or its error is ignored; status 0 only if every line that runs anything was run,
status 2 only if a line failed or (`MayGiveUp`) could not be started. The
refinement mapping hides everything else; `update_status` is shown only once the
target is finished, because `job.c` sets it earlier.

### MakeUpdate

`update_file` and `check_dep` call each other, and the graph, the times and the
states of the targets change while they do, because `new_job` reaps children.
So the C stack is explicit: `stack` has a frame for each call under way, with its
local variables and the place in its code (`at`), and `ret` holds the result of the
call that has just returned. `pc` tells the loop of `update_goal_chain` (`round`, `goal`,
`considered`) from the walk, from the time inside `new_job`, and from the ends of
make (`exited`, `died` for `die (2)` and `fatal`, `aborted` for `main`'s default case).

| State | Code |
| --- | --- |
| `command_state`, `update_status`, `deps` | the members of struct file (`deps` as a sequence; circular ones are removed from it) |
| `updated`, `updating` | the sets of files whose flag is set |
| `last_mtime` | the remembered modification time, `Unknown` for 0; `file_mtime` looks at `disk` if it is not known and remembers |
| `children`, `lines_left` | the targets with a child on the chain of `job.c`, and how far it has come |
| `stack`, `ret` | the calls of `update_file_1` and `check_dep`, with `this_mtime`, `must_make`, `dep_status`, `running` and the place in the chain of dependencies |
| `goals`, `g`, `status` | the variables of `update_goal_chain` (-1 and 0 are one: both end in exit status 0) |
| `reaped` | `reap_children (1, 0)` at the head of the round has reaped a child |
| `disk`, `now` | the system: the files' times, and the clock, which has the resolution of a second, so that files made one after the other may have the same time |
| `job_slots`, `keep_going_flag`, `question_flag` | the switches, chosen among `Switches` at the start |

Two functions set `updating`, and an intermediate file is walked by `check_dep` itself
instead of `update_file`: the actions for the loop over dependencies
(`DropCircular`, `CheckDep`, `DepChecked`) are shared by both and look at the frame
to see whose loop it is. `update_file_1`'s second loop, over intermediate files, is
`UpdateIntermediate` to `IntermediatesDone`. Statuses are joined with `Or`, which is
`|=` over 0, 1 (out of date under `-q`) and 2 (failed).

`job.c` is abstracted to what `MakeJobs` shows of it: the lines of a target are run
one after the other; `reap_children` runs at the head of a round and inside
`new_job`, nowhere else, and calls `notice_finished_file`; `new_job` waits for a
slot, and with one slot for the target; a line may fail, or its vfork may. Commands
write their target only, with the present time or the next second's, or (`Quiet`)
leave it as it is.

Left out: implicit rules are taken as found; double-colon rules, `also_make`,
`.PHONY`, `.DEFAULT`, VPATH, archives, `-t`, `-n`, `+`, `-l`, and the run of
`update_goal_chain` over the makefiles. `d->changed` is not modelled: without these
it feeds `$?` and the choice between two paths with the same outcome for a target
that has no commands; the calls of `file_mtime` made for it are.

### ZshSignals

The shell is one thread; `stack` holds the code under way, the main program at the
bottom and a frame for every call of `zhandler` above it, made by the kernel (`Catch`)
or by `run_queued_signals` (`CallHandler`). A frame's `at` is its place: `entry` of the
handler, `run` in the code of the shell, `drain`, `store`, `mask` and `call` between the
statements of `run_queued_signals`, `loop` and `suspended` in `zwaitjob`.

| State | Code |
| --- | --- |
| `queueing_enabled`, `queue_front`, `queue_rear`, `signal_queue`, `signal_mask_queue` | the variables of `signals.c`; the ring holds events, which `caught` gives the signal of |
| `mask` | the signal mask of the process |
| `stack` | the C stack: `depth` critical sections entered, `waiting` and `q` of `zwaitjob`, `saved` the mask the kernel puts back, `oset` of `run_queued_signals` |
| `caught`, `queued`, `handled` | history: events caught, put into the ring, dealt with |

What a handler does is reduced to entering and leaving sections and waiting; only
signals of `Critical` do that. The port is built with `BSD_SIGNALS`, so handlers stay
installed (`signal_reset` does nothing) and `sigpause` masks all but `SIGCHLD`. Two
constants open windows the code leaves open: with `DrainWindow` signals arrive between
the statements of `run_queued_signals`, with `Overflow` the ring may be full.

### ZshJobs

The functions of `jobs.c` are operators from one `table` to the next, so that an action
that runs several of them (a builtin brings the table up to date, picks the current
job, moves names about and reports) is one definition that composes them.

| State | Code |
| --- | --- |
| `table.jobtab` | `jobtab[1..MAXJOB-1]`: the flags of `stat` as a set, `procs` with `pid` and `status` |
| `table.thisjob`, `curjob`, `prevjob`, `lastval`, `lastval2` | the variables; -1 is `None` |
| `shell` | the place of the main program (`prompt`, `build` in `execpline`, `wait`, `loop`, `suspended`, `waited` in `zwaitjob`, `pidwait`, `pidloop` in `waitforpid`, `scan`, `printed`, `cleared` in `preprompt`) and its locals |
| `handler` | `zhandler` runs its loop over `wait3` |
| `cmdout` | `cmdoutpid`, `cmdoutval` (a status nothing will read any more is left out) |
| `os`, `news`, `sigchld` | the system: what each child does, which changes `wait3` has to report, a pending `SIGCHLD` |
| `disowned`, `result` | history |

A signal caught inside a critical section and one that is blocked are both pending
(`Open` says where it gets through); `ZshSignals` is about the difference. The parent
reads nothing between the test in `zwaitjob` and the suspension, because the code
blocks `SIGCHLD` there: `Loop` to `suspended` is one step, `Catch` ends it.

Left out: super-jobs and subjobs (a shell function in a pipeline that is stopped),
traps, `SIGINT` to a job in the foreground, the terminal's process group, `kill`,
`suspend`, `exit` with jobs, coprocesses, `jobs` with options, nested `$(...)`.

### VimText and VimSwap

`VimText` is a sequence of lines with three actions. `VimSwap` carries the data of
`memfile.c` in the record `mf`; an operator of the name of the C function takes it and
returns it changed, with `ok` where the function can fail. Those of `memline.c` take a
record of `mf`, the locked block and `ok`. A function whose later statements work on what
an earlier call returned is a chain of operators, each of which takes that result as a
parameter (`Follow`, `Locks`; `SplitAs`, `SplitMade`, ...; `PreserveFlushed`, ...).

| State | Code |
| --- | --- |
| `mf.used` | the used list, used last in front; `b`, `pages`, `locked`, `dirty` are `bh_bnum`, `bh_page_count`, `bh_flags`, `data` what the block holds |
| `mf.free`, `blocknr_max`, `blocknr_min`, `neg_count`, `infile_count`, `dirty`, `trans` | the members of `memfile_T`; `trans` as a function from old to new numbers |
| `mf.fd`, `mf.may_swap`, `mf.disk` | the swap file is open, `b_may_swap`, the pages of the file: which page of which block |
| `locked` | `ml_locked`, `ml_locked_lineadd`, `ML_LOCKED_DIRTY`, `ML_LOCKED_POS` |
| `next`, `changes` | how far `readfile` has come, and a bound |
| `original`, `kept` | the original file is as read; history: what the user may count on |
| `text` | `Text(mf)`, the lines the editor would find, as a variable for the refinement |

`pe_old_lnum` is kept also of entries moved away from the end of a pointer block
(`behind`), because a split of a data block leaves there what was in the slot before. A
crash is no action: `Recovered` is what `ml_recover` would make of the swap file and
the original file in the present state, and properties compare it with `text`. A full
disk is a number of pages (`room`), chosen in each call; `Stops` are the numbers of
writes after which `mf_sync` is broken off: by a key, when the editor is idle, or in
`ml_preserve` by CTRL-C, which in the first of its two syncs also makes it leave out the
second half (`ml_preserve`'s parameter `stops`). Either way the status is that of the
writes, and `mf_dirty` stays set.

Left out: splits of the pointer block (its entries are bounded by `MaxPtr`), the line
buffered in `ml_line_ptr` (a replacement and its flush are one step), the contents of
block 0 and the search for swap file names, partial writes and lost system buffers
(`fsync`), several buffers, memory that runs out inside an operation (`mf_release_all`
itself is an action), CTRL-C in the syncs that write block 0 only, deleting the last line
of the buffer (`ml_delete_int` puts an empty one there), `:write`, switching `'swapfile'`
off and on.

## Properties

### MakeJobs

Safety: `SlotsMatchChain` and `NoOrphan` are what the signal masks are for;
`StdinExclusive` and `StdinReleased` the life of the good standard input;
`SlotLimit`, `NeverWaitsForNothing`, `ExitWaits`, `ExitStatus`;
`InterruptedDeleted` and `FailedDeleted` say that no half-made target passes for
an up-to-date one in the next run, `UnchangedKept` that nothing else is deleted;
`NoStartWhileDying` constrains steps. Liveness: `Termination` and
`WaitingJobsStart`. Refinement: `ImplementsService`.

### MakeUpdate

`DepsFirst` and `RunOnce` constrain the start of a target's commands: `RunOnce` says
also that nothing is made in vain, `UpToDate` that what success promises is true of
the files on disk (they are the two halves of what make is for, and are stated with
the disk, never with the times make remembers). `WalkMarked` is about cycles: the walk
is never twice in the middle of a file, and no mark is left behind. `ExitStatus` and
`NothingSkipped` are the promise of `-k`, and `ExitStatus` that of `-q`: status 0 says that
nothing would be made, a file without a rule that is missing counting as something to be
made. `Termination`
is the liveness property.

### ZshSignals

`NotInside` is what critical sections are for, at any nesting of handlers and waits;
`HandledOnce` and the liveness property `QueuedHandled` say together that the ring
delivers each signal exactly once; `MaskRestored` that no signal stays blocked.

### ZshJobs

`JobTable`: a child is in exactly one job until it is reaped or given away, no place
of the table is lost, and the table tells what the processes do but for changes that
are about to be reported. `WaitedForRuns` is the race between the test for a finished
job and the suspension. `ForegroundStatus` is `$?` after a pipeline started in the
foreground, whose processes end, stop and go on in any order while it is started or waited
for, and other jobs with them; it says nothing of `fg`, whose `$?` is `lastval2`.
`CurrentNames`: what `fg` without argument works on is a job, not a place that has been
given back.

### VimSwap

`BlockNumbers`: no page has two owners, and the count of negative numbers, with which
`ml_preserve` decides that it is done, is right. `CleanIsInFile` is what eviction relies
on. `Recoverable`: after a `:preserve` that succeeded and was not broken off, or a
complete sync when no number is negative any more, a crash loses nothing, even if the
original file is changed, a later `:preserve` is broken off, or its writes fail.
`ImplementsText`: with all of this going on, the buffer is a `VimText`.

## Runs

| Run | Instance | Shows |
| --- | --- | --- |
| `parallel` | 3 targets of two lines, one of none, `-j2`, no `-k` | slots, standard input, `wait`, the end of make |
| `load` | 2 targets, up to 4 lines, some blank or ignored, `-l`, `-k`, commands that are killed, no `.DELETE_ON_ERROR` | waiting jobs are started; the exit status; what is deleted |
| `signals` | 2 targets with blank and ignored lines, one precious; `SIGINT`, `SIGTERM` or another at any moment; vfork failing anywhere | masks, clean-up, no new command; `LifeInv`, which contains `IInv` and with it `TypeOK`; the service is implemented |
| `cycle` | 6 files with a cycle through a shared file, a target without commands, an intermediate file, files that keep their time; failing commands and vfork; `-j2` plain, with `-k`, with `-q`, and `-k` with one slot | `ExitInv`, which contains `MadeInv`, `WalkInv` and with them `TypeOK`; cycles are cut, for good; order; exit status; nothing skipped; the end of make |
| `chain` | 6 files, 2 goals over two intermediate files one above the other, unlimited jobs | once, not in vain, and up to date |
| `ring` | two signals, three catches, a ring of three places, sections nested twice | the ring delivers once, outside sections; masks; `SInv`, from which `TypeOK` follows here (`TypeCorrect`) |
| `jobs` | two processes, three places, pipelines of up to two, every builtin, interrupts | the table, the waits, `$?`, the names; `JobsInv`, which contains `TypeOK` |
| `swap` | a file of 4 lines in blocks of 2, a long line, memory for 3 pages, 3 pointer entries, 2 changes; room on disk or not; syncs broken off by a key or CTRL-C after three writes, or not | the text, the numbers, what a crash leaves; `SwapInv`, from which `TypeOK` follows (`Types`) |

Bounds. In `MakeJobs`, two targets are enough for every pair of children to
interfere; three with two slots make one wait; two lines make a target be
restarted once; one fatal signal, every `SIGCHLD` schedule. In `MakeUpdate` the
graphs have what the code tells apart: a file with two dependents, a dependency
that is a goal, a cycle through a shared file, an intermediate file with several
dependents and one below another, a file without a rule. The modification times at
the start are every choice of missing, 1 and 2 for each file; a file made later
has the time of the one made before it or the next second.

In `ring`, three catches reach a handler interrupted by a handler and a drain inside
a drain's handler; the ring goes round its end. In `jobs`, `MAXJOB = 4` leaves one
place beside two jobs, for a builtin, so that the table is full at times and places
are used again; two processes make a pipeline, or two jobs; pids are used again. One
exit status is enough for every property checked there; the run `wait_status` has two.
In `swap`, the root, block 0 and one data block fill the memory, so that every second
access evicts something; the file is split over two data blocks while it is read;
`{4, 20}` is a disk that is full after the two data blocks of the file, or never; two
changes meet in one block, in two, in a block that moves to another number in between,
or a change deletes what the one before it made.

Four more runs each show a place where the code does other than its comments or
its manual say (`findings` in `PROJECT.json` quote both sides):

| Run | Behaviour |
| --- | --- |
| `waits_for_ever` | a target below an intermediate file is remade without getting newer: the intermediate file stays marked `cs_deps_running`, and make goes round without end, waiting for no child |
| `error_lost` | with `-j -k`, an intermediate file is made on account of a sibling's old time and fails; the sibling turns out not to be newer, and make exits with 0 |
| `wait_status` | `wait %1` returns the status of whichever job was updated last: for a job that has ended already, and when another one ends while the shell is suspended for it |
| `sync_loses` | the first change clears `mf_dirty` in a sync that is for block 0 only; the sync of the idle editor finds nothing to do, and a crash loses the line |

The passing runs stay clear of these on purpose, by their parameters or by what they
state: `ExitWaits` is checked with two slots and `NeverWaitsForNothing` without signals;
in `cycle` the intermediate file depends on nothing that is made, and the files that
keep their time have no intermediate file above them; `UpToDate` is checked without
failures. `ForegroundStatus` is about pipelines started in the foreground, not about `wait`
nor about `fg`, which has the same defect (`zsh/Src/jobs.c:1392-1394`). `Recoverable` counts
on a sync only when no number is negative, and on a `:preserve` only when it was not broken
off; `ring` leaves `DrainWindow` and `Overflow` off.

More disagreements appear when a constant or the property of a passing run is changed:

- `ExitWaits` with four failing commands at once: the manual says that make waits for
  its children before it exits (`make.texinfo:3037-3039`), but `die` is called a second
  time from its own loop (`make/main.c:2387`, `err = 0`; `make/job.c:616-619`) and make
  exits with a command running.
- `NeverWaitsForNothing` with signals: a fatal signal after `wait` (`make/job.c:369`)
  and before `block_sigs` (598) makes the handler wait for a child that is gone; `wait`
  fails with `ECHILD` and make exits with status 2 and not by the signal, which the
  comment at 593-597 means to prevent.
- `SlotLimit` with `LoadLimit = TRUE`: `start_waiting_jobs` (`make/job.c:1330-1352`)
  starts every waiting job without looking at the slots, and the test
  `job_slots_used == job_slots` (1141) is then passed over.
- `StdinReleased` with `ForkMayFail = TRUE`: vfork fails after the child has been
  given the good standard input (`make/job.c:866-868`, 933-939), and no later command
  gets it.
- `UnchangedKept` with `ForkMayFail = TRUE`: `start_job_command` has called
  `notice_finished_file` (`make/job.c:1053`), which forgets the modification time, and
  `delete_child_targets` (567) then takes an untouched target for a changed one.
- `UnchangedKept` with `Signals` not empty: the comment at `make/commands.c:460` and the
  manual (`make.texinfo:3174-3177`) say that a target is deleted if its modification
  time changed. `notice_finished_file` forgets the time (`make/remake.c:699`) before
  `reap_children` takes the child off the chain (`make/job.c:593-609`); a fatal signal in
  between deletes the target although its commands have left it as it was. The
  theorem `UnchangedAreKept` says that there is no third place.
- The outcome `crash`: commands that expand to nothing leave `command_ptr` null, and
  `start_job_command` reads through it (`make/job.c:706-709`); in the model it crashes
  or finds an empty line.
- `WalkMarked` with an intermediate file that depends on itself (here
  `NoIntermediateCycle` is false) behind a dependency that fails, without `-k`, or is out
  of date, with `-q`: the loop that drops cycles is left early (`make/remake.c:429`), the
  second loop (450) does not look for cycles, and `update_file` is called for a file it is
  in the middle of; without end, if the file names itself.
- `StillRunning` (and with it `MadeInv` and `ExitInv`) where an intermediate file is made by way of two
  others (`NoLongChain` is false), with three goals over `prog: i`, `i: h`, `h: j`, `j: s`,
  `x: j`, `y: i`, all `i`, `h` and `j` intermediate, and no limit on jobs: `check_dep` sets
  `cs_deps_running` (`make/remake.c:824`) on an intermediate file without looking whether
  its own commands are running, which another goal may have started. The comment at
  `make/job.c:577-580` relies on `cs_running` there: `notice_finished_file`
  (`make/remake.c:686-699`) then does not forget the time of the file the commands have
  just made. TLC finds `RunOnce` and `UpToDate` to hold of that makefile all the same.
- With `-q` and `-k` together, one dependency out of date and another without a rule
  give status `1 | 2` (`make/remake.c:413`), for which `main` has no case but `abort`
  (`make/main.c:1551`): the model's `aborted`.
- The comment at `make/remake.c:167` says that `-q` stops immediately; the condition
  has `!question_flag`. And `stop` leaves only the loop over the goals (230): a failure
  that does not go through `die` (vfork's) lets the next goals be made without `-k`,
  where `make.texinfo` says that nothing more is.
- `HandledOnce` with `DrainWindow = TRUE`: a signal between the load and the store of
  `queue_front` (`zsh/Src/signals.h:83`) is queued or dealt with and drains the ring
  itself; the store then sets the front back, and signals are dealt with twice.
- `TypeOK` of `ZshSignals` with `Overflow = TRUE`: `++queue_rear % MAX_QUEUE_SIZE`
  (`zsh/Src/signals.c:429`) stores the index before the test for a full ring (432), which
  may leave it at `MAX_QUEUE_SIZE`, where no front comes to meet it.
- `addproc` clears `STAT_DONE` only (`zsh/Src/jobs.c:850`): when the first process of a
  pipeline stops while a `$(...)` of the second is waited for, the job counts as stopped
  and the shell does not wait for the second process.
- `printjob` clears `STAT_CHANGED` after it has printed (`zsh/Src/jobs.c:759`): a change
  in between, while `preprompt` lets `SIGCHLD` through, is never reported.
- `wait <pid>` continues a stopped process without `makerunning`
  (`zsh/Src/jobs.c:885`), so `jobs` goes on showing it as suspended; and it does so only
  after its first suspension (882), which for a process that is stopped already nothing
  need end.
- `WaitStatus` for `fg` instead of `wait`, with two exit statuses: the status that `fg %1`
  returns is `lastval2` as well (`zsh/Src/jobs.c:1392-1394`), and TLC finds that of
  another job, which ended in the same suspension, in 23 states.
- A fork that fails in the middle of a pipeline leaves the first processes running in
  a job that neither `%%` nor `%-` names, since only `spawnjob` and a stop name jobs.
- `prevjob` may be the place a builtin has just taken, so that `fg %-` or `disown %-` works
  on the builtin itself instead of a job: when a stopped job is the current one and the forks
  of a background pipeline fail, `spawnjob`
  leaves `prevjob` at the place it gives back (`zsh/Src/jobs.c:1012-1036`), the builtin gets
  that place, and `setcurjob`, whose comment promises "a suitable current and previous job
  set" (`zsh/Src/jobs.c:1084`), does not look at `prevjob`. TLC finds it in 20 states. `%-`
  is modelled (`Named`), and the invariants hold in spite of it.
- `ml_append_int` does not copy `pe_old_lnum` to the right entry when the left block
  is new (`vim/src/memline.c:2260`, 2332): recovery of a block with a negative number
  may read other lines of the original file than the ones it held.
- A block translated when `ml_sync_all` flushes it leaves its negative number in block
  1 on disk until the pointer is followed and block 1 written again; a crash in between
  recovers the original lines of that block (`SyncedRecovers`).
- `mf_close_file` (`vim/src/memfile.c:268-301`) leaves `mf_infile_count` and the clean
  marks of blocks: with actions for `:set noswapfile` and `:set swapfile`,
  `CleanIsInFile` fails in seven steps, and an evicted block cannot be read back.
- `Recoverable`, if a `:preserve` counts that was broken off (`Uninterrupted` looking at
  its second sync only): CTRL-C in the first one leaves the loop of `mf_sync` with status
  `OK` (`vim/src/memfile.c:594-596`), the rest of `ml_preserve` is left out
  (`vim/src/memline.c:1792`), and the message is "File preserved" although blocks are not
  written. TLC finds a lost line in eight states: a file is read, a line replaced, and the
  buffer preserved. The comment at `vim/src/memline.c:1744-1746` says that "after this all
  the blocks are in the swap file", and `vim/runtime/doc/recover.txt:117-120` that all text
  is written and the original file no longer needed. The other
  caller that depends on it looks at `got_int` afterwards (`vim/src/fileio.c:3525-3530`);
  `:preserve` does not. That is why `Recoverable` and the theorem about it (`Recovers`)
  require that it was not broken off.

Deadlock is checked in every run: the only states in which make may stop are
its ends, which stutter (`Exited`); a shell or an editor can always go on.

### Fairness

`FairSpec` of `MakeJobs` assumes that make's thread runs when it can and that every
command ends some day (a command that never ends blocks make too). It assumes
nothing of signals: a `SIGCHLD` may never come. A blocking `wait` returns with a
dead child whether or not there was a signal, which is why `Termination` holds.
`FairSpec` of `MakeUpdate` is weak fairness of `Next`, the same assumption: make goes
on as long as it can, and a command it waits for ends. Whichever command ends first,
no schedule is excluded, because every one of them ends after a bounded number of
steps.

`FairSpec` of `ZshSignals` assumes that the shell runs when it can, that handlers
return, that whoever enters a critical section leaves it (strongly, at every depth:
it may be entered again and again) and that a suspended shell gets a `SIGCHLD`, since
it is suspended for a child. No other signal need ever come. `ZshJobs` and `VimSwap` are
checked for safety only: a job may run for ever, and a user may stop typing.

## Proofs

The theorems hold for every value of the constants that the named assumptions allow:
every finite set of targets, all command lines, every `-j`, `-k`, `-l` and set of
signals in `MakeJobs` (`FilesAssumption`, `CmdsAssumption`, `FlagsAssumption`); every
finite graph, list of goals, choice of intermediate files, times and switches in
`MakeUpdate` (`GraphAssumption`, `StartAssumption`, `SwitchAssumption`); every set of
signals, size of the ring, depth of nesting and number of signals caught in
`ZshSignals` (`SignalsAssumption`, `SizesAssumption`); every size of the job table, set of
process numbers and exit statuses, length of pipelines and `NOTIFY` in `ZshJobs`
(`JobsAssumption`, which asks of the exit statuses only that none of them is also the name of
another state of a process); every length of the file, number of lines in a page, choice of
the lines that are longer than a page, size of the memory and of block 1, number of changes,
of pages on disk and of writes before a sync is broken off in `VimSwap` (`SwapAssumption`, which asks
that a page holds at least two short lines).

### MakeJobs: processes and the chain

`MakeJobs_proofs` rests on the inductive invariant `IInv`.

| Theorem | Property |
| --- | --- |
| `Invariance` | `IInv`, the inductive invariant |
| `TypeCorrect` | `TypeOK` |
| `SlotsCounted` | `SlotsMatchChain` |
| `NoneOrphaned` | `NoOrphan` |
| `StdinIsExclusive` | `StdinExclusive` |
| `NoCommandsWhileDying` | `NoStartWhileDying` |

None of the properties is inductive. That a slot is counted for each child needs
to be known also inside the window in which one is ahead of the other
(`SlotsInv`), and where the signals are blocked (`BlockedInv`); that
`Cardinality` changes by one needs the child put on the chain not to be on it
(`StartingInv`) and the one taken off to be there (`ReapingInv`); that needs a
job to be on one of the two chains, once (`ChainsInv`), and every process to be
on the chain or just about to be put there (`OrphanInv`). `StdinInv` counts as
holder of the good standard input also the child whose process is gone and
whose result has not been looked at. `DyingInv` says where make can be once the
handler runs. Each conjunct has a lemma that every step keeps it, with a step
of its own for each action that can disturb it.

### MakeJobs: what becomes of a target

`MakeJobs_proofs` goes on with `LifeInv`, which contains `IInv` and says
where each target is between not started and finished.

| Theorem | Property |
| --- | --- |
| `LifeInvariance` | `LifeInv`, the inductive invariant |
| `SlotsSuffice` | `SlotLimit`, without `-l` |
| `WaitsForSomething` | `NeverWaitsForNothing`, until a fatal signal is handled |
| `ExitsAlone` | `ExitWaits`, with `-k` or up to three slots and no `-l` (`WaitsInDie`) |
| `SuccessMeansRemade` | `ExitStatus` |
| `InterruptDeletes` | `InterruptedDeleted` |
| `FailureDeletes` | `FailedDeleted` |
| `StdinGivenBack` | `StdinReleased`, if vfork never fails |
| `UnchangedAreKept` | which steps may delete a target that is as it was |
| `KeptWithoutSignals` | `UnchangedKept`, without signals and failures of vfork |
| `ServiceImplemented` | the safety half of `ImplementsService`: `Service!Init`, and every step is a step of `JobService` or a stutter |

The conditions are those on which the code keeps the property: each of them, when it is
dropped, gives one of the disagreements listed under *Runs*. They are conditions of the
conclusion, not of the invariant: `LifeInv` itself holds for every choice of the flags.

The refinement needs to know at every step which of the service's actions it is: that
the line started is the first one left that runs anything, after lines that all passed
(`LineInv`), that nothing has been run of a target not begun (`BegunInv`), that the line
just reaped is the last in the history (`ReapedInv`), and that the status
`reap_children` is about to tell agrees with the lines run (`DoneInv`). Those need
`StatusInv`, `EndedInv` and `LiveInv`, which relate `command_state`, `update_status`, the
chain and the processes. `DiskInv` says that whatever may be half made is on the chain,
whose targets the handler and `reap_children` delete, or was begun by the child just
started; `DieInv` counts the children left when `die` is entered, because its loop ends
at the second failure.

### MakeUpdate: the walk

`MakeUpdate_proofs` rests on `WalkInv` and `MadeInv`,
`MakeUpdate_result_proofs` on `DoneInv` and `ExitInv`. Each of the four is inductive and
contains the one before it.

| Theorem | Property | If |
| --- | --- | --- |
| `TypeCorrect` | `TypeOK` | |
| `WalkInvariance` | `WalkInv`, an inductive invariant | `NoIntermediateCycle` |
| `WalkedOnce` | `WalkMarked` | `NoIntermediateCycle` |
| `MadeInvariance` | `MadeInv`, an inductive invariant that contains `WalkInv` | also `NoLongChain` |
| `DependenciesFirst` | `DepsFirst` | also `NoLongChain` |
| `CommandsRunOnce` | `RunOnce` | also `NoLongChain` |
| `RunningIsRunning` | `StillRunning` | also `NoLongChain` |
| `DoneInvariance` | `DoneInv`, an inductive invariant that contains `MadeInv` | also `NoLongChain` |
| `NothingIsSkipped` | `NothingSkipped` | also `NoLongChain` |
| `SettledIsCurrent` | `SettledCurrent`: a target is up to date from the moment it has succeeded | also `NoLongChain` |
| `ExitInvariance` | `ExitInv`, an inductive invariant that contains `DoneInv` | also `NoLongChain` |
| `NoFailureIsLost` | `NoFailureLost`: after exit status 0 all that was considered, intermediate files left out, has succeeded | also `NoLongChain` |
| `SuccessIsUpToDate` | `UpToDate`, with no intermediate files, or without `-k`, `-q` and failures of vfork | also `NoLongChain` |
| `ExitStatusIsRight` | `ExitStatus` | `Intermediate = {}` |

The two conditions are about the makefile. `NoIntermediateCycle` says that no intermediate
file depends on itself, by whatever way: make's own search for implicit rules, which is
where intermediate files come from, does not produce one, a `.INTERMEDIATE` line may. All
other cycles are allowed. `NoLongChain` says that of three intermediate files no one is made
from the next, and that from the third: chains of implicit rules may be longer, and the
theorems do not speak of those. Each condition, dropped, gives one of the disagreements
listed under *Runs*, so the invariants really need them; the instances of the passing runs
satisfy both, and in `chain` there is a chain of two.

`WalkInv` is about the stack alone. A call that waits for another has called the
function and the file of the frame above it (`NestInv`), so going down the stack goes along
dependencies; the flag `updating` is set for exactly the frames between the statements that
set and reset it, but for the moment after `update_file` has reset what its caller
`check_dep` had set as well (`UpdatingInv`). A file whose flag is set is dropped as a
dependency before it is called for, hence no file is walked twice (`DistinctInv`). The second
loop of `update_file_1` does not look at the flag: there the file on the stack would have to
be an intermediate one that depends on itself, which `DependsOn`, closed under dependencies,
excludes.

`MadeInv` adds what is known of the dependencies. `RetInv` says what the result of a call
means: status 0, and the file not being made, is that it has been considered and has
succeeded (`Settled`), or, if it is an intermediate file that `check_dep` has only looked
into, nothing; `must_make` is that something it is looked into for (`Reach`) is newer on
disk, not by the time remembered (`Shows`). `UpdateInv` and `CheckInv` carry that through the
loops: at `remake` everything has been through the first loop and, if the target must be
made, the second, without failure and without anything to wait for. `TimesInv` makes
the times remembered stand for the disk; it depends on `StillRunning`, since only a file
found to be `cs_running` has its time forgotten. `TargetsInv` says that all this outlasts the
steps in between, in which other targets' children are reaped inside `new_job`:
what has been settled stays so, and the target of a child on the chain has settled
dependencies only, so it is newer than they are for good.

`DoneInv` is the same for what has not been made. `MadeInv` has reasons for everything that
is made; that nothing is left out needs the converse. A call knows of the dependencies it has
been through that they have been considered and, unless the target must be made, that nothing
they are looked into for is newer (`LoopInv`, `Unneeded`, and `ResultInv` for what a call
returns). It knows that only as long as no error has made it leave the loop, or with `-k`, and
not if it has to wait, for then the next round goes through the loop again. So when a target
has succeeded everything it is looked at for has, and is no newer (`ConsideredInv`): for a
target without commands to run, because nothing had to be done, for the others because they
were written after their dependencies (`TimesInv`).

`ExitInv` takes that to the end of make. The exit status comes from the goals, so what is to
be shown is that everything else hangs on a goal. The makefile says so at the start, but the
walk drops dependencies while it goes: a file dropped from a cycle might be cut off from the
goals, and its failure be seen by none of them. It is not, because the walk has come to that
file by way of others, and these dependencies remain: they are the ones whose calls are on the
stack (lemmas `Chain` and `WantedKept`). Hence what is considered stays in every set of files that
has the goals and all its members depend on (`GoalsInv`), and if the goals have
succeeded, going from target to target by `ConsideredInv` reaches it all (`AllSettled`). The other
direction, an exit status that is not 0, is `ErrorsInv`: whatever error is remembered in a
variable, some target has failed; and without `-k`, `-q` and failures of vfork make has then
ended already (`die`). `QuestionInv` is about `-q`: nothing is made, so what was in order when
it was looked at still is, and the first failure has something below it that would be made.

The conditions of the last two theorems are those on which the code keeps the properties: with
intermediate files and errors that do not end make, the run `error_lost` shows a failure that
reaches no exit status, whose target is then not up to date either. `NoFailureIsLost` says that
it can only be that of an intermediate file.

### ZshSignals

`ZshSignals_proofs` rests on `SInv`, which holds also with `Overflow` and `DrainWindow`.

| Theorem | Property |
| --- | --- |
| `SignalsInvariance` | `SInv`, the inductive invariant |
| `SignalsStayOutside` | `NotInside` |
| `MasksComeOff` | `MaskRestored` |
| `RearInRing` | `queue_rear` is a place of the ring, without `Overflow` |
| `DealtWithOnce` | `HandledOnce`, without `Overflow` and `DrainWindow` |
| `TypeCorrect` | `TypeOK`, without `Overflow` and `DrainWindow` |

So critical sections and masks do their work even where the ring does not. The reason
is `NestInv`: `queueing_enabled` counts the sections of one frame only, and above a frame
that is inside a section there are nothing but handlers about to queue their signal; a
wait opens the sections of its own frame, and puts back the same number (`FrameInv`).
`CallInv` knows which frame called which, and `MaskInv` follows the mask of the main
program to the place it is kept in while a handler runs. `RoomInv` is the argument that
the ring cannot overflow if no signal is caught for which there is no place: it counts
the handlers on their way as well. `OnePlaceInv` says that an event is in one place at a
time: in a handler that has not yet decided what to do, in a live place of the ring, or
dealt with. A place is live from the store that puts the event there until the handler
is called, which is after the front has moved to it (`LiveSlots`). It needs the front not
to move between its load and its store, hence the two conditions.

### ZshJobs

`ZshJobs_proofs` rests on `JobsInv`.

| Theorem | Property |
| --- | --- |
| `JobsInvariance` | `JobsInv`, the inductive invariant |
| `TypeCorrect` | `TypeOK` |
| `TableIsRight` | `JobTable` |
| `WaitsForRunning` | `WaitedForRuns` |
| `ForegroundIsTold` | `ForegroundStatus` |
| `CurrentIsAJob` | `CurrentNames` |

None of these follows from the step before. `JobTable` looks at a child and asks for a
record; the invariant must also know that no process has two records (`PidsInv`), which
`fork` keeps because the system does not give out a number that is in the table, and that a
child without a record was given away or is the `$(...)` the shell waits for. It must know
the converse too: a record counts as ended only when there is no such child any more
(`RecordInv`). Otherwise a job could go from the table, as a finished one, while a process of
it lives.

`FlagsInv` says what `STAT_DONE` and `STAT_STOPPED` are worth. A job that counts as done has
no process left; one that does not, and has processes, has one that runs, or one that is
stopped and is marked so. Hence a shell about to be suspended, which has looked at the two
flags, has a process to wait for (`WaitedForRuns`), unless news of it are on their way, and
then a `SIGCHLD` is pending (`ChildrenInv`). It is kept by `update_job` because that does
nothing as long as a process runs, and by `addproc` and `makerunning` because they clear the
flags they make wrong. Both directions are needed at a report: that a job whose process has
just been told of did not count as done makes `update_job` look at it.

`PlacesInv` is about the places in the table. One in use has processes, but for that of a
pipeline being started or of a builtin (`Unfilled`); the place of a builtin never gets a
process; and a pipeline not yet waited for is not marked as one whose end is reported
(`STAT_LOCKED`), so the handler cannot take the place away while it is filled. `ResultInv`
follows `lastval`: `thisjob` is the job in the foreground, and `lastval` is taken from it only
when none of its processes runs. After a pipeline that is `$?` (`ForegroundIsTold`), after `fg`
it is not.

The functions of `jobs.c` have lemmas of their own: what they may do to a table is one of a
few relations. `printjob`, `scanjobs` and the loop of `jobs` take out finished jobs and marks
of a change, nothing else (`Trimmed`, `ScanjobsTrims`, `ListTrims`); `setprevjob`,
`setcurjob` and the names that `fg`, `bg` and `wait` move about leave the entries alone
(`Renamed`, `CurjobSet`, `ShuffleRenames`). `scanjobs` and the loop of `jobs` are defined by
recursion over the table: every set of numbers has a least member (`Least`), so there is no
first round that spoils what the one before left right (`IteratedIn`), and such a function
exists (`IterationExists`).
`CurrentNames` is a lemma about `setcurjob` on any table: whatever the current and the
previous job were, the one it leaves is in use and is not the builtin's.

### VimSwap

`VimSwap_proofs` rests on `SwapInv`, which the run `swap` checks, and on `RecoveryInv`, which
is `SwapInv` and `WholeInv` and which TLC has found to hold of the same instance.

| Theorem | Property |
| --- | --- |
| `SwapInvariance` | `SwapInv`, an inductive invariant |
| `Recovery` | `RecoveryInv`, inductive as well |
| `Types` | `TypeOK` |
| `BlocksNumbered` | `BlockNumbers` |
| `CleanInFile` | `CleanIsInFile` |
| `Recovers` | `Recoverable` |
| `Implements` | `ImplementsText`, all of it: `VimText` has no fairness |

A block of the text may be in memory, in the swap file, or in both, and it may have a
negative number in block 1 while it has another one already. So the invariant speaks of a
heap `h`, which gives each name that block 1 has for a block its pages and what is in them,
wherever that is. `UsedInv` says what is in memory: each block once, and what is clean is also
in the file. `SavedInv` says of the rest that it is in the file, under its number and all of its
pages. The parameter `X` of `UsedInv` are the blocks that are about to become dirty: between
`mf_put` of block 1 and that of the locked block, and while `ML_LOCKED_DIRTY` has not yet
reached the block, a change is in memory that no flag of the block tells of. `NumbersInv` and `FreeInv`
keep numbers apart: those of blocks, of free ranges and of `mf_trans` that overlap
nowhere and stay below `blocknr_max`, so that a write never falls on the pages of another block.
`Tree` and `Counted` are about block 1 and the counts in it, which are right but for the lines
`ml_locked_lineadd` still owes. `LockedInv` says that the locked block stays in memory under the
name block 1 has for it, and `ReadInv` what `readfile` relies on.

`CleanIsInFile` and `BlockNumbers` follow from parts of that, and none of them could be shown
alone: that a clean block is in the file needs that no other write falls on its pages,
hence the numbers, hence the names in block 1, which `ml_find_line` exchanges, hence the tree.

The proof goes up the layers of the code. `VimSwap_file_proofs` has for each function of
`memfile.c` a lemma about any memory file with `MemInv`: `mf_get`, `mf_put`, `mf_new`, `mf_free`,
`mf_release`, `mf_write`, `mf_trans_add`, `mf_trans_del`, `mf_sync`, with the failing write, the full
disk and the key hit as cases of their own. What they may do is one of a few relations:
most leave the heap as it is. `VimSwap_lines_proofs` sees the text as the rows of the tree, one
for each entry of block 1, put one behind the other. `ml_find_line` leaves the rows alone, exchanges
names and finds the row of the line and the place in it. A line inserted, deleted or
replaced changes one row, or replaces one row by two, by three or by none, and the text changes by
that line. `VimSwap_proofs` shows both at once of every step: `SwapInv` is kept, and the text
is edited as the action says or stays as it is (`SwapStep`). This gives the invariant and the refinement.

`kept` is `"whole"` after a `:preserve` that succeeded without CTRL-C and after a sync that
came to its end with no negative number left. `WholeInv` says what that is worth: the swap file is open, no number is negative, no
block in memory is dirty, and the locked block owes neither lines nor changes. With `SavedInv` and
`UsedInv` every block of the heap is then in the file, under the name block 1 has for it, so that
`ml_recover` reads the rows of the tree (`WholeRecovers`). That `ml_preserve` brings it about takes
several facts that hold of a part of its way each. A sync of all blocks that came to its
end without a failure leaves nothing dirty (`SyncEnds`), and a block that is not dirty has its
positive number (`CleanNumbered`). From then on no block in memory gets a negative one, so each
call of `ml_find_line` leaves a positive number in the entry it has followed, and does not touch the
others (`FindLeaves`). After the last entry none is negative (`VisitKeeps`), and the second
sync writes what the visits have corrected (`Preserves`). A sync that is not `ml_preserve`'s skips
negative numbers, so it is worth as much only if there are none. Once the file is whole it
stays so: what is read is clean, eviction writes nothing, and a sync finds nothing
that could fail (`Calm`, `StaysEntire`).

No condition is needed: a write may fail at any moment, and the text in memory is what it was.

### What is only model-checked

All liveness (`Termination` of both make modules, `WaitingJobsStart`, `QueuedHandled`, and
the fairness of `JobService` in `ImplementsService`): the prover handles neither fairness
nor `ENABLED`. Of `MakeUpdate`: `ExitStatus` of makefiles with
intermediate files (the instance of `cycle`), and what happens where the two conditions do
not hold. `QuestionInv` says nothing of makefiles with intermediate files, so the runs do not
check it; TLC has found it to hold of `cycle`'s makefile with `Intermediate = {}` and all
switches, before it was proved.

## Not modelled

The hazards without a property in `PROJECT.json` say why: pid numbers of children that
are gone (`make/commands.c:406`), a second fatal signal inside the handler (395), files a
command writes beside its target (`make/remake.c:699`), and the full ring. The parts of
make, zsh and vim that are left out are listed with their modules above.

Parsers, expansion, the line editor, the display, scripting and the regular expression
matchers are functions of text: their states are their inputs, and a bounded check
would say little. m4's diversions, gawk's redirections, patch's backup files, sudo's
ticket file and visudo's lock are small protocols that could be modelled; they come
after what is here because nothing in them runs concurrently but for files replaced
behind their back. The BSD tools are filters. Ports to other systems are not built on
NeXT.

## Plan

Modules still worth writing: switching the swap file of `VimSwap` off and on, splits
of pointer blocks; double-colon rules in `MakeUpdate`; m4's diversions.
