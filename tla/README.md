# nihil in TLA+

nihil is a C++26 library for FreeBSD programs: owners of kernel resources,
spawning of children, safe writing of files, command-line dispatch,
configuration files, a wrapper of libucl, and small utilities.  It has no
threads and no server of its own.  What is hard about it is at its edges: an
object in C++ stands for something in the kernel that changes on its own, system
calls fail in between, processes die, and a few functions (`spawn()`,
`safe_write_file()`, `write_to()`) put many calls together whose order matters.

This directory holds specifications of those parts, the configurations with
which TLC checks them, and proofs that TLAPS checks.

- [The system](#the-system): its parts, with their state, operations and hazards
- [The modules](#the-modules): how each models its code
- [What is checked](#what-is-checked): runs, bounds, fairness
- [What is proved](#what-is-proved)
- [What the checks say about the code](#what-the-checks-say-about-the-code)
- [What is not modelled](#what-is-not-modelled)
- [Plan](#plan)

To check a run: `tlc -config Fd.cfg MCFd`.  To check proofs: `tlapm Fd_proofs.tla`.

## The system

`nihil.std` re-exports the standard library; `contrib/catch2` is the vendored
test framework.  The rest:

### nihil.posix: file descriptors (`fd.ccm`, `open.ccm`)

State: `m_fileno` of each object, the descriptor table of the process, and for
each open file its status flags.  Operations: construction from a number,
`open()`, `openat()`, `dup()` to a new or a given number, `raw_dup()`, `pipe()`,
move, `release()`, `close()`, destruction; `read()`, `write()`, and
`getflags()`, `setflags()`, `clearflags()` and the same for descriptor flags.
Hard: the number in an object means something only as long as the kernel and
the object agree; `close()` is a system call and then an assignment; `dup()`
closes what its target number named; flag changes read, modify and write.
Correct: one holder for each number, no stale number, no number without a holder.

### nihil.posix: writing files (`write_file.ccm`, `rename.ccm`, `unlink.ccm`)

State: the file, its temporary file `<filename>.tmp`, and the running calls.
`safe_write_file()` writes the temporary file and renames it; a `guard` unlinks
it on an early return.  Hard: other processes that save the same file and use
the same temporary name, deaths that leave it behind, short writes.  Correct: a
reader sees the old file or the new one, an error changes nothing, a success has
written everything, no litter.

### nihil.posix: children (`process.ccm`, `unistd.ccm`, `spawn.ccm`)

`process` owns a pid: `wait()`, `release()`, move, destruction (which waits).
`spawn()` forks, and in the child runs `run_in_child()` of each action and then
the executor; in the parent `run_in_parent()` of each action.  Actions are
`fd_read_pipe`, `fd_write_pipe`, `fd_capture` (which reads its pipe to the end
*inside* `spawn()`) and `fd_file`.  State: descriptor tables of parent and
children, pipes, pids, zombies.  Hard: everybody waits for everybody over full
pipes and pipe ends that were not closed; descriptors that collide with the
numbers they are to be given; pids that the kernel uses again.  Correct: the
child finds its descriptors connected, a capture has all output, no pipe end is
forgotten, every child is waited for once, by its owner, and it all ends.

### nihil.posix: the rest

`argv`, `execv`, `execl`, `execlp`, `execvp`, `execshell`, `executor` build an
argument vector for `execve(2)`.  `find_in_path`, `open_in_path` search `$PATH`.
`tempfile` makes a file with `O_EXCL` under a random name, tries again if the
name is taken, and removes the file when the object is released or destroyed;
hard: forked copies of the object, processes that end without destroying it,
failures of `unlink()`, names that get used again.  `progname` sets the program's name and restores it.  `getenv`,
`stat`, `ensure_dir`, `read_file` wrap one call each.

### nihil.cli: commands (`command.ccm`, `registry.ccm`, `command_tree.ccm`, `dispatch_command.cc`)

Commands are global objects that register themselves; `dispatch_command()`
builds a tree of the words of their paths, finds the node its arguments name,
sets the program name and calls the command's handler with the rest, or prints
the commands below the node.  Hard: the order of construction of global objects;
stubs that become commands; duplicates; where the arguments are split.  Correct:
the tree is the registry, duplicates are noticed, the longest path wins.

`parse_flags.ccm` parses an argument vector into a structure, from descriptions
that are put together at compile time.  Hard: clusters of flags, values in the
same word or in the next one, words that look like flags and are values.
Correct: what the POSIX guidelines make of the words.

### nihil.config

Options register with a global store.  `read_from()` reads a UCL file and sets
an option for each entry; `write_to()` saves the options that are not defaults
with `safe_write_file()`.  State: the store, each option's string and
`m_is_default`, the file.  Hard: entries that do not fit when others have been
applied; the flag that decides what is saved; restarts; other writers of the
file.  Correct: what is saved comes back, and loading and saving loses nothing.

### nihil.ucl

`object` counts references to libucl objects, `array`, `map`, `string`,
`integer`, `real`, `boolean` are its typed forms; `parser` and `emit` are
callbacks from and to libucl.  Hard: which calls count the pointer that they get
and which take over one that is counted; what is within a container that dies or
is copied.  Correct: a count is the number of references, a node dies with the
last of them, and with the last object everything goes.

### nihil.core

`error` (a chain of causes), `errc`, `sys_error`, `save_errno`; `monad` makes
`co_await` on `std::expected` return early; `generator` is a coroutine with one
owner; `guard`, `capture_stream` undo something at the end of a scope;
`parse_size`, `next_word`, `skipws`, `ctype`, `match`, `construct`, `tabulate`,
`flagset` are functions of their arguments; `uuid` is third-party code.

### How the parts meet

`write_to()` calls `safe_write_file()`, which uses `fd`, `rename()`, `unlink()`
and `guard`; every one of them returns `std::expected` and is called with
`co_await`, so that an error leaves at the call that failed and destroys the
frame's locals in reverse order.  `spawn()` uses `fd`, `pipe()`, `fork()`,
`process` and an executor.  Programs call `dispatch_command()` with what is left
of `argv`.  The parts share no state but the kernel's.

## The modules

| module | models | about |
|---|---|---|
| `Handles` | nothing: it is abstract | what exclusive ownership of a kernel resource is |
| `Sharing` | nothing: it is abstract | what shared ownership is |
| `Fd`, `Fd_proofs`, `MCFd` | `fd.ccm`, `open.ccm` | `struct fd`; implements `Handles` |
| `Process`, `Process_proofs`, `MCProcess` | `process.ccm`, `unistd.ccm` | `struct process`; implements `Handles` |
| `SafeWrite`, `SafeWrite_proofs`, `MCSafeWrite` | `write_file.ccm`, `rename.ccm`, `unlink.ccm` | `safe_write_file()` |
| `Spawn`, `Spawn_proofs`, `MCSpawn` | `spawn.ccm` | `spawn()`, its actions, pipes and children |
| `Commands`, `Words_proofs`, `MCCommands` | the rest of `nihil.cli` | registry, tree, search, dispatch |
| `Config`, `Config_proofs`, `MCConfig` | `nihil.config` | options and their file; composed with `SafeWrite` |
| `Ucl`, `Ucl_proofs`, `MCUcl` | `object.ccm`, `array.ccm`, `map.ccm` | references to libucl's objects; implements `Sharing` |
| `Tempfile`, `Tempfile_proofs`, `MCTempfile` | `tempfile.ccm` | `tempfile()` and its objects |
| `ParseSize`, `Words_proofs`, `MCParseSize` | `parse_size.ccm` | arithmetic in a type of fixed width |
| `ParseFlags`, `Words_proofs`, `MCParseFlags` | `posix_parse()` in `parse_flags.ccm` | options and arguments |

`PROJECT.json` maps each definition to the lines it stands for.  Definitions
whose comment begins with *Mutant* are not part of the model: each is a plausible
mistake in the definition after it, and there to show that a property notices.

### Handles

A resource is known by a number.  Every live number has one holder, an owner or
the program itself.  A number comes to life in the hands of a holder (`Acquire`,
`AcquirePair`, `AcquireBare`), is handed on (`Adopt`, `Surrender`, `Give`), or
dies by the hand of its holder (`Dispose`, `DisposeBare`).  Both `Fd` and
`Process` are shown to implement it, with refinement mappings that differ: a
`process` that was waited for still has its pid in `m_pid` but holds nothing.

### Sharing

A resource lives as long as somebody holds it.  It is created in the hands of one
holder, shared, handed on, exchanged, and dies in the step in which the last
holder lets go.  Nothing is said of counts: that counting is a way to know the
last holder is what `Ucl` is shown to get right.

### Fd

| state | code |
|---|---|
| `open` | the process's descriptor table |
| `m_fileno[o]` | `m_fileno` of variable `o`, `Invalid` for -1, `Dead` when there is no object |
| `phase[o]` | whether `o` is between `::close()` and the reset of `m_fileno` |
| `bare` | numbers that the program holds as plain `int` |

The objects may be in different threads, so `close()` and the destructor are two
steps (`SysClose`, then `FinishClose` or `FinishDestroy`): between them another
thread's `open()` may be given the number.  Every other action is one call.
`Dup2` closes the target first, as `dup2(2)` does.  A call that fails changes
nothing and is therefore a stuttering step; `::close()` frees the number even if
it reports an error.  The program may not use an object that a thread is
closing, nor hand a number to two objects.  `OverwritesOpen` says whether it
moves onto an `fd` that is open.

### Process

`child[p]` is the kernel's table (no child, running, zombie), `m_pid[o]` the
object's member, `waited` remembers the objects that have been waited for: the
code does not, and that is the point.  `Wait` leaves `m_pid` as it is;
`Destroy` calls `waitpid()` for whatever `m_pid` says.  `Interrupts` lets that
call return early, `OverwritesHeld` lets a program move onto an object with a
child, `ReusesPid` lets `fork()` return a pid that some `m_pid` still has.
`wait()` passes `WEXITED` to `waitpid()`; it is taken to be accepted, as on
FreeBSD.

### SafeWrite

The two files are sequences of blocks or `None`; each call is a process at one
of its system calls (`pc`), with an open file that may have been renamed or
unlinked since (`file`).  `Begin`, `OpenTmp` (which does not truncate), `Write`
(at offset 0, of any length the kernel takes, over what is there), `Rename`,
`Fail` and then `Unlink` or `UnlinkFails` (the guard, which ignores the
difference), `Crash`.  The write goes to the *file*, whatever it is called by
then.  `call` and `orphaned` are history variables, read only by the properties:
the second says that a death or a failed `unlink()` left the temporary file that
is there.

### Spawn

Two layers.  The parent: `Make` (the action objects with their pipes, made
before `spawn()`) and `MakeFails`, `Fork` and `ForkFails` (in both cases the
program drops the actions that it has), `RunInParent` of each action,
`CaptureRead` and `CaptureEnds` in a capture, `SpawnReturns`, and then a program
that feeds and drains its pipes in any order and waits for each child when it is
through with its pipes.  The children: `RunInChild` of each action,
`Exec` or `ExecFails`, then `Read`, `Write`, `Exit`.

Each process has a descriptor table (`table`); numbers are given out lowest
first (`IsLowest`) and `fork()` copies the table, with the ends of other children's pipes.  A
read sees the end of the stream only when no table has the writing end.  The
program and the children are an environment: the parent's program behaves like
one that uses `poll()`, a child reads its input to the end and writes `Output`
blocks to each pipe in any order.  When `exec()` fails the child leaves with
`quick_exit()`, which does not flush: no output.  `Inserting` says whether a
capture's iterator inserts (`back_inserter`) or has a position (`char *`), `ReadFails` whether the
capture's `read()` may fail, which ends its loop like the end of the stream does.

### Commands

A node of the tree is named by the words on the way to it, so `tree` is a
function from sequences of words to commands, `Stub` for those without a
handler.  `Register`, `Unregister`; `Dispatch` starts with an empty tree;
`GetOrCreateChild` takes one word of the path of the command being inserted;
`SetCommand` or `Duplicate`; `Built`; `Descend` as long as the next argument
names a child; `Found`; `Invoke` with the arguments that `find()` and
`dispatch_command()` leave, or `PrintUsage`.  A handler that throws
`usage_error` returns to the dispatcher like any other.  Stubs' printed paths
and the program name are left out.

### Config

For each program: `live` (the options in its store), `storage`, `isDefault`,
`text` (what `read_from()` has read and not applied yet); and all the variables
of `SafeWrite`, of which `Config` has an instance: `write_to()` is
`SW!Begin` with the entries of the options that are not defaults, in the order
of the store, and then the steps of `safe_write_file()`.  A block is an entry.  `Apply` is the loop of
`read_from()` up to its end or to the first entry that does not fit; it is one
step because nothing outside the program sees it in between.  If one key is
there twice, which can be the case after a death, the library may choose either.
Somebody edits the file (`Edit`); programs end, die and start again.

### Ucl

A *node* is an object of libucl, with its count in `refs`.  A *cell* is a place
with a pointer to a node: the `m_object` of a C++ object, an entry of an array or
a map, a reference that libucl is about to give up (`dying`), or one that the
code has forgotten (`lost`).  Each call of nihil.ucl is an action, and what it
does to the count is what the code does: `Create` takes a node over (`noref`),
`RefObject` and `Fetch` count (`ref`), `Insert` calls `ucl_object_ref()`,
`MoveConstruct`, `AssignEmpty`, `Swap` and `Pop` only move pointers, `Destroy` and
`Remove` give a reference up.  `AssignFull` forgets what the assigned object had,
and `PopMismatch` loses the entry, as the code does.  libucl is external:
`Unref` frees a node with its last reference and gives its entries up one by one,
`CopyConstruct` and `CopyNode` copy a node and what is within it one node at a
time.  A program may put a container into itself, at any depth, as nothing in
nihil.ucl or libucl looks; copying such a container would not end, and is left
out (`Copyable`).  `InsertLost` is an insertion that counts the reference and then
fails: `get_ucl_object()` of a container that was moved from throws, or libucl
refuses the entry and the call does not look at the result.  What libucl makes of
a key that the map has already is left out, and so is which entry an index or a
key means; a use of an iterator is `Fetch`.

### Tempfile

`dir` says which file has which name; each process has its objects (`file`,
`path`), its call of `tempfile()` (`pc`, `name`, `obj`), and may fork, which
copies its objects, or end without destroying them.  A step is a system call:
`OpenNew`, `OpenExists` (`EEXIST`, and the next name is made up), `OpenFails`,
`Discard` (the `unlink()` of `tempfile_unlink`), `Release`.  `unlink()` takes the
name away, whatever has it by then, or fails.  Other programs create and remove
files of their own (`Others`).  `forked`, `unwound` and `left` are history: which
files were in an object when it was forked, whether a copy has been destroyed,
and which files an object had to leave behind.

### ParseSize

`ReadDigit` is one pass of the loop over the digits, with the arithmetic of a type
whose largest value is `max`: what is greater wraps around (`Wrap`).  `Plain`,
`Scale` and `BadUnit` are the three ways to end.  Two history variables: `exact` is
the number that the digits mean, and `wrapped` says whether a result did not fit
(`Computes`), which the code is to prevent by checks of its own.  One width stands for all: the code has no case
that depends on the width, and the proof is for every width.

### ParseFlags

Here the words are sequences of characters, because a word may be a cluster with
a value behind it.  The loop of `posix_parse()` is one action for each thing that
can come next: `Cluster`, `Terminator` or `EndOfFlags`, in a cluster `BoolFlag`,
`ValueHere`, `ValueNext`, `Unknown` or `EndOfCluster`, then `Argument` and
`Return`.  Fields have the types `bool`, `std::string` and an unsigned integer; a
number is the digits that were read, and one of more than `MaxDigits` is too
large.  The reference is a reading of the guidelines that knows no loop: which
words are words of flags (`FlagWords`, the least set that has the first word and,
with each word, the one that is read after it, if they look like flags), where in a word the
flag with a value is (`ValuedAt`), and what is left (`Operands`).

The names in `ParseSize` and `ParseFlags` (`SizeSpec`, `FlagsSpec` and so on) are
such that one module can be about all three that deal with words.

## What is checked

| run | instance | states | result |
|---|---|---|---|
| `fd` | 3 objects, 4 numbers, one inherited | 5 048 | passes |
| `safe_write` | 3 writers, a short and a long range, file there or not | 20 430 | passes |
| `safe_write_stale` | 3 writers, one at a time, which may die | | `SuccessAlwaysWrites` violated |
| `process` | 3 objects, 4 pids | 252 | passes |
| `spawn` | 2 children, all pairs of 14 action lists | 121 855 | passes |
| `commands` | 5 commands, 121 argument lists | 504 191 | passes |
| `commands_args` | the same | | `HandlerGetsRest` violated |
| `config` | 1 program, 2 options, 2 strings, 3 edited files | 358 140 | passes |
| `ucl` | 5 cells, an array, 2 maps, 2 other nodes | 32 454 | passes |
| `tempfile` | 2 processes, 2 objects each, 2 names, 2 files | 122 776 | passes |
| `parse_size` | 8 bits, up to 3 digits, multipliers 4 to 4^5 | 67 088 | passes |
| `parse_flags` | 3 flags, 2 arguments, up to 4 of 12 words | 112 983 | passes |

`fd`: `OneHolder`, `HeldIsOpen`, `NoLeak` and the refinement of `Handles`.  Three
objects are the least with which one is moved while a third is given its number;
four numbers leave one free when each object has one.  The objects are
interchangeable, so symmetry is used; nothing in the properties picks one.

`safe_write`: `SuccessWrites`, `ErrorKeepsTarget`, `ReplacedAtOnce` (action
properties, each stated with the conditions under which the code keeps it) and
`NoLitter`.  The two ranges differ in length so that a short one over a long one
leaves a tail; three writers let a third be in a call while two of them collide.
`NoLitter` says that a temporary file nobody is working on was left by a death or
by an `unlink()` that failed: calls that overlap leave none, no other error does,
and the next call that renames or unlinks takes away what was there.

`process`: as `fd`.  With three objects and four pids there is always a pid that
no object knows.  Objects and pids are interchangeable.

`spawn`: `ChildWired`, `CaptureComplete`, `ParentEnds`, and under fairness
`Terminates`.  The action lists are every single action on its usual descriptor
and every pair of input with output and of output with a capture of standard
error.  A pipe holds two blocks and a child writes three, so that pipes fill; the
input fits a pipe exactly.  Two children are the least with which one has the
other's pipe ends.  Nine numbers are enough for all: three standard descriptors
and at most four ends for the first child's pipes, of which the parent keeps two,
and four for the second child's.  Fairness is weak, for the parent and for each
child: it says that the kernel runs a process that can run.  Nothing is assumed
of the order in which a process does several things it could do.  Deadlock is not
checked here: a capture spawned with another pipe, and children that hold each
other's ends, do stop for ever in the code.  `Terminates` names these cases
(`Blocking`, `Entangled`) and excludes them; dropping either makes it fail.

`commands`: `TreeHoldsCommands`, `DuplicatesThrow`, `FindsLongest`.  The paths
are *a*, *a b* (twice), *b a c* and *b c*: one is a beginning of another, one is
below two stubs, two collide.  Every order of registration and every list of up to four
words of three is tried, so that there are arguments that name nothing, stop at
a stub, or go on beyond a command.

`config`: `SettingsSurvive`, `NothingLost`.  Two options are the least with which
a load is applied in part; the edited files have one good entry, a wrong type
after a good entry, and an unknown key between two.  With death during a save,
short writes and failures of each call.  One program and an editor write the
file; overlapping saves are the subject of `safe_write`.

`ucl`: `CountExact`, `EntriesLive`, `Reclaimed` and the refinement of `Sharing`.  Five
cells are enough for two C++ objects and three entries, which is the least for a
map in a map with an entry, for a node in two containers, or for two containers
in each other; copies are made when they fit (`CopyFits`, a bound on memory).
Cells and nodes of one kind are interchangeable.  `Reclaimed` is about the states
in which the program has no C++ object left: what exists then is what a forgotten
reference leads to, and what is within itself or within something that is.  That
the code forgets references is not hidden by this: `AllFreed`, which `Ucl` defines
too, has no exception, and the code violates it (see [below](#what-the-checks-say-about-the-code)).

`tempfile`: `NamesOwnFile`, `NoLitter`, and under fairness `Returns`.  Two
processes are the least with which one has a forked copy of the other's object
or takes a name the other has given up; two names let a call find one taken and
the other free.  Fairness: a process whose call can go on does (weak; the kernel
answers, with a file or an error if the name is free and with `EEXIST` if it is
taken), and each name is tried again and again by a call that tries for ever
(strong, for each name), because `random_name()` draws each of them anew, all
equally likely.  `Returns` says that a call does not try for ever while some name
stays free; if every name is taken it does, and that is in the code.

`parse_size`: `Correct` and `NothingWraps`, for a signed and an unsigned type of eight bits, every
string of up to three digits, also with zeros in front, and every suffix.  Three
digits go beyond 255, and a multiplier of 4^5 beyond the type by itself.
`parse_flags`: `FollowsGuidelines`, for every vector of up to four of twelve
words: flags with their value behind them, in the next word and without one, two
flags in a word, an unknown flag, `-`, `--` and the empty word, numbers with
letters behind them and numbers that do not fit.  Four words are the least with
which a flag takes its value from the next word, `--` follows, and an argument
comes after it.  These two are functions and end, so there is no check for
deadlock.

The two runs that end in a violation are explained [below](#what-the-checks-say-about-the-code).

In every passing run each action and each disjunct of the next-state relation is
taken.  Data is bounded by the instances; no counter grows without bound.

## What is proved

For every set of objects, numbers, writers, commands, paths and arguments, and
with the assumptions at each module's head.  They say that the special values are
not ordinary ones and that the constants have their types; beyond that, `Ucl` is
for a finite number of cells, no two actions of a `spawn()` are for one
descriptor, and optional arguments of `posix_parse()` come after the required ones.

**`Fd_proofs`.** `OneHolder`, `HeldIsOpen` always; `NoLeak` and the refinement of
`Handles` when no open object is overwritten.  The inductive invariant is the two
first properties with the type invariant and `BareOpen`: the numbers in the
program's hands are open, for otherwise `open()` could return one of them.

**`SafeWrite_proofs`.** `NoLitter`, `ReplacedAtOnce`, `ErrorKeepsTarget`,
`SuccessWrites`.  The invariant says what a call that is alone knows after each
of its system calls (`AloneInv`: after the write the temporary file is the range,
if the range is no shorter than what was left; `BeforeInv`: the target is still
what it was), that a temporary file is in the hands of a call that will rename or unlink
it unless it was left behind by a death or a failed `unlink()` (`TmpInv`), and that a call that is alone is the only
one (`CallInv`).  What a write makes of a file is a lemma on sequences.

**`Process_proofs`.** `OneHolder` and `HeldIsChild` if `fork()` returns no pid
that is still in an object (`ReusesPid = FALSE`); `NoLeak` and the refinement if
moreover no object with a child is overwritten and no destructor's wait is
interrupted.  The strengthening is `StaleIsHarmless`: an object that was waited
for names no child.  Without the assumption on pids it is false, and so are the
theorems (see below).

**`Config_proofs`.** `SettingsSurvive` and `NothingLost`, for any programs, options,
strings and files, with saves that overlap, die and are cut short.  What
`safe_write_file()` does is not proved again: the lemmas of `SafeWrite_proofs` are
used through an instance of it.  They are about `Core`, the part of its invariant
that an editor who replaces the target cannot disturb.  Beside it the invariant
says that a program that saves does nothing else, so that the range is what its
store still says (`SavingInv`), and that the keys of a file that was loaded in
full are options that would be saved (`LoadedInv`).

**`Ucl_proofs`.** `CountExact`, `EntriesLive`, `Reclaimed` and the refinement of
`Sharing`, for any finite number of cells and any nodes.  The invariant adds that
the roles and the pointers of a cell agree (`Shape`), that a reference that is
given up and a copy that is made are never there at one time (`Apart`), and that what
is being copied exists and is not part of the copy (`CopySources`).  The count is
followed by lemmas on how many cells point to a node when one cell, or two, or
many new ones change.  `Reclaimed` follows: among nodes that nothing keeps and
that are not within themselves one is no entry of the others, some cell points to
it (`LiveHeld`), and without objects that can only be an entry of a container that
is kept.  For the refinement, a step that frees a node is `Drop` of its last holder.

**`Tempfile_proofs`.** `NamesOwnFile` and `NoLitter`, for any processes, objects,
names and files.  The invariant adds that in a process one object has a file
(`OneObject`), that objects of two processes have one file only if it was forked
(`SharedByFork`), and that all objects of one file know it under one name (`OneName`).

**`Spawn_proofs`.** For any number of children, any lists of actions on distinct
descriptors, any numbers of descriptors and pipes of any capacity, with failures
of `open()`, `pipe()`, `fork()` and `exec()` wherever they may come:

- `ParentEnds`, without further assumptions.  The invariant, `Core`, says where the
  parent is in its work and which action objects exist (`Position`, `ChildEnds`),
  that an action object holds the ends of its own pipe (`Held`), and that no other
  descriptor of the parent is an end of it (`Holder`).  The last one is what
  `ParentEnds` lacks to be inductive: `fork()` copies the table, and `Dropped`
  closes what the objects name.
- `CaptureComplete`, if the iterator inserts and `read()` does not fail; without
  either it is false (see below).  `Pipes` adds that what was written to a pipe is
  what was read with what is in it (`Flow`), that a child has no end of the pipes of
  children that come after it (`Inherited`), and that after the loop of a capture
  the pipe is empty and has no writing end in any table (`Through`).  So no
  later `fork()` can bring one back.
- `ChildWired`, if all actions are for the descriptors 0, 1 and 2, as in the run.
  `Wiring` says of each action that has been run that the child's descriptor is
  connected and the ends are closed (`Wired`), and of the others that both ends
  are where the parent made them, above 2 (`Unwired`).  For other numbers the theorem is false, because
  `dup2()` may hit an end that a later action needs.

**`Words_proofs`** has the three modules about words, each by itself.

*Commands.* `TreeHoldsCommands`, `DuplicatesThrow`, `FindsLongest`, for any
commands, words, arguments and orders of registration.  The invariant adds to the first two that the node `insert()` is at is on the way to its command's
node (`OnTheWay`), that inserted commands have different paths
(`DistinctPaths`), and that a finished tree has only nodes on the way to commands
(`Complete`).  For the search a second invariant says that with a node its
ancestors are in the tree (`WaysAreInTree`) and that the search stopped where it
had to (`Stopped`).

*ParseSize.* `Correct` and `NothingWraps`, for integer types of any width, any string and
any multipliers.  The invariant is that the number so far is the exact one as long
as no error was found; the lemmas say that a division and a subtraction decide
whether a product and a sum would overflow.

*ParseFlags.* `FollowsGuidelines`, for any flags and arguments, and vectors and
words of any length.  There is no induction over the words: the loop does it, and
the invariant says how far it is.  Between two words, the word that is next
follows the last word of flags before it, and no word of flags before it has the
next one as its value (`WordsAt`); those before are all right, and the fields say
what they say (`ReadingInv`, `BetweenInv`).  In a cluster the flags before `arg1`
are known and take no value (`ClusterInv`), and behind the flags the operands
are what is left (`ArgumentsInv`).  That no word is overlooked follows because
`FlagWords` is the least closed set: the words that the loop has seen are one
(`NextWord`, `AllPast`).  That a word has a first flag with a value rests on
`LeastElement`, which the well-foundedness of finite sets gives.

`TypeCorrect` in each of these modules is the theorem that its type invariant
holds (for `Process`, under the assumption on pids), and so is `FlagsTypeCorrect` in
`Words_proofs`.

Every invariant, every action property and every refinement that a passing run
checks is proved.  Only model-checked: `Terminates` and `Returns`, because liveness under
fairness is not within the prover's reach.  Nor is what a recursive definition
computes for every input; no module here declares a recursive operator, and
where one seemed to be needed a least set or an invariant of the loop took
its place.

## What the checks say about the code

Most of what the code promises holds.  What does not:

1. `write_file()` does not truncate (`write_file.ccm:22`): a temporary file left
   by a process that died, if it is longer, leaves its tail in the next file
   that is saved with success.  Run `safe_write_stale`.  Nor does anybody look at
   how much `::write()` took (`fd.ccm:120`): with `MayCrash = FALSE` and
   `MayWriteShort = TRUE` in `SafeWriteStale.cfg` a short write alone violates
   `SuccessAlwaysWrites`.
2. `command_tree::find()` drops as many arguments as it did not take
   (`command_tree.ccm:157`), so that a handler gets the wrong arguments unless as
   many words follow the command as name it.  Run `commands_args`.
3. `fd::operator=(fd &&)` does not close the descriptor that it overwrites
   (`fd.ccm:73`).  With `OverwritesOpen = TRUE` in `Fd.cfg` `NoLeak` is violated.
4. `process::wait()` does not reset `m_pid` (`process.ccm:113`), so that the
   destructor waits again, for another child if the pid is in use again: with
   `ReusesPid = TRUE` in `Process.cfg` `HeldIsChild` is violated.  Move assignment
   forgets the child that the object had (`process.ccm:90`), and the destructor
   ignores an interrupted wait (`process.ccm:78`): with `OverwritesHeld = TRUE` or
   `Interrupts = TRUE` `NoLeak` is violated.
5. `run_in_child()` closes by number the descriptors it may just have replaced
   (`spawn.ccm:46`).  With `Jobs <- MCJobsNumber` in `Spawn.cfg` `ChildWired` is
   violated.
6. A capture drops the iterator that `copy()` returns (`spawn.ccm:184`, and
   `read_file()` likewise, `read_file.ccm:27`): with `Jobs <- MCJobsCapture` and `Inserting = FALSE` in
   `Spawn.cfg` `CaptureComplete` is violated.  It is also violated with `ReadFails = TRUE`: an error
   of `read()` ends the loop and is dropped (`spawn.ccm:181`), as the comment behind
   it says.
7. Move assignment of a UCL object forgets the node that the object had
   (`object.ccm:62`), and so does copy assignment, which uses it: with `AllFreed` in place of `Reclaimed` and with
   `Array` and `Map` empty in `Ucl.cfg`, so that nothing is in anything, TLC finds
   a move assignment that leaves a node behind.
   The same comes of `map<T>::pop()` of an entry of another type, which takes it
   out of the map and then throws (`map.ccm:250`), of an insertion that fails after
   it has counted (`map.ccm:222`, `array.ccm:298`), and of a container that is
   put into itself.  `Ucl` has all of these, and `Reclaimed` names what they keep.
8. Every word that begins with two `-` is taken for the terminator
   (`parse_flags.ccm:433`), also `--name`, which the usage statement prints.  With
   `LongFlagsNoticed` in place of `FollowsGuidelines` in `ParseFlags.cfg` TLC
   finds it.
9. A child that destroys the `temporary_file` it has from `fork()` removes its
   parent's file (`tempfile.ccm:56`), and the parent later removes whatever has
   got the name since.  `NamesOwnFile` without its first disjunct is violated.

Seen while reading, without a run: `posix_usage()` shows required *flags* without
brackets (`parse_flags.ccm:388`) and `posix_parse()` does not ask for them;
integers are read with `operator>>`, so that `12abc` is 12; `n + it` of an array
iterator is `it - n` (`array.ccm:180`); the buffers in `emit.ccm:59` and `:75` are
shorter than the longest numbers; move assignment of a generator's iterator drops
a frame (`generator.ccm:123`).

The passing runs state each property with the condition under which the code
keeps it, and the conditions are constants or named operators, not omissions.

## What is not modelled

- Powers failing: a crash is the death of a process; what the kernel has not
  written to disk is not lost.
- `read_file()`, `read()` and `write()` by themselves; they are steps of
  `SafeWrite`, `Spawn` and `Config`.
- A use of an object after it was moved from, where the library's own comments
  rule it out.
- The argument vectors of the executors, and `$PATH`: sequential, and without
  state.
- The program name around a handler (`progname`: one pointer, set and put back by
  a guard), and the paths printed for stubs, which lack a word from the third
  level on (`command_tree.ccm:71-73`).
- `std::exit(1)` on a duplicate option name: nothing comes after it.
- The text of UCL files, and so `parser` and `emit`.  An entry is whole or absent;
  in the code the tail of an old file may also cut an entry in two, which then
  does not parse: `LoadFails` is possible for any text.
- In `Ucl`: values, comparison, the order of entries, and the positions of
  iterators, which hold a pointer to their container and no reference.
- In `ParseFlags`: the usage text, signed integers, blanks in front of numbers,
  and locales.
- The flags of descriptors and of open files (`fd.ccm:193-269`, `flagset.ccm`):
  each call is `fcntl()` with a number; that two of them can lose an update
  is listed as a hazard.
- `error`, `errc`, `sys_error`, `save_errno`, `monad`: values, and an early return
  that is part of every action that fails.
- `generator`, a widely used single-header implementation; `uuid`, `nihil.std`,
  Catch2: third-party, or nothing to model.  The Catch2 sources are most of the
  lines in the repository.
- `next_word`, `skipws`, `ctype`, `match`, `construct`, `tabulate`: functions of
  their arguments that a unit test reaches as well.

PROJECT.json lists the hazards of the code line by line, also those of parts that
are not modelled yet, each with the properties that cover it or the reason why
none does.

## Plan

Done: the owners of descriptors and children against one abstract specification,
references to UCL nodes against another; safe writing and the configuration on
top of it; spawning; dispatch and flags; temporary files; sizes; and a proof of
every safety property that a run checks.  What is left, in this order:

1. The status flags that `dup()`ed descriptors and forked children share, beside
   `Fd`, and the lost update of `setflags()` and `clearflags()`.
2. Signed integers in `ParseFlags`.
3. Nested guards of the program name, composed with `Commands`, and the printed
   paths of stubs.
