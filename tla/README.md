# tw: models, checks and proofs

`tw` is a collection of tools that test packages: `gosh` runs shell functions
as Go tests, `tw ptrace` reports what a command does to the system, and a
number of smaller commands wait, retry, grep logs, merge directories, bump
constraints and check packages.  This directory holds TLA+ models of the parts
of it that are concurrent or that can fail half way, the TLC runs that check
them and the TLAPS proofs about them.  Paths below are relative to `src/`.

## Inventory

| Component | State it keeps | Operations | Hard because | Model |
|---|---|---|---|---|
| gosh (`gosh/`) | status of each `TestFn`, the exit-code channel, two FIFOs per test, the Go test tree, the shell's position | signal start / end, run, judge, scan, tear down | three processes, blocking opens, goroutines nobody joins | `Gosh`, `SerialTests` |
| `tw ptrace` (`tw/pkg/commands/ptrace/`) | `pidSyscallMap`, the loop's position, the event channel, the counts, one signal channel | resume, wait4, handle a stop, count, report, cancel, forward | the kernel's orders, SIGKILL at any time, two readers of one channel | `Ptrace` |
| `tw shu wait`, `retry` (`tw/pkg/commands/shu/`) | one goroutine per target, the group's and the command's deadline, attempts | dial, sleep, join, run, pause | one deadline for everything, targets that go down again, conversions | `Shu` |
| `tw dgrep`, `kgrep` | matches of one attempt, attempts | match, judge, retry | verdict over several patterns and streams, logs that grow | `LogGrep` |
| `tw bumpconstraints` | the lines, a backup file | parse, update, write, restore | duplicates, crash in a write, a second run | `Bump` |
| `usrmerge-tool` | the file tree | rename, relink, remove | partial failure, second run, link arithmetic | `UsrMerge` |
| `symlink-check` | a channel of links, a pool of workers, counters | walk, send, judge, count, join | links that vanish while they are judged, joining | `LinkCheck` |
| `tests/runner`, `package-type-check`, `contains-files` | generated configs, totals; the environment a case is tested in | discover, generate, run melange, check, judge | negative tests, commands that fail, checks that change the environment | `PipelineTests` |
| `tw shell-deps` (`tw/pkg/commands/shelldeps/`) | results per file | select, extract, look up, judge, print | functions that hand on their arguments, a static reading of a dynamic language | `ShellDeps` |
| `gosh` decorators and wrapper, `helm inventory`, `chelm`, `no-docs-check`, `wassert`, `wexec`, `sfuzz`, `ksnap`, `kimages`, `echo`, the shell checkers, the other pipelines | none beyond one pass | | pure I/O or text | not modelled |

The tools do not call one another at run time: a melange pipeline starts one,
the test runner starts melange, and `gosh` runs scripts that may start any.  Within `gosh` the parties interact by the
control socket (a request and an acknowledgement), by the FIFOs (an open that
blocks until its peer comes) and by the exit code of the test process; within
`tw ptrace` by wait4, by `eventCh` and `done`, by the context, and by
`signalCh`, which two goroutines receive from; within `symlink-check` by the
channel, the wait group and the counters; within a test case by the files of the
environment that one step leaves to the next.

Not modelled, and why: `helm inventory` pulls a chart, digests it and runs helm
in a straight line; `chelm` and `no-docs-check` are one pass over documents and
files; the other `tw` commands hand their arguments to a shell, a file or a
Kubernetes client; the decorators of `gosh` are parsed and have no effect on a
run; the shell checkers call ldd, gem, pip or systemd-analyze and count; a
pipeline that is not `contains-files` or a check of `package-type-check` passes
its inputs on.

## Modules

| Module | What it is |
|---|---|
| `SerialTests` | what gosh promises: tests run one at a time, in order, with the verdict their exit code earned |
| `Gosh` | the wrapper script, the control server, `TestFn`, the scanners, the test tree and the process |
| `MCGosh` | the instance TLC checks |
| `GoshProofs` | the inductive invariant of `Gosh`, its safety properties as theorems, and that it implements `SerialTests` |
| `Ptrace` | the tracer, the kernel as ptrace(2) allows it to act, and the signals |
| `MCPtrace` | the instance TLC checks |
| `PtraceProofs` | types, no tracee left stopped, no foreign exit code; the events are the calls, the trace ends when the processes have |
| `Bump` | bumpconstraints: the lines, the two files, failing writes, crashes and a second run |
| `MCBump` | the instances TLC checks |
| `BumpProofs` | types; the old contents survive; a failed run changes nothing; a success has applied every update, for good |
| `UsrMerge` | usrmerge-tool: the merge call by call, and the arithmetic of link targets |
| `MCUsrMerge` | the instance TLC checks |
| `UsrMergeProofs` | entries survive, links lead where they led, failures have a reason, a finished merge is complete and stays |
| `LogGrep` | dgrep and kgrep: attempts, streams, matching and verdict |
| `MCLogGrep` | the instance TLC checks |
| `Shu` | wait and retry: waiters, group, attempts, pauses, the deadline and signals |
| `MCShu` | the instance TLC checks |
| `ShuProofs` | nothing starts before its time; what an exit code means |
| `LinkCheck` | symlink-check: jobs, walk, channel, workers, the check of a link |
| `MCLinkCheck` | the instance TLC checks |
| `LinkCheckProofs` | every link judged once, and the exit code, for any pool and channel |
| `PipelineTests` | the test runner, melange's environment, and the checks it runs there |
| `MCPipelineTests` | the instance TLC checks |
| `PipelineTestsProofs` | totals and the exit code, for any packages and suites |
| `ShellDeps` | show, scan, check and check-package, and what a shell does with a script |
| `MCShellDeps` | the instance TLC checks |
| `TwProofs` | dgrep and kgrep: what a pass and a failure mean, for any flags and any logs; shell-deps: what a shell runs is listed, a strict pass works, what is printed is what is returned |

### Gosh

`pc` and `cur` are the position of `framework.sh.tpl`: one sequential shell that
runs `_gosh_run_test` for each function.  Its actions follow the template line
by line: `SignalStart`, `StartAcked`, the two redirections (`OpenOut`,
`OpenErr`), the hook (`Setup`), the function (`FinishBody`), the EXIT trap, which
opens both FIFOs anew for its hook (`ReopenOut`, `ReopenErr`, `Teardown`),
`SignalEnd`, `EndAcked`.  The function and both hooks write to the FIFOs
(`WriteLine`) and may find one without a reader (`BrokenPipe`: an external
command dies and errexit goes on to the trap, or a builtin's SIGPIPE kills the
subshell, trap and all).  While the trap opens the FIFOs the shell keeps the
first descriptors, so the write ends never close in between (`WriterOpen`); a
shell that closed them would let the scanners meet end of file and the teardown
hook write to nobody.  `errexit` is chosen at the start: the user's script is
inlined and may contain `set -e`.

`conn` is the one control connection, at the server: `HandleStart` is the branch
that starts `go t.Run(...)`, `HandleEnd` the status check of `TestFn.End`,
`PassExitCode` the meeting of its unbuffered send with the receive in
`TestFn.Run`.  `sub[i]` and `status[i]` are the goroutine of a subtest and its
`TestFn.Status`: `RunTest`, `JudgeTest`, `CancelTest`, `FinishTest`.  `reader`
and `fifo` are the two scanners of each test and the lines in their FIFOs, `owed`
counts the lines written and not printed.
`tree` and `failed` are the enclosing Go tests: `Fail` is `t.Errorf`, which
panics if the parent test has completed.

The data is abstracted: an exit code is 0 or 1, a line is short or beyond the
scanner's buffer.  External and modelled from their use: the kernel's FIFOs,
bash's EXIT trap, package `testing`, and the finalizer that closes a file no one
refers to.

### Ptrace

`kst`, `why`, `unseen` and `kind` are the kernel's side of each process: what it
is doing, the kind of its last stop, whether wait4 has returned it, and the call
it is in.  A tracee enters a call, and the call returns, forks, execs or exits;
it stops at each step and goes on when resumed.  A fork's child may be seen
before its parent's event, and a SIGKILL may come at any time.

`tpc` is the position of the trace goroutine: `Launch` and `Attach` are `trace`
up to the loop, `Top` is the head of the loop with PTRACE_SYSCALL, `Wait4` and
`NoChild` the wait, and one action handles each kind of stop.  `known` and
`expect` are the keys of `pidSyscallMap` and their `expectReturn`; `mainKids` is
the test `len(state.children) == 0` of the command's record.  `queue` is
`eventCh`, `counted` the total of `syscallStats`, `report` what `Wait` read.
`sigQueued`, `canceller`, `cancelled` and `panicked` are the signal channel, its
first reader, the context and the nil dereference of its second one.

What a call is and what it touches is left out: events are counted, not told
apart.  `returns`, `overtaken` and `dropped` are history variables of the
properties.

### Bump

A line is a pin (package, operator, version) or blank; a version is a number in
PEP 440's order, and 0 is one that PEP 440 does not parse.  `pc` follows `Run`:
`OpenBackup` and `WriteBackup` are the two halves of `os.WriteFile`, which
truncates first, as are `OpenForWrite` and `Write`, `OpenForRestore` and
`Restore`.  `Apply` is one turn of the loop over the updates: `LastPin` is
`constraintMap`, `FirstPin` is `findConstraintLine`, and they may differ.
`BackupFails`, `ParseFails`, `WriteFails` and `RestoreFails` are the error
returns with the deferred restore, `Crash` the death of the process, after which
a truncated file holds a prefix of its lines.  `Start` begins another run with
the same updates.  Left out: comments, file modes, the syntax of a line.

### UsrMerge

`Clean`, `Rel`, `ResolveUnderRoot` and `NewLinkDest` are the path functions, on
sequences of names.  `tree` maps a directory and a name to a file (known by its
first place), a link (known by its text) or nothing; `dir` says which of the
directories exist or are links.  `StartMove`, `RenameFile`, `Relink`,
`RemoveLink`, `RemoveSource`, `RemoveEmptyDest` and `RemoveEmptyUsr` are the
calls `mergeRoot` makes, in its order; entries are taken in any order rather
than sorted.  `Interrupt` is an error of any of these calls, or a signal:
nothing is undone.  A run may be repeated.

A target is `/`, or a sequence of names, `.` and `..`.  `newLinkDest` gets two kinds
of targets wrong.  It keeps the last element of the text as it is, so one that ends
in `.` or `..` comes out wrong unless it leads to the root; and `resolveUnderRoot`
takes a path that leaves destdir by `..` and comes back through the names of
destdir's own path for a path under the root (in `/home/out`, `../../../home/x`
becomes `x`).  The model does what the code does with them; `LeadsAsBefore` looks at
the first tree without such links (`Odd`, `WithoutOdd`), so it promises nothing of a
path that goes through one, and everything of the others.  The run has a target of
each kind.

### LogGrep

`Log` lets the target write a line at any moment.  `Begin` starts an attempt with
nothing matched; `ScanContainer` is dgrep's fetch of both streams, `ScanStream`
kgrep's turn of its loop over streams, where a stream that breaks off looks like
one that ended.  `Counts` is the loop over the expected patterns with dgrep's
`break` on stdout, `Scanned` the scanner that stops at a line of more than
64 KiB, `Refused` the three tests of the verdict in their order, `Again` and
`GiveUp` the backoff with `Retry + 1` steps.  Left out: durations, the syntax of
patterns (a line is the set of patterns it matches), clients.

### Shu

`ctx` is the context of the process, which `--timeout` (from the start if it is
0), and for retry a signal, ends.  `waiter[t]` is the goroutine of a target:
`Check` is the test of the group's context at the head of its loop, `Dial` the
connection, `Sleep` the select between pause and context; the first one that
fails cancels the others (`Cancelled`).  `Join` is `group.Wait` and the start of
the command.  `Do`, `Attempt`, `Failed`, `Resume` and `Stop` are the steps of
avast's retry, which looks at the context before the first attempt and in the
pause; exec looks at it once more (`Start`).  `Succeed` and `CommandFails` end a
command, `Killed` one whose context is over.  `Limit` is the conversion of
`--attempts` to uint.  `met`, `won` and `lost` are history.  Left out: lengths of
time.

### LinkCheck

`main` follows `main`, `checkSymlinksFromPackages` and `checkSymlinksInPath`:
`StartJob` is the test of the path or the listing, and the spawn of the pool,
`Skip`, `Send` and `NotInstalled` the turns of its walk, `Close`, `Join` and
`Exit` the end.  `worker[w]` follows `checkSymlink` through `Readlink`, `Stat` and
`Open`, and `AddFail`, whose counter and message are two steps (`Log`,
`AppendMessage` are the second).  A link is named by its job and its position.
The channel is a set, since what becomes of a link does not depend on the order
links are taken in.  `Remove` takes a link away between any two of these calls.
The answers of the file system are a link's attributes.

### PipelineTests

`Discover`, `LoadTestSuite`, `Generate`, `NextSuite` and `Results` follow the
runner; a file that does not parse, or that holds no case, is passed over, while
a suite that is not valid ends the run.  `BuildEnvironment` is what the config
asks of melange: the base, the appended packages, the package and its
dependencies (`Asked`).  `Ordered` has the cases that expect success run first: `At`
picks them, and then the others, from the list of the file.  A config's directory
(`Dir`) is a prefix and the suite's name as the runner sanitizes it, so two names may
share one; its file is named for the package (`Slot`), so two cases may.  What was
in a file is gone once it is opened to be written, and `WriteFails` may leave it
empty.  So the config that is listed for a failed test (`main.go:368` tells the reader
to look at it) may be that of a later case of the package: nothing is claimed of it.
The steps of a config run one after the other in its environment:
`CheckType` is one of six checks of `package-type-check`, `CheckContains`
contains-files with a list of files (its other mode, a find, is left out), which
looks at the whole environment, `CheckByProduct` and `CheckVirtual` with
`TestVirtual` the two that call `apk add`.  `CommandFails`, `MelangeFails` and
`WriteFails` fail at any call, `MaxFaults` times.  A package is known by the kinds
of its files, its suffix, its description, and what it provides; apk and melange
are external.  `log` says what became of each case, `blurred` that a failure was
passed over (history).

### ShellDeps

A script is its calls, in the functions and outside; a word is its text without
expansions and the kind of expansion it has.  `ExtractDeps` and the operators
before it are `extractDeps`: aliases, functions that run their arguments, what
looks external.  `MissingInPath`, `MissingInTree` and `Provider` are the three
ways the commands look a name up, on eleven kinds of directory entries; `GnuUses`
is the search for GNU flags, `Declared` the reading of what apk prints.
`Chosen` are the files a command takes, one by one in their order; `Select` and the
`Refuse` actions begin with them or give up, `Show`, `Scan`, `Check` and
`CheckPackage` process one, the `Output` actions print and return, each by the
loops of its own.  The reference is `ProgramsRun`: the command lines a shell comes
to, with `$@` handed on, shifted and run, `MaxDepth` functions deep (`MaxDepth` is 4 in
the run, any number in the proof).  Every word has the number of functions it has come
through (`hops`); a word behind `$@` is a program only if nothing was handed on, and
counts as one that has come too far.  A program that is named by an expansion, `"$1"`
too, is one nobody knows.  Programs that run their own arguments (`xargs`, `env`,
`exec`) are out of the code's scope and of the model's.

`PassMeansUsable` compares the judgement on GNU flags with what the flags do (`Means`)
and with what a shell runs (`OnBusybox`), for a name and for an absolute path.  It
excepts by name: entries that lstat takes for coreutils before the one a shell runs
(`Hides`, and `Eclipsed` for a path), entries that stat takes for a program
(`Deceives`), long flags that are abbreviated, which GNU programs accept and the
code does not look for (`GivesFlag`), and relative paths (`Relative`), which the code
looks for in the search path and a shell does not.  It speaks of calls that name
command and flag themselves: what a function is given to run, or hands on, is not looked
at for flags.  Two of these exceptions disagree with what the tool says of itself:

- `check.go:61-62` says that `chmod --reference` is reported where `/usr/bin/chmod` is a
  link to busybox.  A path is cut to its base name (`gnucompat.go:109-111`), and that is
  looked up along the search path: `/bin/sort`, a link to busybox, passes with a GNU
  flag if an earlier directory has a regular file `sort` (`Eclipsed`).
- Its README (`shelldeps/README.md:271-308`) says that functions that run their
  arguments are analysed, and that GNU flags are detected.  They are looked for behind
  the head of each call only: `f sort -h`, with an `f` that runs `"$@"`, passes.

## Runs

| Run | Bounds | Shows |
|---|---|---|
| `gosh` | 2 tests, 2 lines, FIFOs of 1 line | types; `End` is always heard; verdicts are earned; `OutputKept`: pipes outlive their test and end of file means everything was printed; `ExitEarned`: green means complete, red means a failure; `RunsSerially`; `Terminates` |
| `gosh_exit` | the same, no lines | violated: a failing last test may leave the exit code 0 |
| `ptrace` | 2 processes, 2 calls, 1 SIGKILL, 1 signal, a channel of 1 | types; no tracee stays stopped; `EventsAccounted`: the toggle agrees with the kernel, no event is invented, none is lost without a reason; exit codes are the command's; the trace ends when the processes have; `Terminates` |
| `ptrace_exit_code` | the same, no SIGKILL | violated: a command that never forked is reported with 0 |
| `bump` | 2 packages, versions 0 to 2, files of 2 lines, 2 updates, 2 runs | types; the old contents are in one of the files until the next run; a failed run changes nothing; `UpdatesHold`: a successful one applies every update and lowers nothing, and a second run changes no pin |
| `usrmerge` | 2 names, 2 entries, 9 link targets, 2 command lines, 2 runs | types; every file is in one place, its old or its new; after success every path leads where it led, unless by a link that is odd; only clashes, alien links and interruptions fail; a merge that is done stays as it is |
| `loggrep` | 2 patterns, 2 expressions, 2 lines in 2 logs, retries -1 to 1 | types; `PassEarned`: a pass means present and absent as asked; a failure has a reason and has used every attempt |
| `shu` | 2 targets, 3 changes, attempts -1 to 2 with unsigned integers up to 3, 4 attempts of a retry without end | types and the limit; nothing starts before its time; the exit code says what happened; `Terminates` |
| `shu_no_timeout` | the same | violated: a timeout of 0 does not mean no timeout |
| `linkcheck` | 2 workers, a channel of 1, 3 links or 2 jobs of 2 entries and an empty one, 1 removal | types and the capacity; every link is judged once and the counters say how; the exit code is earned; `Terminates` |
| `pipeline` | any two of 29 cases in a suite, or 2 suites that share names, 8 packages, 2 faults | types and totals; an exit code of 0 means that every case was judged as it expects, and rightly |
| `shelldeps` | 2 functions, 1 or 2 calls, 2 files, 2 directories, 4 functions deep | types; what a shell runs is listed; a strict pass means a script that works, as far as `PassMeansUsable` goes; what is printed agrees with what is returned |

Two tests are enough for one to be judged while the next runs, and one line per
FIFO for a writer to block, for a line to be lost and for a scanner to break; the
properties speak of a test and its neighbours only, and the proofs cover every
number.  Two processes are enough for a child that overtakes its parent's event,
outlives its parent or dies first; two calls, for a fork and a call on either
side of it; a channel of one event fills up.  In `bump` two lines are enough for
a package pinned twice, for one that stays while another changes and for a write
cut short; a second run meets every state a first can leave.  Two entries are
enough in `usrmerge` for a link and its target, a clash, and a merge interrupted
between two entries; a chain of links adds nothing to what `NewLinkDest` sees of
each.  Two lines in `loggrep` are enough for a match after a line that is too
long and for one that comes between two attempts.  In `shu` two targets are
enough for one to fail while the other waits, or to go down before the other is
up; an attempt limit of 3 stands for -1.  In `linkcheck` two workers and a channel
of one fill it, and a third link waits; the second job finds the counters of the
first.  In `pipeline` what a case leaves to another is its config only, so pairs
are enough; two faults are one that is passed over and one that is not.  In
`shelldeps` two functions are enough to hand arguments from one to another, and
files are processed one by one.  The runs keep deadlock unchecked because all
these programs stop on purpose.

### Fairness

`Gosh`: weak fairness of the whole system, `WF_vars(Progress)`: goroutines and
processes that can run are run, a test function returns, and the Go runtime
collects garbage at least every two minutes.  Nothing is fair to one party at
the cost of another; the steps of a run are bounded.  `Terminates` excepts runs
in which a line overran a scanner: its writer may then block for good.

`Ptrace`: `FairSpec` has the trace goroutine, `Wait`, os/exec's kill and what
the kernel has begun (a fork's event, an exit) go on.  `FairRun` adds the
tracees: no call blocks for ever and each process exits.  `Terminates` needs it:
a command that sleeps for ever is traced for ever, after a ctrl+c too, which the
loop looks at between two stops only.

`LinkCheck`: the main goroutine and each worker go on while they can.  `Shu`: so
do its goroutines; the deadline comes; a command that is killed dies; and, since
a select with several ready cases takes each of them sooner or later, a pause
under an ended context does not resume for ever (`SF_vars(Stop)`).  No command
need end by itself and no target come up.

## Proofs

`GoshProofs` proves `TypeOK` and the safety invariants of run `gosh`, with the
parts they are made of, for every number of tests and lines and every capacity of the FIFOs, from
`GoshAssumption` (at least one test, capacities positive).  None of them is
inductive; `IInv` adds what orders the parties:

- `ControlInv`: the shell's position determines the state of the connection and
  of the goroutine of the current test;
- `OrderInv`: earlier tests have handed over their exit code, later ones have
  not begun;
- `StatusInv`, `CodeInv`: status and exit code follow the goroutine;
- `ReaderInv`, `LineInv`: a scanner's state follows the shell's opens, and the
  lines it owes are those in its FIFO;
- `TreeInv`: what the parents' marks imply.

There is one lemma per action, then `NextIInv`, then one theorem per property.
The refinement is shown from `IInv` too: each action maps to `Begin`, `End`, `Judge` or a
stutter of `SerialTests` (`Refinement`, the property `RunsSerially`).

`PtraceProofs` proves `TypeOK`, `NobodyFrozen` and `ExitCodeHonest` from
`PtraceAssumption`, for every number of processes, calls, kills and signals.
`StopInv` is the strengthening: a stopped process is unreported, or the one in
the loop's hands; `DeathInv` says that a reported death is final.

It proves `EventsAccounted` and `DoneMeansFinished` on top of that, from the same
assumption.  Neither is inductive; `EventInv` places every process
by the stops that have been *handled*, not by those the kernel has made: inside a
call (`Insiders`), outside of one (`Outsiders`), or in a fork the loop has not heard
of (`Forkers`).  Its parts:

- `HandInv`: the process in hand is stopped where the loop takes it to be, or was
  killed there;
- `BirthInv`: a process is born once, of one parent, and unknown until then;
- `PhaseInv`: the toggle agrees with the place, unless the record was replaced in
  the middle of a call, which happens at most once to each process;
- `KnownInv`: a process is known from its first call on;
- `CountInv`: events counted and queued, plus the returns still owed (`Debt`), are
  never more than the calls that returned, and exactly as many while nothing was
  dropped, killed, cancelled or replaced.  `DebtGrows`, `DebtPaid` and `DebtKept`
  are the three things a step can do to it;
- `CalmInv`, `CoverInv`, `DoneInv`: without kills a process that is alive is known or
  the child of a fork about to be handled, so that an empty map, or a command
  without children, leaves nobody behind.

`BumpProofs` proves `Recoverable` and `AllOrNothing` for every file, every list
of updates and any number of runs.  Its `IInv` says at each `pc` which of the two
files holds the old contents; that the file is whole while the backup is written
and the backup whole while the file is, is the argument.  `TypeOK` is proved by itself
(`Typed`); its one hard step is that `constraintMap`'s pin is a line that was read,
which rests on every bounded set of numbers having a greatest one (`MaxIsMember`,
from the well-foundedness of the naturals).

`UpdatesHold` needs to know what the lines in memory are while updates are applied,
and that a later run finds nothing to do.  Its strengthening:

- `FormInv(lines, k)`: after `k` updates no line has moved or changed its package, a
  line none of them names is as it was read, what follows is new, and each of the
  `k` `Stands` where the next run would look: the first line of its package has the
  operator of the last one and the new version;
- `LineInv(lines, k)`: what follows are the new packages in the order of the updates
  and, where no package is pinned twice, an updated line has the version of its
  update, which was not refused.  `OneUpdate` shows that both survive one update;
  that no package is updated twice (`~Duplicates`) keeps updates out of each other's
  way;
- `WorkInv`: the two hold at each `pc` that needs them, of the lines that were read;
- `SettledInv`: after a success every update stands in the file, and then an update
  that is not refused writes what is there already (`NothingToDo`).

The property speaks of pins and not of lines; `PinsMapped` (lines changed one by one
have the pins changed one by one) and `PinsWritten` (the line `strings.Join` loses is
no pin) lead from one to the other.  Both are inductions over the picks of `At`, a
function defined by recursion; `RecursionExists` gives it its steps.

`TwProofs` proves about two modules, whose names do not overlap for that reason.  Of
`LogGrep` it proves `PassMeansPresent` and `PassMeansAbsent` for any patterns,
streams and numbers of lines and attempts.  The invariant says what the verdict
rests on: logs only grow (`Grown`: what the log was when the attempt began still
begins it), a matched index is a pattern that is in the log (`Present`), and
every stream that is no longer in `left` has been noted: an unwanted or expected
pattern on a line that was there when the attempt began has set `found` or
`matches`, unless the attempt is `blind`.  One lemma (`ScanNotes`) serves both
tools, since a scan of any set of streams, each read up to some line, keeps it.

It proves `FailureExplained` and `GrepTypeOK` too.  `FailInv` says the converse of what a
pass needs: what was found is in the log (`Warranted`), an expected pattern on a line
that was there when the attempt began counts as matched unless another pattern hides
it (`Credited`), and no attempt is begun or left over (`Tries`).  So a refusal by an
attempt that read everything has its reason in the logs.

Of `ShellDeps`, `TwProofs` proves `TypeOK`, `NothingMissed`, `PassMeansUsable` and
`ShownAgrees` from `ShellDepsAssumption` (files are scripts of calls that have a word at
least, an absolute path names a directory and its last element, and commands with GNU
flags are named without a slash) and `DepthAssumption`, for any files, directories, functions and `MaxDepth`.  The inductive
`IInv` says what the loops have done:

- `ResultOf(f)`: what each of the four commands makes of a file, in one operator;
- `RunInv`: a result is `ResultOf` a file given, and while files are processed the files
  of `results` with those of `todo` behind them are `Chosen`;
- `EndInv`: an exit code of 0 after a strict check means that no result is an `Issue`
  and every chosen file has one, and what was printed goes with it.  `TypeOK` and
  `ShownAgrees`, which compares three loops over the same results, are parts of `IInv`.

`NothingMissed` is then about `ExtractDeps` and `ProgramsRun` alone, two inductions in
one another: over the words of a call (`CommandLine`: the first word of a line is the
first of the call, or was handed on in place of a `$@` before which nothing is left), and
over the nesting of functions (`CommandLines`).  What the second carries is `LineOK`:
a line begins with a text `extractDeps` looks at, unless it has come too far or nobody
knows it, and so does what a function of `Wrappers` is given first, if it stands in the
script where it is given.  `PassMeansUsable` adds that the first entry
lstat finds and the first one a shell can execute are the same unless an entry `Hides`
between them (`ProviderTells`), that an absolute path runs what stands there unless it
is `Eclipsed` (`AbsoluteTells`), and that the lines up to the first block's end are what
apk says of the newest version (`DeclaredTells`); all three need the least of a set of
numbers (`LeastOf`).

`ShuProofs` proves `TypeOK`, `RunsWhenReady` and `ExitEarned` from
`ShuAssumption` (a limit that fits the unsigned integer), for any targets, flags
and bounds.  `WaiterInv` says what a waiter that is done has seen, `ResultInv`
that as long as the context lives every attempt begun has failed, `LimitInv` that
an attempt is left where one may follow, `PlaceInv` and `EndInv` where the command
may be and why it ended.

`LinkCheckProofs` proves `TypeOK`, `AllJudged` and `ExitEarned` from
`LinkCheckAssumption` and `EntryAssumption`, for any jobs, workers and capacity.
`ControlInv` says where the workers are in each place of the main goroutine,
`PlaceInv` that a link is in one place, `CoverInv` that the walk has left none
behind, `CountInv` that the counters count the links that passed and, with those
whose message is still to come (`Failing`), the messages, and `JudgeInv` what each
worker knows of its link, which may have been removed since.

`UsrMergeProofs` proves `TypeOK`, `EntriesKept`, `LeadsAsBefore`, `FailsForAReason` and
`MergedStays` from `UsrMergeAssumption`, for any directories, names, link targets and
command lines, and any number of interrupted runs. `EntriesKept` is not inductive: it
says where an entry may be, and not how it came there. The strengthening:

- `ShapeInv`, `ControlInv`: the tree maps every place to nothing, a file or a link;
  each `pc` says which directories exist and what of the source is still to do;
- `OriginInv`: what is in a place was there at first, or in the place that moves
  here (`NewPlace`), which are never two if names are distinct;
- `Kept`: a file is in exactly one of its two places and as it was; a link is in one
  at least, rewritten if it is in the new one;
- `DoubleInv`: without an interruption a link is in both places between its two calls
  only.  With `OriginInv` this gives that a name already taken means a clash, or an
  interrupted run, which is `FailsForAReason`;
- `MovedInv`, `DoneInv`: a directory that is behind is gone or a link to `usr/bin`,
  so that a later run finds nothing to do (`MergedStays`).

`MergesAreComplete` adds what no run states: after a success the tree is a function
of the first tree and the command line, however often runs broke off before it.

`LeadsAsBefore` follows from that and the arithmetic of paths, by induction over the
links of a path (`LeadsStill`).  `RecursionExists` makes functions defined step by
step of `Clean` and `Follow`; then `CleanConcat` (what comes first may be cleaned
first), `CleanUps` and `CommonPart` give `RelLeadsBack`: from its base, `Rel` leads to
the path.  `CleanUnderRoot` compares a path with the same path under destdir: they
end alike, behind as much of destdir's path as was not left, whence `ResolveIsGoal`:
`resolveUnderRoot` finds where the link leads.  `GoalOfMoved` puts these together: made
anew in `usr/bin`, a link leads where it led, or to `usr/bin` instead of a directory
that is merged.

`PipelineTestsProofs` proves `TypeOK` and `ExitEarned` from `PipelineAssumption`, for
any finite repository of packages, any suites and any number of failures. Its `IInv` has
two halves. The runner's: `PlaceInv` (melange reads the config of the case at hand),
`OrderInv` (the cases of the log are those of the suites before the current one, joined,
and the current one's so far: the induction over suites that `exit = 0` needs, in one
equation), `TotalInv` (no verdict was wrong, and while `failed` is 0 none was
unexpected). Melange's (`MelangeInv`): `EnvInv` (the package is in the environment, and
what a check added has no files unless it was asked for), `StepInv` (a step that is
behind was met, whatever the environment becomes: the environment only grows),
`VirtualInv` (the count of a virtual check is still that of the environment, so a name
that was added and passed brought no files; `CountTells`). The proof rests on lemmas
about `At` and `FlattenSeq`, both folds; `RecursionExists` turns each into a function
defined step by step, and `SetInduction`, from the well-foundedness of the naturals,
does the rest. `NoCaseIsLost` is about `Ordered` alone: it has its file's length and
cases, positive ones first.

Model-checked only: every `Terminates` and the violations, because liveness under
fairness and ENABLED are beyond the prover.  Every invariant and action property of the
passing runs is a theorem.

Not promised and not claimed: that a rerun after a crash finds the good backup (it
overwrites it), that usrmerge-tool finishes a merge that was interrupted between a link
and its removal (it fails with EEXIST), that it keeps two files of one name (the second
replaces the first), that it handles targets that end in `.` or `..` or come back into
destdir from outside (`Odd`), and that dgrep and kgrep see what comes after a line that
is too long; that a target is still up when wait's command starts; that a negative test
case fails for the reason it means (any error of melange will do), that the by-product
and virtual checks notice an `apk add` or a count that failed (they pass, or count 0),
that contains-files finds the package's own files, and that a failed test's config is
there to look at; that an interrupt stops the runner, as its README says (its context is
the background one, and the default handler ends it); that shell-deps sees through two
functions that hand on their arguments, through `shift`, or through an entry that is no
program (nor a program that is behind the `$@` of a call, such as `"$@" prog`, and is
run if nothing was handed on), that it finds GNU flags behind a path or a wrapper (see
ShellDeps above), and that check-package notices that apk failed (it then says nothing
of GNU flags). The models contain these behaviours; the properties name them as
exceptions.

## Plan

1. `Ptrace`: what a call touches (`recordFileActivity` and the handlers), in a
   module of its own that the loop's events feed.
2. `chelm`: the images of a rendered chart against those its values name.
