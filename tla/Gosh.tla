-------------------------------- MODULE Gosh --------------------------------
(***************************************************************************)
(* gosh runs the gt_* functions of a shell script as Go subtests.  Three   *)
(* parties take part:                                                      *)
(*   - the wrapper script (framework.sh.tpl), one sequential shell that    *)
(*     forks a subshell per test and signals "start" and "end" over a      *)
(*     control socket, waiting for the acknowledgement of each;            *)
(*   - the control server, whose handler starts a subtest goroutine on     *)
(*     "start" and hands the exit code to TestFn.End on "end";             *)
(*   - the Go test process: one goroutine per subtest (TestFn.Run), two    *)
(*     pipe scanners per subtest, and the tree TestShell > script > gt_*.  *)
(* A subshell's redirections open the two FIFOs of its test for writing,   *)
(* which blocks until a scanner opens them for reading: the rendezvous     *)
(* that orders the shell behind the goroutine.                             *)
(* The socket, the FIFOs, bash and package testing are external; they are  *)
(* modelled by what the code relies on.                                    *)
(***************************************************************************)
EXTENDS Naturals, Sequences

CONSTANTS
  NTests,        \* number of gt_* functions
  MaxLines,      \* bound: lines tests and hooks write in the whole run
  PipeCap        \* lines a FIFO holds before its writer blocks

ASSUME GoshAssumption ==
  /\ NTests \in Nat \ {0}
  /\ MaxLines \in Nat
  /\ PipeCap \in Nat \ {0}

Tests == 1 .. NTests
Pipes == {"out", "err"}
LineKinds == {"short", "long"}   \* long: beyond bufio.Scanner's 64 KiB

VARIABLES
  errexit,   \* the user's script contains a top-level set -e; never changes
  pc,        \* where the shell is
  cur,       \* the test the shell is at
  code,      \* code[i]: exit code of test i's subshell, 1 for any non-zero
  fnOk,      \* fnOk[i]: gt_i itself ran and exited 0 (history)
  tornDown,  \* tornDown[i]: the teardown hook ran to its end (history)
  conn,      \* the one control connection: "none", "start", "end" when
             \* received, "ending" inside TestFn.End, "handled" before the ack
  status,    \* status[i]: TestFn.Status
  sub,       \* sub[i]: where the goroutine of subtest i is
  reader,    \* reader[i][p]: where the scanner of pipe p is
  lines,     \* number of lines written so far, for the bound
  fifo,      \* fifo[i][p]: lines written to pipe p and not yet read
  owed,      \* owed[i][p]: number of lines written and not printed (history)
  closed,    \* closed[i]: TestFn's cleanup closed and removed the pipes
  tree,      \* progress of the parent tests and of the process
  failed     \* the failed mark of the parent tests

verdicts == <<code, fnOk, tornDown>>
script == <<errexit, cur, verdicts>>
shell == <<pc, script>>
parents == <<tree, failed>>
gopart == <<status, sub, closed, parents>>
output == <<lines, fifo, owed>>
pipes == <<reader, output>>
vars == <<shell, conn, gopart, pipes>>

PCs == {"setupOnce", "start", "startAck", "openOut", "openErr", "setup", "body",
        "trap", "trapErr", "teardown", "end", "endAck", "teardownOnce",
        "exited", "aborted"}
(* The user's code runs, between the redirections of its subshell ...      *)
Writing == {"setup", "body", "teardown"}
(* ... which all its redirections outlive: the trap's open a second pair   *)
(* of descriptors and the shell keeps the first.                           *)
Redirected == Writing \cup {"trap", "trapErr"}
ConnStates == {"none", "start", "end", "ending", "handled"}
Statuses == {"NotStarted", "Running", "Passed", "Failed"}
SubStates == {"none", "spawned", "waiting", "received", "judged", "done"}
ReaderStates == {"none", "launched", "refused", "opening", "open", "eof",
                 "broken", "gone"}
TreeStates == {"running", "scriptDone", "shellDone", "exited", "panicked"}

(* The Go process runs: neither os.Exit nor a panic has ended it. *)
Alive == tree \notin {"exited", "panicked"}

(* The pipes' write ends are open while the subshell lives. *)
WriterOpen_Gap(i, p) ==     \* fault: closed while the trap opens them anew
  i = cur /\ (pc \in Writing \/ (pc = "openErr" /\ p = "out"))
WriterOpen(i, p) ==
  /\ i = cur
  /\ \/ pc \in Redirected
     \/ pc = "openErr" /\ p = "out"

Init ==
  /\ errexit \in BOOLEAN
  /\ pc = "setupOnce"
  /\ cur = 1
  /\ code = [i \in Tests |-> 0]
  /\ fnOk = [i \in Tests |-> FALSE]
  /\ tornDown = [i \in Tests |-> FALSE]
  /\ conn = "none"
  /\ status = [i \in Tests |-> "NotStarted"]
  /\ sub = [i \in Tests |-> "none"]
  /\ reader = [i \in Tests |-> [p \in Pipes |-> "none"]]
  /\ lines = 0
  /\ fifo = [i \in Tests |-> [p \in Pipes |-> <<>>]]
  /\ owed = [i \in Tests |-> [p \in Pipes |-> 0]]
  /\ closed = [i \in Tests |-> FALSE]
  /\ tree = "running"
  /\ failed = FALSE

-----------------------------------------------------------------------------
(* The wrapper script.                                                     *)

(* setup_once and teardown_once run in the main shell: their failure counts *)
(* only under the user's errexit, which then ends the script.              *)
SetupOnce(c) ==
  /\ pc = "setupOnce"
  /\ pc' = IF errexit /\ c # 0 THEN "aborted" ELSE "start"
  /\ UNCHANGED <<script, conn, gopart, pipes>>

TeardownOnce(c) ==
  /\ pc = "teardownOnce"
  /\ pc' = IF errexit /\ c # 0 THEN "aborted" ELSE "exited"
  /\ UNCHANGED <<script, conn, gopart, pipes>>

(* _gosh_signal "start": gt ctrl sends and waits for the ack. *)
SignalStart ==
  /\ pc = "start"
  /\ conn' = "start"
  /\ pc' = "startAck"
  /\ UNCHANGED <<script, gopart, pipes>>

(* gt ctrl returns once the handler has answered. *)
StartAcked ==
  /\ pc = "startAck"
  /\ conn = "handled"
  /\ conn' = "none"
  /\ pc' = "openOut"
  /\ UNCHANGED <<script, gopart, pipes>>

(* The subshell's redirections, in order.  open(2) of a FIFO for writing   *)
(* returns when a reader is there, and lets that reader's open return.     *)
FifoReady_PlainFile(p) == TRUE       \* fault: the pipe is not a FIFO
FifoReady(p) == reader[cur][p] = "opening"

OpenPipe(at, p, next) ==
  /\ pc = at
  /\ FifoReady(p)
  /\ reader' = [reader EXCEPT ![cur][p] = "open"]
  /\ pc' = next
  /\ UNCHANGED <<script, conn, gopart, output>>

OpenOut == OpenPipe("openOut", "out", "openErr")
OpenErr == OpenPipe("openErr", "err", "setup")

(* The setup hook, under errexit: on failure gt_i never runs. *)
Setup(c) ==
  /\ pc = "setup"
  /\ code' = [code EXCEPT ![cur] = c]
  /\ pc' = IF c = 0 THEN "body" ELSE "trap"
  /\ UNCHANGED <<errexit, cur, fnOk, tornDown, conn, gopart, pipes>>

(* gt_i or a hook writes a line to one of the pipes; a full FIFO blocks it. *)
WriteLine(p, k) ==
  /\ pc \in Writing
  /\ lines < MaxLines
  /\ reader[cur][p] # "gone"
  /\ Len(fifo[cur][p]) < PipeCap
  /\ fifo' = [fifo EXCEPT ![cur][p] = Append(@, k)]
  /\ owed' = [owed EXCEPT ![cur][p] = @ + 1]
  /\ lines' = lines + 1
  /\ UNCHANGED <<shell, conn, gopart, reader>>

(* A write with no reader left.  SIGPIPE kills a command, and errexit ends *)
(* the function: on to the trap.  Or it kills the subshell, whose builtin  *)
(* wrote: a shell that runs no EXIT trap then is gone at once.             *)
BrokenPipe(p) ==
  /\ pc \in Writing
  /\ lines < MaxLines
  /\ reader[cur][p] = "gone"
  /\ code' = [code EXCEPT ![cur] = 1]
  /\ pc' \in IF pc = "teardown" THEN {"end"} ELSE {"trap", "end"}
  /\ UNCHANGED <<errexit, cur, fnOk, tornDown, conn, gopart, pipes>>

(* gt_i returns, or errexit stops it. *)
FinishBody(c) ==
  /\ pc = "body"
  /\ code' = [code EXCEPT ![cur] = c]
  /\ fnOk' = [fnOk EXCEPT ![cur] = (c = 0)]
  /\ pc' = "trap"
  /\ UNCHANGED <<errexit, cur, tornDown, conn, gopart, pipes>>

(* The EXIT trap redirects the teardown hook: it opens both FIFOs anew, in *)
(* order, and blocks for good in one whose reader is gone.                 *)
ReopenPipe(at, p, next) ==
  /\ pc = at
  /\ reader[cur][p] # "gone"
  /\ pc' = next
  /\ UNCHANGED <<script, conn, gopart, pipes>>

ReopenOut == ReopenPipe("trap", "out", "trapErr")
ReopenErr == ReopenPipe("trapErr", "err", "teardown")

(* The teardown hook is through, under errexit: its failure replaces the   *)
(* exit code.  Then the subshell is gone and its write ends close.         *)
TrapCode_Hook(c) == c                \* fault: always the hook's own code
TrapCode(c) == IF c = 0 THEN code[cur] ELSE c

Teardown(c) ==
  /\ pc = "teardown"
  /\ tornDown' = [tornDown EXCEPT ![cur] = TRUE]
  /\ code' = [code EXCEPT ![cur] = TrapCode(c)]
  /\ pc' = "end"
  /\ UNCHANGED <<errexit, cur, fnOk, conn, gopart, pipes>>

(* test_exit_code=$? and the "end" signal.  Under the user's own errexit a  *)
(* failed subshell ends the whole script before the signal.                *)
SignalEnd ==
  /\ pc = "end"
  /\ IF errexit /\ code[cur] # 0
     THEN pc' = "aborted" /\ UNCHANGED conn
     ELSE pc' = "endAck" /\ conn' = "end"
  /\ UNCHANGED <<script, gopart, pipes>>

(* The ack of "end": on to the next test. *)
LastTest_Never == FALSE              \* fault: the loop runs on
LastTest == cur = NTests

EndAcked ==
  /\ pc = "endAck"
  /\ conn = "handled"
  /\ conn' = "none"
  /\ IF LastTest THEN pc' = "teardownOnce" /\ UNCHANGED cur
                 ELSE pc' = "start" /\ cur' = cur + 1
  /\ UNCHANGED <<errexit, verdicts, gopart, pipes>>

-----------------------------------------------------------------------------
(* The control server's handler and TestFn.                                *)

(* CommandStart: go t.Run(...), acknowledged at once. *)
HandleStart ==
  /\ Alive
  /\ conn = "start"
  /\ sub' = [sub EXCEPT ![cur] = "spawned"]
  /\ conn' = "handled"
  /\ UNCHANGED <<shell, status, closed, parents, pipes>>

(* TestFn.Run up to its select: the status check, Running, two scanners. *)
Scanners_OutOnly(i) == [reader[i] EXCEPT !["out"] = "launched"]  \* fault
Scanners(i) == [p \in Pipes |-> "launched"]

RunTest(i) ==
  /\ Alive
  /\ sub[i] = "spawned"
  /\ status[i] = "NotStarted"
  /\ status' = [status EXCEPT ![i] = "Running"]
  /\ reader' = [reader EXCEPT ![i] = Scanners(i)]
  /\ sub' = [sub EXCEPT ![i] = "waiting"]
  /\ UNCHANGED <<shell, conn, closed, parents, output>>

(* TestFn.End: the status check.  Its error is only logged; the ack is     *)
(* sent all the same.                                                      *)
EndReply == IF status[cur] = "Running" THEN "ending" ELSE "handled"

HandleEnd ==
  /\ Alive
  /\ conn = "end"
  /\ conn' = EndReply
  /\ UNCHANGED <<shell, gopart, pipes>>

(* The unbuffered send of End meets the receive of Run's select. *)
PassExitCode ==
  /\ Alive
  /\ conn = "ending"
  /\ sub[cur] = "waiting"
  /\ sub' = [sub EXCEPT ![cur] = "received"]
  /\ conn' = "handled"
  /\ UNCHANGED <<shell, status, closed, parents, pipes>>

(* t.Errorf marks the subtest and, first, its ancestors as failed; package *)
(* testing panics when an ancestor has already completed.                  *)
Fail ==
  IF tree = "running" THEN failed' = TRUE /\ UNCHANGED tree
                      ELSE tree' = "panicked" /\ UNCHANGED failed

(* The exitCode branch of Run's select. *)
Verdict_Swapped(i) == IF code[i] # 0 THEN "Passed" ELSE "Failed"  \* fault
Verdict(i) == IF code[i] = 0 THEN "Passed" ELSE "Failed"

JudgeTest(i) ==
  /\ Alive
  /\ sub[i] = "received"
  /\ status' = [status EXCEPT ![i] = Verdict(i)]
  /\ IF code[i] # 0 THEN Fail ELSE UNCHANGED parents
  /\ sub' = [sub EXCEPT ![i] = "judged"]
  /\ UNCHANGED <<shell, conn, closed, pipes>>

(* The ctx.Done branch: ctx is derived from TestShell's context, which is  *)
(* cancelled when TestShell's function has returned.                       *)
Cancelled == tree = "shellDone"

CancelTest(i) ==
  /\ Alive
  /\ sub[i] = "waiting"
  /\ Cancelled
  /\ status' = [status EXCEPT ![i] = "Failed"]
  /\ sub' = [sub EXCEPT ![i] = "judged"]
  /\ UNCHANGED <<shell, conn, closed, parents, pipes>>

(* Run returns: on an error the subtest calls Errorf again; then the       *)
(* cleanup closes and removes both pipes.                                  *)
RunFailed(i) == status[i] = "Failed"

FinishTest(i) ==
  /\ Alive
  /\ sub[i] = "judged"
  /\ IF RunFailed(i) THEN Fail ELSE UNCHANGED parents
  /\ sub' = [sub EXCEPT ![i] = "done"]
  /\ closed' = [closed EXCEPT ![i] = TRUE]
  /\ UNCHANGED <<shell, conn, status, pipes>>

-----------------------------------------------------------------------------
(* scanPipe, one goroutine per pipe, joined by nobody.                     *)

(* Pipe.Open refuses a closed pipe, otherwise enters open(2). *)
OpenReader(i, p) ==
  /\ Alive
  /\ reader[i][p] = "launched"
  /\ reader' = [reader EXCEPT ![i][p] =
                   IF closed[i] THEN "refused" ELSE "opening"]
  /\ UNCHANGED <<shell, conn, gopart, output>>

(* One line scanned and printed; a line beyond bufio.Scanner's buffer ends *)
(* the scan, and the error goes nowhere.                                   *)
ScanLine(i, p) ==
  /\ Alive
  /\ reader[i][p] = "open"
  /\ fifo[i][p] # <<>>
  /\ fifo' = [fifo EXCEPT ![i][p] = Tail(@)]
  /\ IF Head(fifo[i][p]) = "short"
     THEN /\ owed' = [owed EXCEPT ![i][p] = @ - 1]
          /\ UNCHANGED reader
     ELSE /\ reader' = [reader EXCEPT ![i][p] = "broken"]
          /\ UNCHANGED owed
  /\ UNCHANGED <<shell, conn, gopart, lines>>

ScanEOF(i, p) ==
  /\ Alive
  /\ reader[i][p] = "open"
  /\ fifo[i][p] = <<>>
  /\ ~WriterOpen(i, p)
  /\ reader' = [reader EXCEPT ![i][p] = "eof"]
  /\ UNCHANGED <<shell, conn, gopart, output>>

(* scanPipe never closes its file: the garbage collector does, some time   *)
(* after the goroutine returned.                                           *)
CollectReader(i, p) ==
  /\ Alive
  /\ reader[i][p] = "broken"
  /\ reader' = [reader EXCEPT ![i][p] = "gone"]
  /\ UNCHANGED <<shell, conn, gopart, output>>

-----------------------------------------------------------------------------
(* The parent tests and the process.                                       *)

(* cmd.Run returns, Runner.Run and the script's test function with it; a   *)
(* non-zero exit of the shell is an error, hence t.Fatal.                  *)
RunError_Dropped == FALSE            \* fault: the error is not looked at
RunError == pc = "aborted"

ScriptReturns ==
  /\ tree = "running"
  /\ pc \in {"exited", "aborted"}
  /\ tree' = "scriptDone"
  /\ failed' = (failed \/ RunError)
  /\ UNCHANGED <<shell, conn, status, sub, closed, pipes>>

ShellTestReturns ==
  /\ tree = "scriptDone"
  /\ tree' = "shellDone"
  /\ UNCHANGED <<shell, conn, status, sub, closed, failed, pipes>>

(* os.Exit(m.Run()): the process' exit code is 1 iff failed, and whatever  *)
(* goroutines are left are gone.                                           *)
ExitProcess ==
  /\ tree = "shellDone"
  /\ tree' = "exited"
  /\ UNCHANGED <<shell, conn, status, sub, closed, failed, pipes>>

-----------------------------------------------------------------------------
ShellNext ==
  \/ SignalStart \/ StartAcked
  \/ OpenOut \/ OpenErr \/ ReopenOut \/ ReopenErr
  \/ \E c \in {0, 1} : \/ SetupOnce(c) \/ Setup(c) \/ FinishBody(c)
                       \/ Teardown(c) \/ TeardownOnce(c)
  \/ \E p \in Pipes : BrokenPipe(p) \/ \E k \in LineKinds : WriteLine(p, k)
  \/ SignalEnd \/ EndAcked

ServerNext == HandleStart \/ HandleEnd \/ PassExitCode

TestNext(i) == RunTest(i) \/ JudgeTest(i) \/ CancelTest(i) \/ FinishTest(i)

ScanNext(i, p) ==
  OpenReader(i, p) \/ ScanLine(i, p) \/ ScanEOF(i, p) \/ CollectReader(i, p)

TreeNext == ScriptReturns \/ ShellTestReturns \/ ExitProcess

(* The process has ended: nothing is left to do. *)
Ended == ~Alive /\ UNCHANGED vars

Progress ==
  \/ ShellNext
  \/ ServerNext
  \/ \E i \in Tests : TestNext(i) \/ \E p \in Pipes : ScanNext(i, p)
  \/ TreeNext

Next == Progress \/ Ended

Spec == Init /\ [][Next]_vars

(* The system as a whole does not stop while one of its parties can take a *)
(* step: runnable goroutines and processes are scheduled, a gt_* function  *)
(* returns, and the runtime collects garbage at least every two minutes.   *)
Fairness == WF_vars(Progress)

FairSpec == Spec /\ Fairness
-----------------------------------------------------------------------------
(* Properties.                                                             *)

(* Every variable of the shell, the Go process and the pipes keeps its     *)
(* type.                                                                   *)
ShellTypeOK ==
  /\ errexit \in BOOLEAN
  /\ pc \in PCs
  /\ cur \in Tests
  /\ code \in [Tests -> {0, 1}]
  /\ fnOk \in [Tests -> BOOLEAN]
  /\ tornDown \in [Tests -> BOOLEAN]
  /\ conn \in ConnStates

GoTypeOK ==
  /\ status \in [Tests -> Statuses]
  /\ sub \in [Tests -> SubStates]
  /\ closed \in [Tests -> BOOLEAN]
  /\ tree \in TreeStates
  /\ failed \in BOOLEAN

ReaderTypeOK == reader \in [Tests -> [Pipes -> ReaderStates]]

OutputTypeOK ==
  /\ lines \in 0 .. MaxLines
  /\ fifo \in [Tests -> [Pipes -> Seq(LineKinds)]]
  /\ owed \in [Tests -> [Pipes -> Nat]]

TypeOK == ShellTypeOK /\ GoTypeOK /\ ReaderTypeOK /\ OutputTypeOK

(* TestFn.End never takes its error return and its unbuffered send always  *)
(* has a receiver to come: "end" is handled only while the goroutine of    *)
(* that test sits in its select.  Nothing but the FIFO rendezvous orders   *)
(* the two, and an End that failed would be acknowledged all the same.     *)
EndIsHeard ==
  conn \in {"end", "ending"} => status[cur] = "Running" /\ sub[cur] = "waiting"

(* A subtest has its exit code before the next one is even spawned, though *)
(* its verdict may come later: two selects are never waiting at once.      *)
OneTestWaits ==
  \A i \in Tests : sub[i] # "none" =>
    \A j \in 1 .. i - 1 : sub[j] \in {"received", "judged", "done"}

(* A test is marked passed only if gt_i and both hooks exited 0, and, as   *)
(* long as its context lives, failed only if one of them did not.          *)
VerdictEarned ==
  \A i \in Tests :
    /\ status[i] = "Passed" => code[i] = 0 /\ fnOk[i] /\ tornDown[i]
    /\ status[i] = "Failed" => code[i] = 1

(* The cleanup never removes the FIFOs before the subshell is through with *)
(* them (its redirections would create plain files), and Pipe.Open never   *)
(* finds its pipe closed.                                                  *)
PipesOutliveTest ==
  \A i \in Tests :
    /\ closed[i] =>
         i < cur \/ pc \notin {"start", "startAck", "openOut", "openErr"}
                              \cup Redirected
    /\ \A p \in Pipes : reader[i][p] # "refused"

(* A scanner that ends at end of file has printed every line, those of the *)
(* hooks too: the FIFO does not report end of file between the test and    *)
(* its teardown hook, which would then write to nobody.                    *)
EOFMeansAllPrinted ==
  \A i \in Tests, p \in Pipes :
    reader[i][p] = "eof" => owed[i][p] = 0

(* What a test and its hooks write is printed: its FIFOs outlive them, and *)
(* no scanner takes a gap between two writers for the end.                 *)
OutputKept == PipesOutliveTest /\ EOFMeansAllPrinted

(* A process that exits 0 has run every test and handed over every exit    *)
(* code; a failing one can hide only between the receive and its Errorf.   *)
GreenIsComplete ==
  tree = "exited" /\ ~failed =>
    \A i \in Tests : /\ sub[i] \in {"received", "judged", "done"}
                     /\ code[i] = 1 => sub[i] = "received"

(* The process ends red, or panics, only because a test failed or because  *)
(* the user's errexit ended the script.                                    *)
RedIsEarned ==
  failed \/ tree = "panicked" => pc = "aborted" \/ \E i \in Tests : code[i] = 1

(* The exit code is earned: red has its reason, and green has seen all.    *)
ExitEarned == GreenIsComplete /\ RedIsEarned

(* The state of the abstract SerialTests. *)
PhaseOf(i) ==
  IF i < cur \/ (i = cur /\ pc \in {"end", "endAck", "teardownOnce",
                                    "exited"})
     \/ (i = cur /\ pc = "aborted" /\ sub[i] # "none")
  THEN "ended"
  ELSE IF i = cur /\ pc \in Redirected THEN "running"
  ELSE "waiting"
CodeOf(i) == IF PhaseOf(i) = "ended" THEN code[i] ELSE 0
VerdictOf(i) == CASE status[i] = "Passed" -> "pass"
                  [] status[i] = "Failed" -> "fail"
                  [] OTHER -> "none"

Serial == INSTANCE SerialTests WITH
  phase <- [i \in Tests |-> PhaseOf(i)],
  code <- [i \in Tests |-> CodeOf(i)],
  verdict <- [i \in Tests |-> VerdictOf(i)]

(* gosh implements SerialTests: tests run one at a time, in order, each    *)
(* with at most one verdict, the one its exit code earned.                 *)
RunsSerially == Serial!Spec

(* Unless a line overran a scanner's buffer, gosh terminates. *)
Overran == \E i \in Tests, p \in Pipes : reader[i][p] \in {"broken", "gone"}
Terminates == <>(~Alive \/ Overran)

(* README.md: "tests FAIL and exit the script with a non-zero exit code":  *)
(* a process that exits 0 has no failed test.  The code does not join the  *)
(* subtests, so the last verdict may come too late.                        *)
FailureReachesExit ==
  tree = "exited" /\ (\E i \in Tests : code[i] = 1) => failed
=============================================================================
