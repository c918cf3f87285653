------------------------------- MODULE Ptrace -------------------------------
(***************************************************************************)
(* tw ptrace runs a command under ptrace(2) and reports the system calls   *)
(* and files its processes used.  The parties are:                         *)
(*   - the trace goroutine: one loop that resumes the process it handled   *)
(*     last, waits in wait4(-1) for any tracee and handles its stop;       *)
(*   - processEvents, which takes events off a bounded channel and counts; *)
(*   - Run, which reads the counts as soon as the trace is done;           *)
(*   - the canceller of Run and forwardSignals, which share a channel of   *)
(*     one signal, and the goroutine of os/exec that kills the command     *)
(*     when the context is cancelled;                                      *)
(*   - the tracees, which the kernel stops at entry and exit of every      *)
(*     call, at fork, exec and exit, and on signals.                       *)
(* Kernel, os/exec and os/signal are external: modelled by what the code   *)
(* relies on and by the orders ptrace(2) allows.  A fork's child may be    *)
(* seen stopped before its parent's fork event; SIGKILL may hit a tracee   *)
(* at any time, in a stop too.                                             *)
(***************************************************************************)
EXTENDS Integers, FiniteSets

CONSTANTS
  NProcs,       \* processes of the command; process 1 is the command itself
  QueueCap,     \* capacity of eventCh
  MaxCalls,     \* bound: calls other than exit, in the whole run
  MaxKills,     \* bound: tracees killed by a third party
  MaxSignals    \* bound: signals sent to tw

ASSUME PtraceAssumption ==
  /\ NProcs \in Nat \ {0}
  /\ QueueCap \in Nat \ {0}
  /\ MaxCalls \in Nat
  /\ MaxKills \in Nat
  /\ MaxSignals \in Nat

Procs == 1 .. NProcs
main == 1
None == 0
Failure == 2     \* exit code 1 together with an error

Stops ==
  {"birth", "group", "entry", "exit", "fork", "exec", "signal", "exiting"}
States ==
  {"unborn", "run", "call", "forked", "dying", "stopped", "zombie", "gone"}
Statuses == {-1, 0, 1}
CallKinds == {"plain", "exec", "fork", "exit"}

VARIABLES
  (* the kernel's side of each tracee *)
  kst,        \* "unborn", "run", "call", "forked" (the child runs, the event
              \* is still to come), "dying", "stopped", "zombie" or "gone"
  why,        \* why[p]: the kind of p's last stop
  unseen,     \* unseen[p]: a stop or death of p not yet returned by wait4
  kind,       \* kind[p]: the call p is in
  child,      \* child[p]: the last process p forked
  status,     \* status[p]: exit status, -1 if p was killed
  pending,    \* a forwarded signal is pending for the command
  calls, kills, signals,   \* counters for the bounds
  returns,    \* calls that returned and execs that succeeded (history)
  (* the trace goroutine *)
  tpc,        \* "launch", "attach", "top", "wait", "handle" or "done"
  callPid,    \* callPid, None while doSyscall is FALSE
  wpid, wst,  \* the last result of wait4
  known,      \* known[p]: p is a key of pidSyscallMap
  expect,     \* expect[p]: its expectReturn
  mainKids,   \* the command's list of children is not empty
  result,     \* exit code sent to Wait
  overtaken,  \* overtaken[p]: p's record was replaced within a call (history)
  (* events, report and signals *)
  queue,      \* number of events in eventCh
  dropped,    \* an event found eventCh full (history)
  counted,    \* number of events counted in syscallStats
  processor,  \* processEvents has not returned
  report,     \* the total Wait read, -1 before
  sigQueued,  \* signalCh holds a signal
  canceller,  \* the signal goroutine of Run has not returned
  cancelled,  \* the context is cancelled
  panicked    \* forwardSignals used t.cmd before it was set

kernel == <<kst, why, unseen, kind, child, status, pending>>
bounds == <<calls, kills, signals>>
loop == <<callPid, wpid, wst>>
records == <<known, expect, mainKids, overtaken>>
tracer == <<tpc, loop, records, result>>
events == <<queue, dropped>>
reading == <<counted, processor, report>>
sigs == <<sigQueued, canceller, cancelled, panicked>>
vars == <<kernel, bounds, returns, tracer, events, reading, sigs>>

Alive(p) == kst[p] \notin {"unborn", "zombie", "gone"}

Init ==
  /\ kst = [p \in Procs |-> "unborn"]
  /\ why = [p \in Procs |-> "birth"]
  /\ unseen = [p \in Procs |-> FALSE]
  /\ kind = [p \in Procs |-> "plain"]
  /\ child = [p \in Procs |-> None]
  /\ status = [p \in Procs |-> 0]
  /\ pending = FALSE
  /\ calls = 0 /\ kills = 0 /\ signals = 0
  /\ returns = 0
  /\ tpc = "launch"
  /\ callPid = None /\ wpid = main /\ wst = "dead"
  /\ known = [p \in Procs |-> FALSE]
  /\ expect = [p \in Procs |-> FALSE]
  /\ mainKids = FALSE
  /\ result = 0
  /\ overtaken = [p \in Procs |-> FALSE]
  /\ queue = 0 /\ dropped = FALSE
  /\ counted = 0 /\ processor = TRUE /\ report = -1
  /\ sigQueued = FALSE /\ canceller = TRUE
  /\ cancelled = FALSE /\ panicked = FALSE

-----------------------------------------------------------------------------
(* The kernel: what a tracee does between two resumes.                     *)

Stop(p, w) ==
  /\ kst' = [kst EXCEPT ![p] = "stopped"]
  /\ why' = [why EXCEPT ![p] = w]
  /\ unseen' = [unseen EXCEPT ![p] = TRUE]

(* A running tracee enters a call and stops. *)
Enter(p, k) ==
  /\ kst[p] = "run"
  /\ k # "exit" => calls < MaxCalls
  /\ calls' = IF k # "exit" THEN calls + 1 ELSE calls
  /\ kind' = [kind EXCEPT ![p] = k]
  /\ Stop(p, "entry")
  /\ UNCHANGED <<child, status, pending, kills, signals, returns, tracer,
                 events, reading, sigs>>

(* The call returns, a failed exec or fork too. *)
FinishCall(p) ==
  /\ kst[p] = "call"
  /\ Stop(p, "exit")
  /\ returns' = returns + 1
  /\ UNCHANGED <<kind, child, status, pending, bounds, tracer, events, reading,
                 sigs>>

(* fork, in two steps: the child starts with a SIGSTOP, then the parent    *)
(* stops with the event.                                                   *)
Fork(p, q) ==
  /\ kst[p] = "call"
  /\ kind[p] = "fork"
  /\ kst[q] = "unborn"
  /\ kst' = [kst EXCEPT ![p] = "forked", ![q] = "stopped"]
  /\ why' = [why EXCEPT ![q] = "birth"]
  /\ unseen' = [unseen EXCEPT ![q] = TRUE]
  /\ child' = [child EXCEPT ![p] = q]
  /\ UNCHANGED <<kind, status, pending, bounds, returns, tracer, events,
                 reading, sigs>>

ForkEvent(p) ==
  /\ kst[p] = "forked"
  /\ Stop(p, "fork")
  /\ kind' = [kind EXCEPT ![p] = "plain"]
  /\ UNCHANGED <<child, status, pending, bounds, returns, tracer, events,
                 reading, sigs>>

ExecEvent(p) ==
  /\ kst[p] = "call"
  /\ kind[p] = "exec"
  /\ Stop(p, "exec")
  /\ kind' = [kind EXCEPT ![p] = "plain"]
  /\ returns' = returns + 1
  /\ UNCHANGED <<child, status, pending, bounds, tracer, events, reading, sigs>>

ExitEvent(p, c) ==
  /\ kst[p] = "dying"
  /\ Stop(p, "exiting")
  /\ status' = [status EXCEPT ![p] = c]
  /\ UNCHANGED <<kind, child, pending, bounds, returns, tracer, events, reading,
                 sigs>>

(* The forwarded signal stops the command on its way to user mode. *)
SignalStop ==
  /\ pending
  /\ kst[main] = "run"
  /\ Stop(main, "signal")
  /\ pending' = FALSE
  /\ UNCHANGED <<kind, child, status, bounds, returns, tracer, events, reading,
                 sigs>>

Die(p) ==
  /\ Alive(p)
  /\ kst' = [kst EXCEPT ![p] = "zombie"]
  /\ unseen' = [unseen EXCEPT ![p] = TRUE]
  /\ status' = [status EXCEPT ![p] =
                   IF kst[p] = "stopped" /\ why[p] = "exiting" THEN @ ELSE -1]
  /\ UNCHANGED <<why, kind, child, pending, calls, signals, returns, tracer,
                 events, reading, sigs>>

(* SIGKILL from a third party. *)
Kill(p) ==
  /\ kills < MaxKills
  /\ kills' = kills + 1
  /\ Die(p)

(* os/exec kills the command once the context is cancelled. *)
CancelKills ==
  /\ cancelled
  /\ Die(main)
  /\ UNCHANGED kills

(* What PTRACE_SYSCALL makes of a stop.  An injected SIGSTOP puts a newborn *)
(* into a group-stop; another signal may be fatal.                         *)
AfterStop(p) ==
  CASE why[p] = "birth" -> {"stopped"}
    [] why[p] = "entry" -> {IF kind[p] = "exit" THEN "dying" ELSE "call"}
    [] why[p] \in {"fork", "exec"} -> {"call"}
    [] why[p] \in {"exit", "group"} -> {"run"}
    [] why[p] = "signal" -> {"run", "dying"}
    [] why[p] = "exiting" -> {"zombie"}

Resume(p) ==
  /\ \E s \in AfterStop(p) :
       /\ kst' = [kst EXCEPT ![p] = s]
       /\ why' = [why EXCEPT ![p] = IF s = "stopped" THEN "group" ELSE @]
       /\ unseen' = [unseen EXCEPT ![p] = s \in {"stopped", "zombie"}]
  /\ UNCHANGED <<kind, child, status, pending>>

-----------------------------------------------------------------------------
(* The trace goroutine.                                                    *)

Return(c) ==
  /\ tpc' = "done"
  /\ result' = c

(* cmd.Start, which fails at once under a cancelled context. *)
Launch ==
  /\ tpc = "launch"
  /\ IF cancelled
     THEN Return(Failure) /\ UNCHANGED kernel
     ELSE /\ tpc' = "attach"
          /\ Stop(main, "group")   \* the SIGTRAP after its first exec
          /\ UNCHANGED <<result, kind, child, status, pending>>
  /\ UNCHANGED <<bounds, returns, loop, records, events, reading, sigs>>

(* The rest of trace: the context check, the first wait4, getpgid and the  *)
(* options.  A command killed by now fails getpgid.                        *)
Attach ==
  /\ tpc = "attach"
  /\ unseen' = [unseen EXCEPT ![main] = FALSE]
  /\ IF kst[main] = "zombie"
     THEN /\ Return(Failure)
          /\ kst' = [kst EXCEPT ![main] = "gone"]
          /\ UNCHANGED <<known, callPid>>
     ELSE /\ tpc' = "top"
          /\ callPid' = main
          /\ known' = [known EXCEPT ![main] = TRUE]
          /\ UNCHANGED <<result, kst>>
  /\ UNCHANGED <<why, kind, child, status, pending, bounds, returns, wpid, wst,
                 expect, mainKids, overtaken, events, reading, sigs>>

AttachCancelled ==
  /\ tpc = "attach"
  /\ cancelled
  /\ Return(Failure)
  /\ UNCHANGED <<kernel, bounds, returns, loop, records, events, reading, sigs>>

Forget(p) ==
  /\ known' = [known EXCEPT ![p] = FALSE]
  /\ expect' = [expect EXCEPT ![p] = FALSE]

(* The head of the loop: the context check, then PTRACE_SYSCALL for the    *)
(* process handled last.  One that is gone is forgotten.                   *)
Top ==
  /\ tpc = "top"
  /\ ~cancelled
  /\ IF callPid = None
     THEN tpc' = "wait" /\ UNCHANGED <<kernel, callPid, known, expect>>
     ELSE IF Alive(callPid)
     THEN /\ tpc' = "wait"
          /\ Resume(callPid)
          /\ UNCHANGED <<callPid, known, expect>>
     ELSE Forget(callPid) /\ callPid' = None /\ UNCHANGED <<tpc, kernel>>
  /\ UNCHANGED <<bounds, returns, wpid, wst, mainKids, overtaken, result,
                 events, reading, sigs>>

TopCancelled ==
  /\ tpc = "top"
  /\ cancelled
  /\ Return(0)
  /\ UNCHANGED <<kernel, bounds, returns, loop, records, events, reading, sigs>>

(* wait4(-1) returns any stop or death not yet reported. *)
Wait4(p) ==
  /\ tpc = "wait"
  /\ unseen[p]
  /\ wpid' = p
  /\ wst' = IF kst[p] = "zombie" THEN "dead" ELSE why[p]
  /\ unseen' = [unseen EXCEPT ![p] = FALSE]
  /\ kst' = [kst EXCEPT ![p] = IF @ = "zombie" THEN "gone" ELSE @]
  /\ tpc' = "handle"
  /\ UNCHANGED <<why, kind, child, status, pending, bounds, returns, callPid,
                 records, result, events, reading, sigs>>

(* ECHILD: no tracee is left, whatever the map says. *)
EmptyMap_Kept == UNCHANGED <<tpc, known, result>>      \* fault: loops for ever
EmptyMap == Return(0) /\ known' = [p \in Procs |-> FALSE]

NoChild ==
  /\ tpc = "wait"
  /\ \A p \in Procs : kst[p] \in {"unborn", "gone"}
  /\ IF \E p \in Procs : known[p] THEN EmptyMap
     ELSE Return(0) /\ UNCHANGED known
  /\ UNCHANGED <<kernel, bounds, returns, loop, expect, mainKids, overtaken,
                 events, reading, sigs>>

(* Back to the head of the loop, with wpid to be resumed or with nobody. *)
Again(p) ==
  /\ tpc' = "top"
  /\ callPid' = p
  /\ UNCHANGED result

(* An exit or a death by signal. *)
LastOne_Main == wpid = main          \* fault: the children are not waited for
LastOne_Any == \A p \in Procs \ {wpid} : ~known[p]      \* fault: any process
LastOne == wpid = main /\ \A p \in Procs \ {wpid} : ~known[p]

HandleDead ==
  /\ tpc = "handle"
  /\ wst = "dead"
  /\ Forget(wpid)
  /\ IF LastOne THEN Return(status[wpid]) /\ UNCHANGED callPid
     ELSE Again(None)
  /\ UNCHANGED <<kernel, bounds, returns, wpid, wst, mainKids, overtaken,
                 events, reading, sigs>>

(* The select that sends an event: a full channel drops it, and under a    *)
(* cancelled context the trace may end instead.                            *)
Room_OffByOne == queue <= QueueCap    \* fault: one event too many
Room == queue < QueueCap

Send ==
  \/ /\ Room
     /\ queue' = queue + 1
     /\ Again(wpid)
     /\ UNCHANGED dropped
  \/ /\ ~Room /\ ~cancelled
     /\ dropped' = TRUE
     /\ Again(wpid)
     /\ UNCHANGED queue
  \/ /\ cancelled
     /\ Return(0)
     /\ UNCHANGED <<queue, dropped, callPid>>

SendNothing == Again(wpid) /\ UNCHANGED <<queue, dropped>>

(* A syscall-stop is an entry or an exit by the toggle of its record; an   *)
(* unknown process gets a record.  One that was killed is forgotten.       *)
Toggle == ~expect[wpid]
Returned == expect[wpid]

HandleSyscall ==
  /\ tpc = "handle"
  /\ wst \in {"entry", "exit"}
  /\ IF Alive(wpid)
     THEN /\ known' = [known EXCEPT ![wpid] = TRUE]
          /\ expect' = [expect EXCEPT ![wpid] = Toggle]
          /\ IF Returned THEN Send ELSE SendNothing
     ELSE Forget(wpid) /\ SendNothing
  /\ UNCHANGED <<kernel, bounds, returns, wpid, wst, mainKids, overtaken,
                 reading, sigs>>

(* PTRACE_EVENT_CLONE, FORK or VFORK: a new record for the child, whatever *)
(* record it has, and an entry in the parent's list.                       *)
HandleFork ==
  /\ tpc = "handle"
  /\ wst = "fork"
  /\ IF Alive(wpid)
     THEN LET q == child[wpid] IN
          /\ known' = [known EXCEPT ![q] = TRUE]
          /\ expect' = [expect EXCEPT ![q] = FALSE]
          /\ overtaken' = [overtaken EXCEPT ![q] = known[q] /\ expect[q]]
          /\ mainKids' = (mainKids \/ (wpid = main /\ known[main]))
     ELSE UNCHANGED records
  /\ Again(wpid)
  /\ UNCHANGED <<kernel, bounds, returns, wpid, wst, events, reading, sigs>>

(* PTRACE_EVENT_EXEC: an event if the entry of the exec was handled as one *)
(* (only then does the record hold a path).                                *)
HandleExec ==
  /\ tpc = "handle"
  /\ wst = "exec"
  /\ IF Alive(wpid) /\ known[wpid] /\ expect[wpid]
     THEN Send
     ELSE SendNothing
  /\ UNCHANGED <<kernel, bounds, returns, wpid, wst, records, reading, sigs>>

(* PTRACE_EVENT_EXIT: a command that never forked ends the trace.  A stop  *)
(* is no exit, so its status is never at hand and the code is 0.           *)
Childless_Never == TRUE              \* fault: the children are forgotten
Childless == ~mainKids

HandleExiting ==
  /\ tpc = "handle"
  /\ wst = "exiting"
  /\ IF known[wpid] /\ wpid = main /\ Childless
     THEN Return(0) /\ UNCHANGED callPid
     ELSE Again(wpid)
  /\ UNCHANGED <<kernel, bounds, returns, wpid, wst, records, events, reading,
                 sigs>>

(* Any other stop: its signal is injected on the next resume. *)
NextPid_Nobody == None                \* fault: the process is not resumed
NextPid == wpid

HandleSignal ==
  /\ tpc = "handle"
  /\ wst \in {"birth", "group", "signal"}
  /\ Again(NextPid)
  /\ UNCHANGED <<kernel, bounds, returns, wpid, wst, records, events, reading,
                 sigs>>

-----------------------------------------------------------------------------
(* The events and the report.                                              *)

ProcessEvent ==
  /\ processor
  /\ queue > 0
  /\ queue' = queue - 1
  /\ counted' = counted + 1
  /\ UNCHANGED <<kernel, bounds, returns, tracer, dropped, processor, report,
                 sigs>>

(* done or the cancellation ends processEvents, with events left or not. *)
ProcessorReturns ==
  /\ processor
  /\ tpc = "done" \/ cancelled
  /\ processor' = FALSE
  /\ UNCHANGED <<kernel, bounds, returns, tracer, events, counted, report,
                 sigs>>

(* Tracer.Wait reads the counts once done is closed. *)
Wait ==
  /\ tpc = "done"
  /\ report = -1
  /\ report' = counted
  /\ UNCHANGED <<kernel, bounds, returns, tracer, events, counted, processor,
                 sigs>>

-----------------------------------------------------------------------------
(* Signals to tw.                                                          *)

(* signal.Notify drops a signal when the channel is full. *)
Signal ==
  /\ signals < MaxSignals
  /\ signals' = signals + 1
  /\ sigQueued' = TRUE
  /\ UNCHANGED <<kernel, calls, kills, returns, tracer, events, reading,
                 canceller, cancelled, panicked>>

(* The signal goroutine of Run takes one signal in its life. *)
Cancel ==
  /\ canceller /\ sigQueued
  /\ sigQueued' = FALSE
  /\ canceller' = FALSE
  /\ cancelled' = TRUE
  /\ UNCHANGED <<kernel, bounds, returns, tracer, events, reading, panicked>>

(* forwardSignals takes the others, until it notices the cancellation. *)
Forward ==
  /\ sigQueued
  /\ sigQueued' = FALSE
  /\ IF tpc = "launch"
     THEN panicked' = TRUE /\ UNCHANGED pending
     ELSE pending' = Alive(main) /\ UNCHANGED panicked
  /\ UNCHANGED <<kst, why, unseen, kind, child, status, bounds, returns, tracer,
                 events, reading, canceller, cancelled>>

-----------------------------------------------------------------------------
TraceeNext(p) ==
  \/ \E k \in CallKinds : Enter(p, k)
  \/ FinishCall(p) \/ ForkEvent(p) \/ ExecEvent(p)
  \/ \E q \in Procs : Fork(p, q)
  \/ \E c \in {0, 1} : ExitEvent(p, c)

TracerNext ==
  \/ Launch \/ Attach \/ AttachCancelled \/ Top \/ TopCancelled \/ NoChild
  \/ \E p \in Procs : Wait4(p)
  \/ HandleDead \/ HandleSyscall \/ HandleFork \/ HandleExec \/ HandleExiting
  \/ HandleSignal

EventNext == ProcessEvent \/ ProcessorReturns \/ Wait

SignalNext == Signal \/ Cancel \/ Forward \/ CancelKills \/ SignalStop

(* The process ends with the report or the panic. *)
Running == report = -1 /\ ~panicked

Next ==
  \/ /\ Running
     /\ \/ \E p \in Procs : tpc # "done" /\ (TraceeNext(p) \/ Kill(p))
        \/ TracerNext \/ EventNext \/ SignalNext
  \/ ~Running /\ UNCHANGED vars

Spec == Init /\ [][Next]_vars

(* tw's own goroutines, the kill of os/exec and what the kernel has begun   *)
(* go on while they can.                                                   *)
KernelNext(p) == ForkEvent(p) \/ \E c \in {0, 1} : ExitEvent(p, c)

FairSpec ==
  /\ Spec
  /\ WF_vars(Running /\ TracerNext)
  /\ WF_vars(Running /\ Wait)
  /\ WF_vars(Running /\ CancelKills)
  /\ \A p \in Procs : WF_vars(Running /\ tpc # "done" /\ KernelNext(p))

(* So do the tracees: no call blocks for good and each process exits.      *)
FairRun ==
  /\ FairSpec
  /\ \A p \in Procs : WF_vars(Running /\ tpc # "done" /\ TraceeNext(p))
-----------------------------------------------------------------------------
(* Properties.                                                             *)

(* Every variable keeps its type; the channel never exceeds its capacity.  *)
KernelTypeOK ==
  /\ kst \in [Procs -> States]
  /\ why \in [Procs -> Stops]
  /\ unseen \in [Procs -> BOOLEAN]
  /\ kind \in [Procs -> CallKinds]
  /\ child \in [Procs -> Procs \cup {None}]
  /\ status \in [Procs -> Statuses]
  /\ pending \in BOOLEAN

BoundTypeOK ==
  /\ calls \in 0 .. MaxCalls
  /\ kills \in 0 .. MaxKills
  /\ signals \in 0 .. MaxSignals
  /\ returns \in Nat

TracerTypeOK ==
  /\ tpc \in {"launch", "attach", "top", "wait", "handle", "done"}
  /\ callPid \in Procs \cup {None}
  /\ wpid \in Procs
  /\ wst \in Stops \cup {"dead"}
  /\ known \in [Procs -> BOOLEAN]
  /\ expect \in [Procs -> BOOLEAN]
  /\ mainKids \in BOOLEAN
  /\ overtaken \in [Procs -> BOOLEAN]
  /\ result \in Statuses \cup {Failure}

EventTypeOK ==
  /\ queue \in 0 .. QueueCap
  /\ dropped \in BOOLEAN
  /\ counted \in Nat
  /\ processor \in BOOLEAN
  /\ report \in Nat \cup {-1}
  /\ sigQueued \in BOOLEAN
  /\ canceller \in BOOLEAN
  /\ cancelled \in BOOLEAN
  /\ panicked \in BOOLEAN

TypeOK == KernelTypeOK /\ BoundTypeOK /\ TracerTypeOK /\ EventTypeOK

(* While the loop blocks in wait4, every stopped tracee has a stop it has  *)
(* not been told of: no process is handled and then never resumed, which   *)
(* would stop it and everybody who waits for it.                           *)
NobodyFrozen ==
  tpc = "wait" => \A p \in Procs : kst[p] = "stopped" => unseen[p]

(* The loop's toggle agrees with the kernel: it expects a return of p iff  *)
(* p is between an entry the loop saw and an exit it did not see.  Only a  *)
(* record replaced in the middle of a call is out of step.                 *)
InCall(p) ==
  \/ kst[p] \in {"call", "forked"}
  \/ /\ kst[p] = "stopped"
     /\ \/ why[p] \in {"fork", "exec"}
        \/ why[p] = "entry" /\ ~unseen[p]
        \/ why[p] = "exit" /\ unseen[p]

Leaving(p) == kst[p] = "dying" \/ (kst[p] = "stopped" /\ why[p] = "exiting")

Paired ==
  tpc \in {"top", "wait"} =>
    \A p \in Procs :
      Alive(p) /\ ~Leaving(p) /\ known[p] /\ ~overtaken[p] =>
        (expect[p] <=> InCall(p))

(* Every event stands for a call that returned or an exec that succeeded,  *)
(* whatever got out of step.                                               *)
NothingInvented == counted + queue <= returns

(* Every call of every process that returned has its event when the trace  *)
(* ends by itself, unless the channel was full, a process was killed or a  *)
(* record was replaced.                                                    *)
NothingLost ==
  /\ tpc = "done" /\ ~cancelled /\ kills = 0
  /\ ~dropped
  /\ \A p \in Procs : ~overtaken[p]
  => counted + queue = returns

(* The events are the calls: each return is paired with its entry, and     *)
(* there is neither an event too many nor, as far as that goes, too few.   *)
EventsAccounted == Paired /\ NothingInvented /\ NothingLost

(* An exit code other than 0 is the command's, not that of whoever died    *)
(* last.                                                                   *)
ExitCodeHonest ==
  tpc = "done" /\ ~cancelled /\ result \notin {0, Failure} =>
    kst[main] = "gone" /\ result = status[main]

(* The trace ends by itself only when all processes but the exiting        *)
(* command are finished (tracer.go: "If main process terminated, we're     *)
(* done when all children are finished"), SIGKILL apart: a parent killed   *)
(* before its fork event leaves a child the loop never heard of.           *)
DoneMeansFinished ==
  tpc = "done" /\ ~cancelled /\ kills = 0 =>
    \A p \in Procs : Alive(p) => p = main /\ why[p] = "exiting"

(* Every run ends with a report, records of dead processes or not.         *)
Terminates == <>(~Running)

(* tracer.go: TraceReport.ExitCode is the "Exit code of the traced         *)
(* process".  A command that never forked is reported with 0.              *)
ExitCodeReported ==
  tpc = "done" /\ ~cancelled /\ result # Failure => result = status[main]
=============================================================================
