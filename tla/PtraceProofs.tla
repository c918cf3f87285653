---------------------------- MODULE PtraceProofs ----------------------------
(***************************************************************************)
(* Type correctness of Ptrace, that its loop leaves no tracee stopped,     *)
(* that it reports nobody else's exit code, that its events are the calls  *)
(* and that the trace ends by itself only when all processes are finished, *)
(* for any number of processes, calls, kills and signals and any capacity  *)
(* of the event channel.                                                   *)
(***************************************************************************)
EXTENDS Ptrace, FiniteSetTheorems, TLAPS

(* A stopped tracee has a stop to be reported or is the one in hand: the   *)
(* process just reported, or the one to be resumed next.                   *)
InHand(p) ==
  \/ tpc = "attach" /\ p = main
  \/ tpc = "top" /\ p = callPid
  \/ tpc = "handle" /\ p = wpid

StopInv ==
  tpc # "done" => \A p \in Procs : kst[p] = "stopped" => unseen[p] \/ InHand(p)

(* Before the launch there is no process, and a reported death is final. *)
DeathInv ==
  /\ tpc = "launch" => \A p \in Procs : kst[p] = "unborn"
  /\ tpc = "handle" /\ wst = "dead" => kst[wpid] = "gone"

IInv == TypeOK /\ StopInv /\ DeathInv /\ ExitCodeHonest

USE DEF kernel, bounds, loop, records, tracer, events, reading, sigs, vars,
        main, None, Failure, States, Statuses, Stops, CallKinds

LEMMA MainIsProc == main \in Procs /\ None \notin Procs
  BY PtraceAssumption DEF Procs

LEMMA InitIInv == Init => IInv
<1> SUFFICES ASSUME Init PROVE IInv
  OBVIOUS
<1> USE MainIsProc DEF Init
<1>1. KernelTypeOK
  BY DEF KernelTypeOK
<1>2. BoundTypeOK
  BY PtraceAssumption DEF BoundTypeOK
<1>3. TracerTypeOK
  BY DEF TracerTypeOK
<1>4. EventTypeOK
  <2>1. 0 \in 0 .. QueueCap /\ 0 \in Nat /\ -1 \in Nat \cup {-1}
    BY PtraceAssumption
  <2>2. queue = 0 /\ counted = 0 /\ report = -1
    OBVIOUS
  <2>3. /\ dropped = FALSE /\ processor = TRUE /\ sigQueued = FALSE
        /\ canceller = TRUE /\ cancelled = FALSE /\ panicked = FALSE
    OBVIOUS
  <2>4. queue \in 0 .. QueueCap /\ counted \in Nat /\ report \in Nat \cup {-1}
    BY <2>1, <2>2
  <2> QED
    BY <2>3, <2>4 DEF EventTypeOK
<1>5. StopInv /\ DeathInv /\ ExitCodeHonest
  BY DEF StopInv, DeathInv, ExitCodeHonest
<1> QED
  BY <1>1, <1>2, <1>3, <1>4, <1>5 DEF IInv, TypeOK

-----------------------------------------------------------------------------
(* The kernel's steps. *)

LEMMA TraceeStep ==
  ASSUME IInv, NEW p \in Procs, tpc # "done", TraceeNext(p)
  PROVE  IInv'
<1> USE DEF IInv, TypeOK, TraceeNext, Enter, FinishCall, Fork, ForkEvent,
            ExecEvent, ExitEvent, Stop
<1>1. KernelTypeOK'
  <2>1. kst' \in [Procs -> States]
    BY DEF KernelTypeOK
  <2>2. why' \in [Procs -> Stops]
    BY DEF KernelTypeOK
  <2>3. unseen' \in [Procs -> BOOLEAN]
    BY DEF KernelTypeOK
  <2>4. kind' \in [Procs -> CallKinds]
    BY DEF KernelTypeOK
  <2>5. child' \in [Procs -> Procs \cup {None}]
    BY DEF KernelTypeOK
  <2>6. status' \in [Procs -> Statuses]
    BY DEF KernelTypeOK
  <2>7. pending' \in BOOLEAN
    BY DEF KernelTypeOK
  <2> QED
    BY <2>1, <2>2, <2>3, <2>4, <2>5, <2>6, <2>7 DEF KernelTypeOK
<1>2. BoundTypeOK'
  BY PtraceAssumption DEF BoundTypeOK
<1>3. TracerTypeOK' /\ EventTypeOK'
  BY DEF TracerTypeOK, EventTypeOK
<1>4. StopInv'
  BY DEF StopInv, InHand, KernelTypeOK
<1>5. DeathInv'
  <2>1. tpc # "launch"
    BY DEF DeathInv, KernelTypeOK
  <2>2. wpid \in Procs
    BY DEF TracerTypeOK
  <2>3. kst[wpid] = "gone" => kst'[wpid] = "gone"
    BY <2>2 DEF KernelTypeOK
  <2> QED
    BY <2>1, <2>3 DEF DeathInv
<1>6. ExitCodeHonest'
  BY DEF ExitCodeHonest
<1> QED
  BY <1>1, <1>2, <1>3, <1>4, <1>5, <1>6

LEMMA DieStep ==
  ASSUME IInv, NEW p \in Procs, Die(p), kills' \in 0 .. MaxKills,
         tpc # "done" \/ cancelled
  PROVE  IInv'
<1> USE DEF IInv, TypeOK, Die, Alive
<1>1. KernelTypeOK'
  BY DEF KernelTypeOK
<1>2. BoundTypeOK'
  BY DEF BoundTypeOK
<1>3. TracerTypeOK' /\ EventTypeOK'
  BY DEF TracerTypeOK, EventTypeOK
<1>4. StopInv'
  BY DEF StopInv, InHand, KernelTypeOK
<1>5. DeathInv'
  BY DEF DeathInv, KernelTypeOK
<1>6. ExitCodeHonest'
  BY DEF ExitCodeHonest
<1> QED
  BY <1>1, <1>2, <1>3, <1>4, <1>5, <1>6

LEMMA SignalStopStep ==
  ASSUME IInv, SignalStop
  PROVE  IInv'
<1> USE MainIsProc DEF IInv, TypeOK, SignalStop, Stop
<1>1. KernelTypeOK'
  BY DEF KernelTypeOK
<1>2. BoundTypeOK' /\ TracerTypeOK' /\ EventTypeOK'
  BY DEF BoundTypeOK, TracerTypeOK, EventTypeOK
<1>3. StopInv' /\ DeathInv'
  BY DEF StopInv, DeathInv, InHand, KernelTypeOK
<1>4. ExitCodeHonest'
  BY DEF ExitCodeHonest
<1> QED
  BY <1>1, <1>2, <1>3, <1>4

-----------------------------------------------------------------------------
(* The trace goroutine's steps. *)

LEMMA LaunchStep ==
  ASSUME IInv, Launch
  PROVE  IInv'
<1> USE MainIsProc DEF IInv, TypeOK, Launch, Return, Stop
<1>1. KernelTypeOK'
  <2>1. CASE cancelled
    BY <2>1 DEF KernelTypeOK
  <2>2. CASE ~cancelled
    <3>1. kst' \in [Procs -> States] /\ why' \in [Procs -> Stops]
      BY <2>2 DEF KernelTypeOK
    <3>2. unseen' \in [Procs -> BOOLEAN]
      BY <2>2 DEF KernelTypeOK
    <3> QED
      BY <2>2, <3>1, <3>2 DEF KernelTypeOK
  <2> QED
    BY <2>1, <2>2
<1>2. BoundTypeOK' /\ TracerTypeOK' /\ EventTypeOK'
  BY DEF BoundTypeOK, TracerTypeOK, EventTypeOK
<1>3. StopInv' /\ DeathInv'
  BY DEF StopInv, DeathInv, InHand, KernelTypeOK
<1>4. ExitCodeHonest'
  BY DEF ExitCodeHonest
<1> QED
  BY <1>1, <1>2, <1>3, <1>4

LEMMA AttachStep ==
  ASSUME IInv, Attach
  PROVE  IInv'
<1> USE MainIsProc DEF IInv, TypeOK, Attach, Return
<1>1. KernelTypeOK'
  BY DEF KernelTypeOK
<1>2. BoundTypeOK' /\ EventTypeOK'
  BY DEF BoundTypeOK, EventTypeOK
<1>5. TracerTypeOK'
  <2>1. tpc' \in {"top", "done"} /\ result' \in Statuses \cup {Failure}
    BY DEF TracerTypeOK
  <2>2. callPid' \in Procs \cup {None} /\ known' \in [Procs -> BOOLEAN]
    BY DEF TracerTypeOK
  <2> QED
    BY <2>1, <2>2 DEF TracerTypeOK
<1>3. StopInv' /\ DeathInv'
  BY DEF StopInv, DeathInv, InHand, KernelTypeOK
<1>4. ExitCodeHonest'
  BY DEF ExitCodeHonest
<1> QED
  BY <1>1, <1>2, <1>3, <1>4, <1>5

LEMMA EarlyReturnStep ==
  ASSUME IInv, AttachCancelled \/ TopCancelled \/ NoChild
  PROVE  IInv'
<1> USE DEF IInv, TypeOK, AttachCancelled, TopCancelled, NoChild, EmptyMap,
            Return
<1>1. KernelTypeOK' /\ BoundTypeOK' /\ EventTypeOK'
  BY DEF KernelTypeOK, BoundTypeOK, EventTypeOK
<1>2. TracerTypeOK'
  BY DEF TracerTypeOK
<1>3. StopInv' /\ DeathInv' /\ ExitCodeHonest'
  BY DEF StopInv, DeathInv, ExitCodeHonest
<1> QED
  BY <1>1, <1>2, <1>3

(* What a resume may leave behind is a state, and stopped only if unseen. *)
LEMMA Resumed ==
  ASSUME IInv, NEW p \in Procs, Resume(p)
  PROVE  /\ KernelTypeOK'
         /\ kst'[p] = "stopped" => unseen'[p]
         /\ \A q \in Procs : q # p => kst'[q] = kst[q] /\ unseen'[q] = unseen[q]
<1> USE DEF IInv, TypeOK, KernelTypeOK
<1>1. why[p] \in Stops /\ kind[p] \in CallKinds
  OBVIOUS
<1>2. AfterStop(p) \subseteq States
  BY <1>1 DEF AfterStop
<1>3. PICK s \in AfterStop(p) :
        /\ kst' = [kst EXCEPT ![p] = s]
        /\ why' = [why EXCEPT ![p] = IF s = "stopped" THEN "group" ELSE @]
        /\ unseen' = [unseen EXCEPT ![p] = s \in {"stopped", "zombie"}]
  BY DEF Resume
<1>4. kst' \in [Procs -> States] /\ why' \in [Procs -> Stops]
  BY <1>2, <1>3
<1>5. unseen' \in [Procs -> BOOLEAN]
  BY <1>3
<1>6. UNCHANGED <<kind, child, status, pending>>
  BY DEF Resume
<1>7. KernelTypeOK'
  BY <1>4, <1>5, <1>6
<1>8. kst'[p] = "stopped" => unseen'[p]
  BY <1>3
<1>9. \A q \in Procs : q # p => kst'[q] = kst[q] /\ unseen'[q] = unseen[q]
  BY <1>3
<1> QED
  BY <1>7, <1>8, <1>9

LEMMA TopStep ==
  ASSUME IInv, Top
  PROVE  IInv'
<1> USE MainIsProc DEF IInv, TypeOK, Top
<1>1. CASE callPid = None
  BY <1>1 DEF KernelTypeOK, BoundTypeOK, TracerTypeOK, EventTypeOK, StopInv,
              DeathInv, ExitCodeHonest, InHand
<1>2. CASE callPid # None /\ Alive(callPid)
  <2>1. callPid \in Procs /\ Resume(callPid) /\ tpc = "top" /\ tpc' = "wait"
    BY <1>2 DEF TracerTypeOK
  <2>2. KernelTypeOK'
    BY <2>1, Resumed
  <2>3. StopInv'
    BY <2>1, Resumed DEF StopInv, InHand
  <2>4. BoundTypeOK' /\ TracerTypeOK' /\ EventTypeOK'
    BY <1>2 DEF BoundTypeOK, TracerTypeOK, EventTypeOK
  <2>5. DeathInv' /\ ExitCodeHonest'
    BY <2>1 DEF DeathInv, ExitCodeHonest
  <2> QED
    BY <2>2, <2>3, <2>4, <2>5
<1>3. CASE callPid # None /\ ~Alive(callPid)
  <2>1. KernelTypeOK' /\ BoundTypeOK' /\ EventTypeOK'
    BY <1>3 DEF KernelTypeOK, BoundTypeOK, EventTypeOK
  <2>2. TracerTypeOK'
    BY <1>3 DEF TracerTypeOK, Forget
  <2>3. StopInv' /\ DeathInv' /\ ExitCodeHonest'
    BY <1>3 DEF StopInv, DeathInv, ExitCodeHonest, InHand, Alive
  <2> QED
    BY <2>1, <2>2, <2>3
<1> QED
  BY <1>1, <1>2, <1>3

LEMMA Wait4Step ==
  ASSUME IInv, NEW p \in Procs, Wait4(p)
  PROVE  IInv'
<1> USE DEF IInv, TypeOK, Wait4
<1>1. KernelTypeOK'
  BY DEF KernelTypeOK
<1>2. BoundTypeOK' /\ EventTypeOK'
  BY DEF BoundTypeOK, EventTypeOK
<1>3. TracerTypeOK'
  BY DEF TracerTypeOK, KernelTypeOK
<1>4. StopInv' /\ DeathInv'
  BY DEF StopInv, DeathInv, InHand, KernelTypeOK
<1>5. ExitCodeHonest'
  BY DEF ExitCodeHonest
<1> QED
  BY <1>1, <1>2, <1>3, <1>4, <1>5

LEMMA HandleDeadStep ==
  ASSUME IInv, HandleDead
  PROVE  IInv'
<1> USE MainIsProc DEF IInv, TypeOK, HandleDead, Return, Again, Forget, LastOne
<1>1. KernelTypeOK' /\ BoundTypeOK' /\ EventTypeOK'
  BY DEF KernelTypeOK, BoundTypeOK, EventTypeOK
<1>2. TracerTypeOK'
  BY DEF TracerTypeOK, KernelTypeOK
<1>3. StopInv' /\ DeathInv'
  BY DEF StopInv, DeathInv, InHand
<1>4. ExitCodeHonest'
  BY DEF ExitCodeHonest, DeathInv
<1> QED
  BY <1>1, <1>2, <1>3, <1>4

(* The other handlers leave the kernel alone, and the process in hand is   *)
(* the one to be resumed unless the trace ends with code 0.                *)
LEMMA HandleStep ==
  ASSUME IInv,
         \/ HandleSyscall \/ HandleFork \/ HandleExec \/ HandleExiting
         \/ HandleSignal
  PROVE  IInv'
<1> USE DEF IInv, TypeOK
<1>1. /\ tpc = "handle"
      /\ \/ tpc' = "top" /\ callPid' = wpid /\ UNCHANGED result
         \/ tpc' = "done" /\ callPid' = callPid /\ result' = 0
      /\ UNCHANGED <<kernel, bounds, returns, wpid, wst, reading, sigs>>
  BY DEF HandleSyscall, HandleFork, HandleExec, HandleExiting, HandleSignal,
         Send, SendNothing, Again, Return, NextPid
<1>2. KernelTypeOK' /\ BoundTypeOK'
  BY <1>1 DEF KernelTypeOK, BoundTypeOK
<1>3. /\ known' \in [Procs -> BOOLEAN] /\ expect' \in [Procs -> BOOLEAN]
      /\ overtaken' \in [Procs -> BOOLEAN] /\ mainKids' \in BOOLEAN
  BY DEF TracerTypeOK, HandleSyscall, HandleFork, HandleExec, HandleExiting,
         HandleSignal, Forget, Toggle
<1>4. TracerTypeOK'
  BY <1>1, <1>3 DEF TracerTypeOK
<1>5. queue' \in 0 .. QueueCap /\ dropped' \in BOOLEAN
  <2>1. queue' = queue \/ (queue < QueueCap /\ queue' = queue + 1)
    BY DEF HandleSyscall, HandleFork, HandleExec, HandleExiting, HandleSignal,
           Send, SendNothing, Room
  <2>2. dropped' = dropped \/ dropped' = TRUE
    BY DEF HandleSyscall, HandleFork, HandleExec, HandleExiting, HandleSignal,
           Send, SendNothing
  <2>3. queue \in 0 .. QueueCap /\ dropped \in BOOLEAN
    BY DEF EventTypeOK
  <2>4. QueueCap \in Nat
    BY PtraceAssumption
  <2>5. queue' \in 0 .. QueueCap
    BY ONLY <2>1, <2>3, <2>4
  <2>6. dropped' \in BOOLEAN
    BY ONLY <2>2, <2>3
  <2> QED
    BY <2>5, <2>6
<1>6. EventTypeOK'
  BY <1>1, <1>5 DEF EventTypeOK
<1>7. StopInv' /\ DeathInv' /\ ExitCodeHonest'
  BY <1>1 DEF StopInv, DeathInv, ExitCodeHonest, InHand
<1> QED
  BY <1>2, <1>4, <1>6, <1>7

-----------------------------------------------------------------------------
(* Events, report and signals. *)

LEMMA EventStep ==
  ASSUME IInv, EventNext
  PROVE  IInv'
<1> USE DEF IInv, TypeOK, EventNext, ProcessEvent, ProcessorReturns, Wait
<1>1. EventTypeOK'
  <2>1. queue \in 0 .. QueueCap /\ counted \in Nat /\ report \in Nat \cup {-1}
    BY DEF EventTypeOK
  <2>2. queue' \in 0 .. QueueCap
    BY <2>1, PtraceAssumption
  <2>3. counted' \in Nat /\ report' \in Nat \cup {-1}
    BY <2>1
  <2>4. processor' \in BOOLEAN
    BY DEF EventTypeOK
  <2> QED
    BY <2>2, <2>3, <2>4 DEF EventTypeOK
<1>2. KernelTypeOK' /\ BoundTypeOK' /\ TracerTypeOK'
  BY DEF KernelTypeOK, BoundTypeOK, TracerTypeOK
<1>3. StopInv' /\ DeathInv' /\ ExitCodeHonest'
  BY DEF StopInv, DeathInv, ExitCodeHonest, InHand
<1> QED
  BY <1>1, <1>2, <1>3

LEMMA SignalStep ==
  ASSUME IInv, Signal \/ Cancel \/ Forward
  PROVE  IInv'
<1> USE DEF IInv, TypeOK, Signal, Cancel, Forward
<1>1. EventTypeOK'
  BY DEF EventTypeOK
<1>2. BoundTypeOK'
  BY PtraceAssumption DEF BoundTypeOK
<1>3. KernelTypeOK' /\ TracerTypeOK'
  <2>1. pending \in BOOLEAN
    BY DEF KernelTypeOK
  <2>2. pending' = pending \/ pending' = Alive(main)
    OBVIOUS
  <2>3. Alive(main) \in BOOLEAN
    BY DEF Alive
  <2>4. pending' \in BOOLEAN
    BY ONLY <2>1, <2>2, <2>3
  <2> QED
    BY <2>4 DEF KernelTypeOK, TracerTypeOK
<1>4. StopInv' /\ DeathInv' /\ ExitCodeHonest'
  BY DEF StopInv, DeathInv, ExitCodeHonest, InHand
<1> QED
  BY <1>1, <1>2, <1>3, <1>4

LEMMA StutterStep ==
  ASSUME IInv, UNCHANGED vars
  PROVE  IInv'
  BY DEF IInv, TypeOK, KernelTypeOK, BoundTypeOK, TracerTypeOK, EventTypeOK,
         StopInv, DeathInv, ExitCodeHonest, InHand

LEMMA NextIInv == IInv /\ [Next]_vars => IInv'
<1> SUFFICES ASSUME IInv, [Next]_vars PROVE IInv'
  OBVIOUS
<1>1. ASSUME NEW p \in Procs, tpc # "done", TraceeNext(p) PROVE IInv'
  BY <1>1, TraceeStep
<1>2. ASSUME NEW p \in Procs, tpc # "done", Kill(p) PROVE IInv'
  <2>1. kills' \in 0 .. MaxKills
    BY <1>2, PtraceAssumption DEF Kill, IInv, TypeOK, BoundTypeOK
  <2> QED
    BY <1>2, <2>1, DieStep DEF Kill
<1>3. CASE CancelKills
  <2>1. kills' \in 0 .. MaxKills
    BY <1>3 DEF CancelKills, IInv, TypeOK, BoundTypeOK
  <2> QED
    BY <1>3, <2>1, DieStep, MainIsProc DEF CancelKills
<1>4. CASE TracerNext
  BY <1>4, LaunchStep, AttachStep, EarlyReturnStep, TopStep, Wait4Step,
     HandleDeadStep, HandleStep DEF TracerNext
<1>5. CASE EventNext
  BY <1>5, EventStep
<1>6. CASE SignalNext
  BY <1>3, <1>6, SignalStep, SignalStopStep DEF SignalNext
<1>7. CASE UNCHANGED vars
  BY <1>7, StutterStep
<1> QED
  BY <1>1, <1>2, <1>4, <1>5, <1>6, <1>7 DEF Next

(* The inductive invariant holds throughout. *)
THEOREM Invariance == Spec => []IInv
  BY InitIInv, NextIInv, PTL DEF Spec

(* Every variable keeps its type and eventCh its capacity. *)
THEOREM TypeCorrect == Spec => []TypeOK
<1>1. IInv => TypeOK
  BY DEF IInv
<1> QED
  BY <1>1, Invariance, PTL

(* The loop never blocks in wait4 with a tracee it has handled and not     *)
(* resumed.                                                                *)
THEOREM NoneFrozen == Spec => []NobodyFrozen
<1>1. IInv => NobodyFrozen
  BY DEF IInv, StopInv, InHand, NobodyFrozen
<1> QED
  BY <1>1, Invariance, PTL

(* An exit code other than 0 that the trace ends with is the command's. *)
THEOREM HonestExitCode == Spec => []ExitCodeHonest
<1>1. IInv => ExitCodeHonest
  BY DEF IInv
<1> QED
  BY <1>1, Invariance, PTL
-----------------------------------------------------------------------------
(* The events are the calls, and the trace ends by itself only when all    *)
(* processes are finished.                                                 *)

(* A stop is open until its handler has run. *)
Open(p) == unseen[p] \/ (tpc = "handle" /\ wpid = p)

At(p, reasons) == kst[p] = "stopped" /\ why[p] \in reasons

(* Where a process stands between its calls, by the stops that have been   *)
(* handled.  One that is exiting is in neither place.                      *)
Insiders ==
  {p \in Procs :
     \/ kst[p] \in {"call", "forked"}
     \/ At(p, {"fork", "exec"})
     \/ At(p, {"entry"}) /\ ~Open(p)
     \/ At(p, {"exit"}) /\ Open(p)}

Outsiders ==
  {p \in Procs :
     \/ kst[p] = "run"
     \/ At(p, {"birth", "group", "signal"})
     \/ At(p, {"entry"}) /\ Open(p)
     \/ At(p, {"exit"}) /\ ~Open(p)}

(* The fork of these is not known to the loop. *)
Forkers == {p \in Procs : kst[p] = "forked" \/ (At(p, {"fork"}) /\ Open(p))}

(* A return of these has no event yet and may still get one: its stop is   *)
(* open, or it was taken for an entry.                                     *)
Debt ==
  {p \in Procs : \/ At(p, {"exit", "exec"}) /\ Open(p)
                 \/ expect[p] /\ p \in Outsiders}

Living == {p \in Procs : Alive(p)}
Born == {p \in Procs : kst[p] # "unborn"}

Calm == kills = 0 /\ ~cancelled
InStep == Calm /\ ~dropped /\ \A p \in Procs : ~overtaken[p]
-----------------------------------------------------------------------------
(* The process in hand is stopped where the loop takes it to be, or was    *)
(* killed there; only stops and deaths are unseen.                         *)
HandInv ==
  /\ \A p \in Procs : unseen[p] => kst[p] \in {"stopped", "zombie"}
  /\ tpc = "attach" =>
       /\ kst[main] \in {"stopped", "zombie"} /\ why[main] = "group"
  /\ tpc = "top" /\ callPid # None =>
       /\ kst[callPid] \in {"stopped", "zombie"}
       /\ kst[callPid] = "stopped" => ~unseen[callPid]
  /\ tpc = "handle" /\ wst # "dead" =>
       /\ kst[wpid] \in {"stopped", "zombie"} /\ wst = why[wpid]
       /\ kst[wpid] = "stopped" => ~unseen[wpid]

(* A process is born once, of one parent, and nothing is known before.     *)
BirthInv ==
  /\ tpc \notin {"launch", "done"} => kst[main] # "unborn"
  /\ \A p \in Procs : kst[p] = "unborn" =>
       ~known[p] /\ ~expect[p] /\ ~overtaken[p] /\ \A r \in Procs : child[r] # p
  /\ \A p, r \in Procs : child[p] = child[r] /\ child[p] # None => p = r
  /\ \A p \in Procs : child[p] # p

(* The toggle agrees with the place, unless the record was replaced, which *)
(* happens once.                                                           *)
PhaseInv ==
  /\ \A p \in Insiders : overtaken[p] \/ expect[p]
  /\ \A p \in Outsiders : overtaken[p] \/ ~expect[p]
  /\ \A p \in Forkers : child[p] \in Procs /\ ~overtaken[child[p]]

(* A process is known from its first call on. *)
KnownInv ==
  tpc # "done" => \A p \in Procs : expect[p] \/ p \in Insiders => known[p]

CoveredInv == counted + queue + Cardinality(Debt) <= returns
ExactInv == InStep => counted + queue + Cardinality(Debt) = returns
CountInv == CoveredInv /\ ExactInv

(* Without kills processes end by exiting only. *)
CalmInv ==
  Calm =>
    /\ \A p \in Procs : kst[p] \in {"zombie", "gone"} => why[p] = "exiting"
    /\ tpc = "handle" /\ wst # "dead" => kst[wpid] = "stopped"

(* Who is alive is known, or is about to be; so is that the command has    *)
(* descendants.                                                            *)
CoverInv ==
  Calm /\ tpc # "done" =>
    /\ \A p \in Living \ {main} : known[p] \/ \E r \in Forkers : child[r] = p
    /\ Born \ {main} # {} => mainKids \/ main \in Forkers

DoneInv ==
  Calm /\ tpc = "done" =>
    \A p \in Living : p = main /\ At(p, {"exiting"})

EventInv ==
  /\ HandInv /\ BirthInv /\ PhaseInv /\ KnownInv
  /\ CountInv /\ CalmInv /\ CoverInv /\ DoneInv

LEMMA DebtFinite == IsFiniteSet(Debt) /\ Cardinality(Debt) \in Nat
<1>1. IsFiniteSet(Procs)
  BY FS_Interval, PtraceAssumption DEF Procs
<1>2. Debt \subseteq Procs
  BY DEF Debt
<1> QED
  BY <1>1, <1>2, FS_Subset, FS_CardinalityType

LEMMA DebtFiniteNext == IsFiniteSet(Debt') /\ Cardinality(Debt') \in Nat
<1>1. IsFiniteSet(Procs)
  BY FS_Interval, PtraceAssumption DEF Procs
<1>2. Debt' \subseteq Procs
  BY DEF Debt
<1> QED
  BY <1>1, <1>2, FS_Subset, FS_CardinalityType

(* A step that settles nothing may cancel a debt, but not while in step.   *)
LEMMA DebtKept ==
  ASSUME IInv, IInv', CountInv, Debt' \subseteq Debt,
         returns' = returns,
         \/ UNCHANGED <<counted, queue>>
         \/ counted' = counted + 1 /\ queue' = queue - 1,
         InStep' => InStep /\ Debt' = Debt
  PROVE  CountInv'
<1>2. Cardinality(Debt') <= Cardinality(Debt)
  BY DebtFinite, FS_Subset
<1>4. /\ returns \in Nat /\ counted \in Nat /\ queue \in Nat
      /\ returns' \in Nat /\ counted' \in Nat /\ queue' \in Nat
  BY DEF IInv, TypeOK, BoundTypeOK, EventTypeOK
<1>5. CoveredInv'
  BY <1>2, <1>4, DebtFinite, DebtFiniteNext DEF CountInv, CoveredInv
<1>6. ExactInv'
  <2>1. SUFFICES ASSUME InStep' PROVE counted' + queue' + Cardinality(Debt') = returns'
    BY DEF ExactInv
  <2>2. counted + queue + Cardinality(Debt) = returns
    BY <2>1 DEF CountInv, ExactInv
  <2> QED
    BY <2>1, <2>2, <1>4, DebtFinite
<1> QED
  BY <1>5, <1>6 DEF CountInv

(* A return adds to what is owed. *)
LEMMA DebtGrows ==
  ASSUME IInv, IInv', CountInv, NEW p \in Procs,
         Debt' \subseteq Debt \cup {p},
         returns' = returns + 1, UNCHANGED <<counted, queue>>,
         InStep' => InStep /\ p \notin Debt /\ Debt' = Debt \cup {p}
  PROVE  CountInv'
<1>2. /\ IsFiniteSet(Debt \cup {p})
      /\ Cardinality(Debt \cup {p}) =
           IF p \in Debt THEN Cardinality(Debt) ELSE Cardinality(Debt) + 1
  BY DebtFinite, FS_AddElement
<1>3. Cardinality(Debt') <= Cardinality(Debt) + 1
  <2>1. Cardinality(Debt') <= Cardinality(Debt \cup {p})
    BY <1>2, FS_Subset
  <2> QED
    BY <2>1, <1>2, DebtFinite, DebtFiniteNext
<1>5. returns \in Nat /\ counted \in Nat /\ queue \in Nat
  BY DEF IInv, TypeOK, BoundTypeOK, EventTypeOK
<1>6. CoveredInv'
  BY <1>3, <1>5, DebtFinite, DebtFiniteNext DEF CountInv, CoveredInv
<1>7. ExactInv'
  <2>1. SUFFICES ASSUME InStep' PROVE counted' + queue' + Cardinality(Debt') = returns'
    BY DEF ExactInv
  <2>2. counted + queue + Cardinality(Debt) = returns
    BY <2>1 DEF CountInv, ExactInv
  <2>3. Cardinality(Debt') = Cardinality(Debt) + 1
    BY <2>1, <1>2
  <2> QED
    BY <2>2, <2>3, <1>5, DebtFinite
<1> QED
  BY <1>6, <1>7 DEF CountInv

(* An event pays one debt. *)
LEMMA DebtPaid ==
  ASSUME IInv, IInv', CountInv, NEW p \in Debt, Debt' \subseteq Debt \ {p},
         queue' = queue + 1, UNCHANGED <<counted, returns>>,
         InStep' => InStep /\ Debt' = Debt \ {p}
  PROVE  CountInv'
<1>2. /\ IsFiniteSet(Debt \ {p})
      /\ Cardinality(Debt \ {p}) = Cardinality(Debt) - 1
  BY DebtFinite, FS_RemoveElement
<1>3. Cardinality(Debt') <= Cardinality(Debt) - 1
  BY <1>2, FS_Subset
<1>5. returns \in Nat /\ counted \in Nat /\ queue \in Nat
  BY DEF IInv, TypeOK, BoundTypeOK, EventTypeOK
<1>6. CoveredInv'
  BY <1>3, <1>5, DebtFinite, DebtFiniteNext DEF CountInv, CoveredInv
<1>7. ExactInv'
  <2>1. SUFFICES ASSUME InStep' PROVE counted' + queue' + Cardinality(Debt') = returns'
    BY DEF ExactInv
  <2>2. counted + queue + Cardinality(Debt) = returns
    BY <2>1 DEF CountInv, ExactInv
  <2>3. Cardinality(Debt') = Cardinality(Debt) - 1
    BY <2>1, <1>2
  <2> QED
    BY <2>2, <2>3, <1>5, DebtFinite
<1> QED
  BY <1>6, <1>7 DEF CountInv
-----------------------------------------------------------------------------
(* A step that leaves each process in its place and the records alone. *)
LEMMA PlacesKept ==
  ASSUME IInv, IInv', EventInv,
         UNCHANGED <<Insiders, Outsiders, Forkers, Debt, Born>>,
         UNCHANGED <<records, child, returns, dropped>>,
         \/ UNCHANGED <<counted, queue>>
         \/ counted' = counted + 1 /\ queue' = queue - 1,
         Living' \subseteq Living, Calm' => Calm, tpc = "done" => tpc' = "done"
  PROVE  PhaseInv' /\ KnownInv' /\ CountInv' /\ CoverInv'
<1>1. PhaseInv' /\ KnownInv'
  BY DEF EventInv, PhaseInv, KnownInv
<1>2. CountInv'
  <2>1. InStep' => InStep
    BY DEF InStep
  <2> QED
    BY <2>1, DebtKept DEF EventInv
<1>3. CoverInv'
  BY DEF EventInv, CoverInv
<1> QED
  BY <1>1, <1>2, <1>3

(* Steps of the kernel that leave every process in its place. *)
LEMMA StopStep ==
  ASSUME IInv, IInv', EventInv, tpc # "done" \/ SignalStop, NEW p \in Procs,
         \/ \E k \in CallKinds : Enter(p, k)
         \/ ForkEvent(p)
         \/ \E c \in {0, 1} : ExitEvent(p, c)
         \/ p = main /\ SignalStop
  PROVE  EventInv'
<1> USE DEF Stop, EventInv
<1>1. /\ kst[p] \in {"run", "forked", "dying"}
      /\ kst[p] = "run" => why'[p] \in {"entry", "signal"}
      /\ kst[p] = "forked" => why'[p] = "fork"
      /\ kst[p] = "dying" => why'[p] = "exiting"
      /\ kst' = [kst EXCEPT ![p] = "stopped"]
      /\ \E w \in Stops : why' = [why EXCEPT ![p] = w]
      /\ unseen' = [unseen EXCEPT ![p] = TRUE]
      /\ UNCHANGED <<child, kills, returns, tracer, events, reading, sigs>>
  BY DEF Enter, ForkEvent, ExitEvent, SignalStop, IInv, TypeOK, KernelTypeOK
<1>2. UNCHANGED <<Insiders, Outsiders, Forkers, Born, Living>>
  BY <1>1 DEF Insiders, Outsiders, Forkers, Born, Living, Alive, At, Open, IInv,
              TypeOK, KernelTypeOK
<1>3. UNCHANGED Debt
  BY <1>1, <1>2 DEF Debt, At, Open, IInv, TypeOK, KernelTypeOK
<1>4. PhaseInv' /\ KnownInv' /\ CountInv' /\ CoverInv'
  BY <1>1, <1>2, <1>3, PlacesKept DEF Calm
<1>5. HandInv' /\ BirthInv'
  BY <1>1 DEF HandInv, BirthInv, IInv, TypeOK, KernelTypeOK, TracerTypeOK
<1>6. CalmInv'
  BY <1>1 DEF CalmInv, Calm, IInv, TypeOK, KernelTypeOK, TracerTypeOK
<1>7. DoneInv'
  BY <1>1, <1>2 DEF DoneInv, Calm, At, Living, Alive, SignalStop, IInv, TypeOK,
                    KernelTypeOK
<1> QED
  BY <1>4, <1>5, <1>6, <1>7

(* A return, from a call or by an exec. *)
LEMMA ReturnStep ==
  ASSUME IInv, IInv', EventInv, tpc # "done", NEW p \in Procs,
         FinishCall(p) \/ ExecEvent(p)
  PROVE  EventInv'
<1> USE DEF Stop, EventInv
<1>1. /\ kst[p] = "call" /\ kst' = [kst EXCEPT ![p] = "stopped"]
      /\ \E w \in {"exit", "exec"} : why' = [why EXCEPT ![p] = w]
      /\ unseen' = [unseen EXCEPT ![p] = TRUE] /\ returns' = returns + 1
      /\ UNCHANGED <<child, kills, tracer, events, reading, sigs>>
  BY DEF FinishCall, ExecEvent
<1>2. UNCHANGED <<Insiders, Outsiders, Forkers, Born, Living>>
  BY <1>1 DEF Insiders, Outsiders, Forkers, Born, Living, Alive, At, Open, IInv,
              TypeOK, KernelTypeOK
<1>3. p \notin Debt /\ Debt' = Debt \cup {p}
  BY <1>1, <1>2 DEF Debt, Outsiders, At, Open, IInv, TypeOK, KernelTypeOK
<1>4. CountInv'
  <2>1. InStep' => InStep
    BY <1>1 DEF InStep, Calm
  <2> QED
    BY <1>1, <1>3, <2>1, DebtGrows
<1>5. PhaseInv' /\ KnownInv' /\ CoverInv'
  BY <1>1, <1>2 DEF PhaseInv, KnownInv, CoverInv, Calm
<1>6. HandInv' /\ BirthInv'
  BY <1>1 DEF HandInv, BirthInv, IInv, TypeOK, KernelTypeOK, TracerTypeOK
<1>7. CalmInv' /\ DoneInv'
  BY <1>1 DEF CalmInv, DoneInv, Calm, IInv, TypeOK, KernelTypeOK, TracerTypeOK
<1> QED
  BY <1>4, <1>5, <1>6, <1>7

(* A fork: the child is nobody's yet, and becomes p's. *)
LEMMA ForkStep ==
  ASSUME IInv, IInv', EventInv, tpc # "done", NEW p \in Procs, NEW q \in Procs,
         Fork(p, q)
  PROVE  EventInv'
<1> USE DEF EventInv
<1>1. /\ kst[p] = "call" /\ kst[q] = "unborn" /\ p # q
      /\ kst' = [kst EXCEPT ![p] = "forked", ![q] = "stopped"]
      /\ why' = [why EXCEPT ![q] = "birth"]
      /\ unseen' = [unseen EXCEPT ![q] = TRUE]
      /\ child' = [child EXCEPT ![p] = q]
      /\ UNCHANGED <<kills, returns, tracer, events, reading, sigs>>
  BY DEF Fork
<1>2. /\ q # main /\ ~known[q] /\ ~expect[q] /\ ~overtaken[q]
      /\ \A r \in Procs : child[r] # q
  BY <1>1, MainIsProc DEF BirthInv, IInv, DeathInv, TypeOK, TracerTypeOK
<1>3. /\ Insiders' = Insiders /\ Outsiders' = Outsiders \cup {q}
      /\ Forkers' = Forkers \cup {p} /\ Born' = Born \cup {q}
      /\ Living' = Living \cup {q} /\ p \in Living /\ p \in Born
  BY <1>1 DEF Insiders, Outsiders, Forkers, Born, Living, Alive, At, Open, IInv,
              TypeOK, KernelTypeOK
<1>4. Debt' = Debt
  BY <1>1, <1>2, <1>3 DEF Debt, At, Open, Outsiders, IInv, TypeOK, KernelTypeOK
<1>5. CountInv'
  BY <1>1, <1>4, DebtKept DEF InStep, Calm
<1>6. PhaseInv' /\ KnownInv'
  BY <1>1, <1>2, <1>3 DEF PhaseInv, KnownInv, IInv, TypeOK, KernelTypeOK, Forkers
<1>7. CoverInv'
  <2>1. \A r \in Forkers : r # p
    BY <1>1 DEF Forkers, At
  <2>2. \A r \in Forkers : r \in Forkers' /\ child'[r] = child[r]
    BY <1>1, <1>3, <2>1 DEF Forkers, IInv, TypeOK, KernelTypeOK
  <2>3. p \in Forkers' /\ child'[p] = q
    BY <1>1, <1>3 DEF IInv, TypeOK, KernelTypeOK
  <2> QED
    BY <1>1, <1>3, <2>2, <2>3 DEF CoverInv, Calm
<1>8. HandInv'
  <2>1. \A r \in Procs : kst[r] \in {"stopped", "zombie"} =>
          kst'[r] = kst[r] /\ why'[r] = why[r] /\ unseen'[r] = unseen[r]
    <3>1. \A r \in Procs : kst[r] \in {"stopped", "zombie"} => r # p /\ r # q
      BY <1>1
    <3>2. \A r \in Procs : r # p /\ r # q =>
            kst'[r] = kst[r] /\ why'[r] = why[r] /\ unseen'[r] = unseen[r]
      BY <1>1 DEF IInv, TypeOK, KernelTypeOK
    <3> QED
      BY <3>1, <3>2
  <2>2. main \in Procs /\ callPid \in Procs \cup {None} /\ wpid \in Procs
    BY MainIsProc DEF IInv, TypeOK, TracerTypeOK
  <2>3. UNCHANGED <<tpc, callPid, wpid, wst>>
    BY <1>1
  <2>4. \A r \in Procs : unseen'[r] => kst'[r] \in {"stopped", "zombie"}
    <3>1. unseen'[q] => kst'[q] = "stopped"
      BY <1>1 DEF IInv, TypeOK, KernelTypeOK
    <3>2. \A r \in Procs : r # q => unseen'[r] = unseen[r]
      BY <1>1 DEF IInv, TypeOK, KernelTypeOK
    <3> QED
      BY <2>1, <3>1, <3>2 DEF HandInv
  <2> QED
    BY <2>1, <2>2, <2>3, <2>4 DEF HandInv
<1>9. BirthInv'
  <2>1. \A r \in Procs : kst'[r] = "unborn" => kst[r] = "unborn" /\ r # q
    BY <1>1 DEF IInv, TypeOK, KernelTypeOK
  <2>2. \A r \in Procs : child'[r] = IF r = p THEN q ELSE child[r]
    BY <1>1 DEF IInv, TypeOK, KernelTypeOK
  <2>3. UNCHANGED <<tpc, known, expect, overtaken>>
    BY <1>1
  <2>4. tpc' \notin {"launch", "done"} => kst'[main] # "unborn"
    BY <2>1, <2>3, MainIsProc DEF BirthInv
  <2>5. \A r \in Procs : kst'[r] = "unborn" =>
          /\ ~known'[r] /\ ~expect'[r] /\ ~overtaken'[r]
          /\ \A x \in Procs : child'[x] # r
    BY <2>1, <2>2, <2>3 DEF BirthInv
  <2>6. \A x, r \in Procs : child'[x] = child'[r] /\ child'[x] # None => x = r
    BY <1>2, <2>2 DEF BirthInv
  <2>7. \A r \in Procs : child'[r] # r
    BY <1>1, <2>2 DEF BirthInv
  <2> QED
    BY <2>4, <2>5, <2>6, <2>7 DEF BirthInv
<1>10. CalmInv' /\ DoneInv'
  BY <1>1 DEF CalmInv, DoneInv, Calm, IInv, TypeOK, KernelTypeOK, TracerTypeOK
<1> QED
  BY <1>5, <1>6, <1>7, <1>8, <1>9, <1>10

(* A killed process leaves its place; nothing is promised of such runs.    *)
LEMMA DeathStep ==
  ASSUME IInv, IInv', EventInv, NEW p \in Procs, Die(p), ~Calm'
  PROVE  EventInv'
<1> USE DEF EventInv
<1>1. /\ Alive(p) /\ kst' = [kst EXCEPT ![p] = "zombie"]
      /\ unseen' = [unseen EXCEPT ![p] = TRUE]
      /\ UNCHANGED <<why, child, returns, tracer, events, reading, sigs>>
  BY DEF Die
<1>2. /\ Insiders' \subseteq Insiders /\ Outsiders' \subseteq Outsiders
      /\ Forkers' \subseteq Forkers /\ Born' = Born
  BY <1>1 DEF Insiders, Outsiders, Forkers, Born, Alive, At, Open, IInv, TypeOK,
              KernelTypeOK
<1>3. Debt' \subseteq Debt
  BY <1>1, <1>2 DEF Debt, At, Open, IInv, TypeOK, KernelTypeOK
<1>4. CountInv'
  BY <1>1, <1>3, DebtKept DEF InStep
<1>5. PhaseInv' /\ KnownInv'
  BY <1>1, <1>2 DEF PhaseInv, KnownInv
<1>6. HandInv' /\ BirthInv'
  BY <1>1, MainIsProc DEF HandInv, BirthInv, Alive, IInv, TypeOK, KernelTypeOK, TracerTypeOK
<1> QED
  BY <1>4, <1>5, <1>6 DEF CalmInv, CoverInv, DoneInv
-----------------------------------------------------------------------------
(* The loop's steps. *)

LEMMA LaunchEvents ==
  ASSUME IInv, IInv', EventInv, Launch
  PROVE  EventInv'
<1> USE MainIsProc DEF EventInv, Launch, Return, Stop
<1>1. \A p \in Procs : kst[p] = "unborn"
  BY DEF IInv, DeathInv
<1>2. Insiders = {} /\ Outsiders = {} /\ Forkers = {} /\ Living = {} /\ Born = {}
  BY <1>1 DEF Insiders, Outsiders, Forkers, Living, Born, Alive, At
<1>3. Debt = {}
  BY <1>1, <1>2 DEF Debt, At
<1>4. CASE cancelled
  <2>1. UNCHANGED <<Insiders, Outsiders, Forkers, Debt, Born, Living>>
    BY <1>1, <1>4 DEF Insiders, Outsiders, Forkers, Living, Born, Alive, At, Debt
  <2>2. PhaseInv' /\ KnownInv' /\ CountInv' /\ CoverInv'
    BY <1>4, <2>1, PlacesKept DEF Calm
  <2>3. HandInv' /\ BirthInv'
    BY <1>4 DEF HandInv, BirthInv
  <2> QED
    BY <1>4, <2>2, <2>3 DEF CalmInv, DoneInv, Calm
<1>5. CASE ~cancelled
  <2>1. /\ Insiders' = {} /\ Outsiders' = {main} /\ Forkers' = {}
        /\ Living' = {main} /\ Born' = {main}
    BY <1>1, <1>5 DEF Insiders, Outsiders, Forkers, Living, Born, Alive, At, Open,
                      IInv, TypeOK, KernelTypeOK
  <2>2. ~expect[main]
    BY <1>1 DEF BirthInv
  <2>3. Debt' = {}
    BY <1>5, <2>1, <2>2, <1>1 DEF Debt, At, IInv, TypeOK, KernelTypeOK
  <2>4. CountInv'
    BY <1>3, <1>5, <2>3, DebtKept DEF InStep, Calm
  <2>5. PhaseInv' /\ KnownInv' /\ CoverInv'
    BY <1>5, <2>1, <2>2 DEF PhaseInv, KnownInv, CoverInv
  <2>6. HandInv' /\ BirthInv'
    BY <1>5, <1>1 DEF HandInv, BirthInv, IInv, TypeOK, KernelTypeOK
  <2>7. CalmInv' /\ DoneInv'
    BY <1>1, <1>5 DEF CalmInv, DoneInv, IInv, TypeOK, KernelTypeOK
  <2> QED
    BY <2>4, <2>5, <2>6, <2>7
<1> QED
  BY <1>4, <1>5

LEMMA AttachEvents ==
  ASSUME IInv, IInv', EventInv, Attach
  PROVE  EventInv'
<1> USE MainIsProc DEF EventInv, Attach, Return
<1>1. kst[main] \in {"stopped", "zombie"} /\ why[main] = "group"
  BY DEF HandInv
<1>2. UNCHANGED <<Insiders, Outsiders, Forkers, Born, Living>>
  BY <1>1 DEF Insiders, Outsiders, Forkers, Born, Living, Alive, At, Open, IInv,
              TypeOK, KernelTypeOK
<1>3. UNCHANGED Debt
  BY <1>1, <1>2 DEF Debt, At, Open, IInv, TypeOK, KernelTypeOK
<1>4. CountInv'
  BY <1>3, DebtKept DEF InStep, Calm
<1>5. PhaseInv'
  BY <1>2 DEF PhaseInv
<1>6. KnownInv'
  BY <1>2 DEF KnownInv, IInv, TypeOK, TracerTypeOK
<1>7. HandInv' /\ BirthInv'
  BY <1>1 DEF HandInv, BirthInv, IInv, TypeOK, KernelTypeOK, TracerTypeOK
<1>8. Calm => kst[main] # "zombie"
  BY <1>1 DEF CalmInv
<1>9. CalmInv' /\ DoneInv'
  <2>1. Calm' => Calm /\ tpc' = "top" /\ UNCHANGED <<kst, why>>
    BY <1>8 DEF Calm
  <2> QED
    BY <2>1 DEF CalmInv, DoneInv
<1>10. CoverInv'
  <2>1. \A q \in Procs : known[q] => known'[q]
    BY DEF IInv, TypeOK, TracerTypeOK
  <2>2. UNCHANGED <<mainKids, child>> /\ tpc # "done"
    OBVIOUS
  <2>3. Calm' => Calm
    BY DEF Calm
  <2> QED
    BY <1>2, <2>1, <2>2, <2>3 DEF CoverInv, Living
<1> QED
  BY <1>4, <1>5, <1>6, <1>7, <1>9, <1>10

LEMMA CancelledEvents ==
  ASSUME IInv, IInv', EventInv, AttachCancelled \/ TopCancelled
  PROVE  EventInv'
<1> USE DEF EventInv, AttachCancelled, TopCancelled, Return
<1>1. UNCHANGED <<Insiders, Outsiders, Forkers, Born, Living>>
  BY DEF Insiders, Outsiders, Forkers, Born, Living, Alive, At, Open
<1>2. UNCHANGED Debt
  BY <1>1 DEF Debt, At, Open
<1>3. PhaseInv' /\ KnownInv' /\ CountInv' /\ CoverInv'
  BY <1>1, <1>2, PlacesKept DEF Calm
<1>4. HandInv' /\ BirthInv'
  BY DEF HandInv, BirthInv
<1> QED
  BY <1>3, <1>4 DEF CalmInv, DoneInv, Calm

LEMMA NoChildEvents ==
  ASSUME IInv, IInv', EventInv, NoChild
  PROVE  EventInv'
<1> USE DEF EventInv, NoChild, Return, EmptyMap
<1>1. /\ Insiders = {} /\ Outsiders = {} /\ Forkers = {} /\ Living = {}
      /\ UNCHANGED <<Insiders, Outsiders, Forkers, Born, Living>>
  BY DEF Insiders, Outsiders, Forkers, Born, Living, Alive, At
<1>2. UNCHANGED Debt
  BY <1>1 DEF Debt, At
<1>3. CountInv'
  BY <1>2, DebtKept DEF InStep, Calm
<1>4. PhaseInv' /\ KnownInv' /\ CoverInv' /\ DoneInv' /\ HandInv'
  BY <1>1 DEF PhaseInv, KnownInv, CoverInv, DoneInv, HandInv
<1>5. BirthInv'
  <2>1. \A p \in Procs : ~known[p] => ~known'[p]
    BY DEF IInv, TypeOK, TracerTypeOK
  <2>2. tpc' = "done" /\ UNCHANGED <<kernel, expect, overtaken>>
    OBVIOUS
  <2> QED
    BY <2>1, <2>2 DEF BirthInv
<1>6. CalmInv'
  BY DEF CalmInv, Calm
<1> QED
  BY <1>3, <1>4, <1>5, <1>6

LEMMA Wait4Events ==
  ASSUME IInv, IInv', EventInv, NEW p \in Procs, Wait4(p)
  PROVE  EventInv'
<1> USE DEF EventInv, Wait4
<1>1. /\ kst[p] \in {"stopped", "zombie"} /\ wpid' = p /\ ~unseen'[p]
      /\ kst'[p] = IF kst[p] = "zombie" THEN "gone" ELSE kst[p]
      /\ \A q \in Procs \ {p} : kst'[q] = kst[q] /\ unseen'[q] = unseen[q]
  BY DEF HandInv, IInv, TypeOK, KernelTypeOK
<1>2. \A q \in Procs : Open(q)' = Open(q)
  BY <1>1 DEF Open, IInv, TypeOK, KernelTypeOK
<1>3. UNCHANGED <<Insiders, Outsiders, Forkers, Born, Living>>
  BY <1>1 DEF Insiders, Outsiders, Forkers, Born, Living, Alive, At, Open
<1>4. UNCHANGED Debt
  BY <1>1, <1>3 DEF Debt, At, Open
<1>5. PhaseInv' /\ KnownInv' /\ CountInv' /\ CoverInv'
  BY <1>3, <1>4, PlacesKept DEF Calm
<1>6. HandInv'
  BY <1>1 DEF HandInv
<1>7. BirthInv'
  BY <1>1, MainIsProc DEF BirthInv
<1>8. CalmInv'
  BY <1>1 DEF CalmInv, Calm, IInv, TypeOK, KernelTypeOK
<1> QED
  BY <1>5, <1>6, <1>7, <1>8 DEF DoneInv

LEMMA HandleDeadEvents ==
  ASSUME IInv, IInv', EventInv, HandleDead
  PROVE  EventInv'
<1> USE DEF EventInv, HandleDead, Return, Again, Forget
<1>1. wpid \in Procs /\ kst[wpid] = "gone"
  BY DEF IInv, DeathInv, TypeOK, TracerTypeOK
<1>2. /\ ~known'[wpid] /\ ~expect'[wpid]
      /\ \A q \in Procs \ {wpid} : known'[q] = known[q] /\ expect'[q] = expect[q]
  BY <1>1 DEF IInv, TypeOK, TracerTypeOK
<1>3. /\ UNCHANGED <<Insiders, Outsiders, Forkers, Born, Living>>
      /\ wpid \notin Insiders \cup Outsiders \cup Living
  BY <1>1 DEF Insiders, Outsiders, Forkers, Born, Living, Alive, At, Open
<1>4. UNCHANGED Debt
  BY <1>1, <1>2, <1>3 DEF Debt, At, Open
<1>5. CountInv'
  BY <1>4, DebtKept DEF InStep, Calm
<1>6. PhaseInv' /\ KnownInv'
  BY <1>2, <1>3 DEF PhaseInv, KnownInv, Insiders, Outsiders
<1>7. HandInv' /\ BirthInv'
  BY <1>1, <1>2, MainIsProc DEF HandInv, BirthInv
<1>8. CalmInv'
  BY DEF CalmInv, Calm
<1>9. CoverInv'
  BY <1>1, <1>2, <1>3 DEF CoverInv, Calm, Living
(* A process that is alive and unknown has a parent that is known. *)
<1>10. DoneInv'
  <2>1. SUFFICES ASSUME Calm, tpc' = "done", NEW p \in Living
                 PROVE  FALSE
    BY <1>3 DEF DoneInv, Calm
  <2>2. wpid = main /\ \A q \in Procs \ {main} : ~known[q]
    BY <2>1 DEF LastOne
  <2>3. PICK r \in Forkers : child[r] = p
    BY <1>3, <2>1, <2>2 DEF CoverInv, Living
  <2>4. r \in Insiders
    BY DEF Forkers, Insiders, At
  <2>5. r # main
    BY <1>1, <2>2 DEF Forkers, At
  <2> QED
    BY <2>2, <2>4, <2>5 DEF KnownInv, Insiders
<1> QED
  BY <1>5, <1>6, <1>7, <1>8, <1>9, <1>10

(* Stops that are neither of calls nor of forks. *)
LEMMA HandleOtherEvents ==
  ASSUME IInv, IInv', EventInv, HandleSignal \/ HandleExiting
  PROVE  EventInv'
<1> USE DEF EventInv
<1>1. /\ tpc = "handle" /\ wst \in {"birth", "group", "signal", "exiting"}
      /\ \/ tpc' = "top" /\ callPid' = wpid
         \/ /\ tpc' = "done" /\ wpid = main /\ wst = "exiting" /\ ~mainKids
      /\ UNCHANGED <<kernel, bounds, returns, wpid, wst, records, events, reading, sigs>>
  BY DEF HandleSignal, HandleExiting, Return, Again, NextPid, Childless
<1>2. /\ wpid \in Procs /\ kst[wpid] \in {"stopped", "zombie"}
      /\ why[wpid] \in {"birth", "group", "signal", "exiting"}
  BY <1>1 DEF HandInv, IInv, TypeOK, TracerTypeOK
<1>3. UNCHANGED <<Insiders, Outsiders, Forkers, Born, Living>>
  BY <1>1, <1>2 DEF Insiders, Outsiders, Forkers, Born, Living, Alive, At, Open
<1>4. UNCHANGED Debt
  BY <1>1, <1>2, <1>3 DEF Debt, At, Open
<1>5. PhaseInv' /\ KnownInv' /\ CountInv' /\ CoverInv'
  BY <1>1, <1>3, <1>4, PlacesKept DEF Calm
<1>6. HandInv' /\ BirthInv'
  BY <1>1 DEF HandInv, BirthInv
<1>7. CalmInv'
  BY <1>1 DEF CalmInv, Calm
<1>8. DoneInv'
  <2>1. SUFFICES ASSUME Calm, tpc' = "done", NEW p \in Living
                 PROVE  p = main /\ At(p, {"exiting"})
    BY <1>1, <1>3 DEF DoneInv, Calm, At
  <2>2. At(main, {"exiting"})
    BY <1>1, <2>1 DEF CalmInv, HandInv, At
  <2>3. main \notin Forkers
    BY <2>2 DEF Forkers, At
  <2>4. Born \ {main} = {}
    BY <1>1, <2>1, <2>3 DEF CoverInv
  <2>5. p \in Born
    BY DEF Living, Born, Alive
  <2> QED
    BY <2>2, <2>4, <2>5
<1> QED
  BY <1>5, <1>6, <1>7, <1>8

(* The resume of a process whose stop has been handled, or the forgetting  *)
(* of one that was killed.                                                 *)
LEMMA TopEvents ==
  ASSUME IInv, IInv', EventInv, Top
  PROVE  EventInv'
<1> USE DEF EventInv, Top
<1>1. CASE callPid = None
  <2>1. UNCHANGED <<Insiders, Outsiders, Forkers, Born, Living>>
    BY <1>1 DEF Insiders, Outsiders, Forkers, Born, Living, Alive, At, Open
  <2>2. UNCHANGED Debt
    BY <1>1, <2>1 DEF Debt, At, Open
  <2>3. PhaseInv' /\ KnownInv' /\ CountInv' /\ CoverInv'
    BY <1>1, <2>1, <2>2, PlacesKept DEF Calm
  <2> QED
    BY <1>1, <2>3 DEF HandInv, BirthInv, CalmInv, DoneInv, Calm
<1>2. CASE callPid # None /\ ~Alive(callPid)
  <2>1. /\ callPid \in Procs /\ kst[callPid] = "zombie"
        /\ UNCHANGED <<tpc, kernel>> /\ callPid' = None
    BY <1>2 DEF HandInv, Alive, IInv, TypeOK, TracerTypeOK
  <2>2. /\ ~known'[callPid] /\ ~expect'[callPid]
        /\ \A q \in Procs \ {callPid} :
             known'[q] = known[q] /\ expect'[q] = expect[q]
    BY <1>2, <2>1 DEF Forget, IInv, TypeOK, TracerTypeOK
  <2>3. /\ UNCHANGED <<Insiders, Outsiders, Forkers, Born, Living>>
        /\ callPid \notin Insiders \cup Outsiders \cup Living
    BY <2>1 DEF Insiders, Outsiders, Forkers, Born, Living, Alive, At, Open
  <2>4. UNCHANGED Debt
    BY <2>1, <2>2, <2>3 DEF Debt, At, Open
  <2>5. CountInv'
    BY <2>4, DebtKept DEF InStep, Calm
  <2>6. PhaseInv' /\ KnownInv'
    BY <2>1, <2>2, <2>3 DEF PhaseInv, KnownInv, Insiders, Outsiders
  <2>7. HandInv' /\ BirthInv'
    BY <2>1, <2>2 DEF HandInv, BirthInv
  <2>8. CalmInv' /\ DoneInv'
    BY <2>1 DEF CalmInv, DoneInv, Calm
  <2>9. CoverInv'
    BY <2>1, <2>2, <2>3 DEF CoverInv, Calm, Living
  <2> QED
    BY <2>5, <2>6, <2>7, <2>8, <2>9
<1>3. CASE callPid # None /\ Alive(callPid)
  <2> DEFINE p == callPid
  <2>1. /\ p \in Procs /\ kst[p] = "stopped" /\ ~unseen[p] /\ Resume(p)
        /\ tpc = "top" /\ tpc' = "wait"
    BY <1>3 DEF HandInv, Alive, IInv, TypeOK, TracerTypeOK
  <2>2. /\ \A q \in Procs \ {p} :
             kst'[q] = kst[q] /\ why'[q] = why[q] /\ unseen'[q] = unseen[q]
        /\ kst'[p] \in AfterStop(p)
        /\ why'[p] = IF kst'[p] = "stopped" THEN "group" ELSE why[p]
        /\ unseen'[p] = (kst'[p] \in {"stopped", "zombie"})
        /\ UNCHANGED child
    BY <2>1 DEF Resume, IInv, TypeOK, KernelTypeOK
  <2> HIDE DEF p
  <2>3. /\ why[p] \in Stops
        /\ why[p] = "birth" => kst'[p] = "stopped"
        /\ why[p] = "entry" => kst'[p] \in {"dying", "call"}
        /\ why[p] \in {"fork", "exec"} => kst'[p] = "call"
        /\ why[p] \in {"exit", "group"} => kst'[p] = "run"
        /\ why[p] = "signal" => kst'[p] \in {"run", "dying"}
        /\ why[p] = "exiting" => kst'[p] = "zombie"
    BY <2>1, <2>2 DEF AfterStop, IInv, TypeOK, KernelTypeOK
  <2>4. /\ Insiders' \subseteq Insiders /\ Outsiders' \subseteq Outsiders
        /\ Forkers' = Forkers /\ Born' = Born /\ Living' \subseteq Living
    BY <2>1, <2>2, <2>3 DEF Insiders, Outsiders, Forkers, Born, Living, Alive,
                            At, Open
  <2>5. UNCHANGED <<returns, records, events, reading, sigs, kills>>
    BY <1>3
  <2>6. CountInv'
    <3>1. Debt' \subseteq Debt
      BY <2>1, <2>2, <2>3, <2>4, <2>5 DEF Debt, At, Open
    <3>2. InStep' => InStep /\ Debt' = Debt
      <4>1. SUFFICES ASSUME InStep' PROVE InStep /\ Debt \subseteq Debt'
        BY <3>1
      <4>2. InStep
        BY <2>5, <4>1 DEF InStep, Calm
      <4>3. \A q \in Outsiders : ~expect[q]
        BY <4>2 DEF PhaseInv, InStep, Outsiders
      <4>4. ~Open(p)
        BY <2>1 DEF Open
      <4> QED
        BY <2>1, <2>2, <4>2, <4>3, <4>4 DEF Debt, At, Open
    <3> QED
      BY <2>5, <3>1, <3>2, DebtKept
  <2>7. PhaseInv' /\ KnownInv' /\ CoverInv'
    BY <2>1, <2>2, <2>4, <2>5 DEF PhaseInv, KnownInv, CoverInv, Calm
  <2>8. HandInv'
    BY <2>1, <2>2 DEF HandInv
  <2>9. BirthInv'
    BY <2>1, <2>2, <2>3, <2>5, MainIsProc DEF BirthInv, Stops
  <2>10. CalmInv' /\ DoneInv'
    BY <2>1, <2>2, <2>3, <2>5 DEF CalmInv, DoneInv, Calm
  <2> QED
    BY <2>6, <2>7, <2>8, <2>9, <2>10
<1> QED
  BY <1>1, <1>2, <1>3

(* An entry and an exit: the process changes places and its toggle with    *)
(* it, and what a toggle calls a return is paid.                           *)
LEMMA HandleSyscallEvents ==
  ASSUME IInv, IInv', EventInv, HandleSyscall
  PROVE  EventInv'
<1> USE DEF EventInv
<1>1. /\ wpid \in Procs /\ tpc = "handle" /\ wst \in {"entry", "exit"}
      /\ kst[wpid] \in {"stopped", "zombie"} /\ wst = why[wpid]
      /\ kst[wpid] = "stopped" => ~unseen[wpid]
      /\ UNCHANGED <<kernel, bounds, returns, wpid, wst, mainKids, overtaken,
                     reading, sigs>>
  BY DEF HandleSyscall, HandInv, IInv, TypeOK, TracerTypeOK
<1>2. CASE ~Alive(wpid)
  <2>1. /\ kst[wpid] = "zombie" /\ tpc' = "top" /\ callPid' = wpid
        /\ ~known'[wpid] /\ ~expect'[wpid]
        /\ \A q \in Procs \ {wpid} :
             known'[q] = known[q] /\ expect'[q] = expect[q]
        /\ UNCHANGED events
    BY <1>1, <1>2 DEF HandleSyscall, SendNothing, Again, Forget, Alive, IInv,
                      TypeOK, TracerTypeOK
  <2>2. /\ UNCHANGED <<Insiders, Outsiders, Forkers, Born, Living>>
        /\ wpid \notin Insiders \cup Outsiders
    BY <1>1, <2>1 DEF Insiders, Outsiders, Forkers, Born, Living, Alive, At, Open
  <2>3. UNCHANGED Debt
    BY <1>1, <2>1, <2>2 DEF Debt, At, Open
  <2>4. CountInv'
    BY <1>1, <2>1, <2>3, DebtKept DEF InStep, Calm
  <2>5. PhaseInv' /\ KnownInv'
    BY <1>1, <2>1, <2>2 DEF PhaseInv, KnownInv, Insiders, Outsiders
  <2>6. HandInv' /\ BirthInv'
    BY <1>1, <2>1, MainIsProc DEF HandInv, BirthInv
  <2>7. ~Calm'
    BY <1>1, <2>1 DEF CalmInv, Calm
  <2> QED
    BY <2>4, <2>5, <2>6, <2>7 DEF CalmInv, CoverInv, DoneInv
<1>3. CASE Alive(wpid)
  <2>1. /\ kst[wpid] = "stopped" /\ ~unseen[wpid] /\ Open(wpid)
        /\ known'[wpid] /\ expect'[wpid] = ~expect[wpid]
        /\ \A q \in Procs \ {wpid} :
             known'[q] = known[q] /\ expect'[q] = expect[q]
        /\ expect[wpid] \in BOOLEAN
        /\ IF expect[wpid] THEN Send ELSE SendNothing
    BY <1>1, <1>3 DEF HandleSyscall, Toggle, Returned, Alive, Open, IInv, TypeOK,
                      TracerTypeOK
  <2>2. \/ tpc' = "top" /\ callPid' = wpid
        \/ tpc' = "done" /\ cancelled
    BY <2>1 DEF Send, SendNothing, Again, Return
  <2>3. ~Open(wpid)' /\ \A q \in Procs \ {wpid} : Open(q)' = Open(q)
    BY <1>1, <2>1, <2>2 DEF Open
  <2>4. /\ UNCHANGED <<Forkers, Born, Living>>
        /\ wst = "entry" =>
             /\ wpid \in Outsiders
             /\ Insiders' = Insiders \cup {wpid}
             /\ Outsiders' = Outsiders \ {wpid}
        /\ wst = "exit" =>
             /\ wpid \in Insiders
             /\ Insiders' = Insiders \ {wpid}
             /\ Outsiders' = Outsiders \cup {wpid}
    BY <1>1, <2>1, <2>3 DEF Insiders, Outsiders, Forkers, Born, Living, Alive, At
  <2>5. IF expect[wpid] THEN wpid \in Debt /\ Debt' = Debt \ {wpid}
                        ELSE Debt' = Debt
    BY <1>1, <2>1, <2>3, <2>4 DEF Debt, At
  <2>6. CountInv'
    <3>1. CASE ~expect[wpid]
      BY <1>1, <2>1, <2>5, <3>1, DebtKept DEF SendNothing, InStep, Calm
    <3>2. CASE expect[wpid] /\ queue' = queue + 1 /\ UNCHANGED dropped
      BY <1>1, <2>5, <3>2, DebtPaid DEF InStep, Calm
    <3>3. CASE expect[wpid] /\ UNCHANGED queue /\ (dropped' \/ cancelled)
      <4>1. ~InStep'
        BY <1>1, <3>3 DEF InStep, Calm
      <4> QED
        BY <1>1, <2>5, <3>3, <4>1, DebtKept
    <3> QED
      BY <2>1, <3>1, <3>2, <3>3 DEF Send
  <2>7. PhaseInv'
    <3>1. Insiders \subseteq Procs /\ Outsiders \subseteq Procs
      BY DEF Insiders, Outsiders
    <3>2. \A q \in Procs \ {wpid} :
            /\ q \in Insiders' => q \in Insiders
            /\ q \in Outsiders' => q \in Outsiders
      BY <1>1, <2>4
    <3>3. \A q \in Procs \ {wpid} :
            /\ q \in Insiders' => overtaken'[q] \/ expect'[q]
            /\ q \in Outsiders' => overtaken'[q] \/ ~expect'[q]
      BY <1>1, <2>1, <3>2 DEF PhaseInv
    <3>4. /\ wpid \in Insiders' => overtaken'[wpid] \/ expect'[wpid]
          /\ wpid \in Outsiders' => overtaken'[wpid] \/ ~expect'[wpid]
      BY <1>1, <2>1, <2>4 DEF PhaseInv
    <3>5. Insiders' \subseteq Procs /\ Outsiders' \subseteq Procs
      BY <1>1, <2>4, <3>1
    <3> QED
      BY <1>1, <2>4, <3>3, <3>4, <3>5 DEF PhaseInv
  <2>8. KnownInv'
    BY <1>1, <2>1, <2>4 DEF KnownInv
  <2>9. HandInv' /\ BirthInv'
    BY <1>1, <2>1, <2>2, MainIsProc DEF HandInv, BirthInv
  <2>10. CoverInv' /\ CalmInv' /\ DoneInv'
    BY <1>1, <2>1, <2>2, <2>4 DEF CoverInv, CalmInv, DoneInv, Calm, Living
  <2> QED
    BY <2>6, <2>7, <2>8, <2>9, <2>10
<1> QED
  BY <1>2, <1>3

(* An exec that succeeded: its entry was handled, or the record replaced.  *)
LEMMA HandleExecEvents ==
  ASSUME IInv, IInv', EventInv, HandleExec
  PROVE  EventInv'
<1> USE DEF EventInv
<1>1. /\ wpid \in Procs /\ tpc = "handle" /\ wst = "exec"
      /\ kst[wpid] \in {"stopped", "zombie"} /\ why[wpid] = "exec"
      /\ kst[wpid] = "stopped" => ~unseen[wpid]
      /\ UNCHANGED <<kernel, bounds, returns, wpid, wst, records, reading, sigs>>
  BY DEF HandleExec, HandInv, IInv, TypeOK, TracerTypeOK
<1>2. \/ tpc' = "top" /\ callPid' = wpid
      \/ tpc' = "done" /\ cancelled
  BY DEF HandleExec, Send, SendNothing, Again, Return
<1>3. \A q \in Procs \ {wpid} : Open(q)' = Open(q)
  BY <1>1, <1>2 DEF Open
<1>4. UNCHANGED <<Insiders, Outsiders, Forkers, Born, Living>>
  BY <1>1, <1>3 DEF Insiders, Outsiders, Forkers, Born, Living, Alive, At
<1>5. kst[wpid] = "stopped" => wpid \in Debt /\ Debt' = Debt \ {wpid}
  BY <1>1, <1>2, <1>3, <1>4 DEF Debt, At, Open, Outsiders
<1>6. kst[wpid] = "zombie" => Debt' = Debt
  BY <1>1, <1>3, <1>4 DEF Debt, At
<1>7. CountInv'
  <2>1. CASE Alive(wpid) /\ known[wpid] /\ expect[wpid]
    <3>1. Send /\ kst[wpid] = "stopped"
      BY <1>1, <2>1 DEF HandleExec, Alive
    <3>2. CASE queue' = queue + 1 /\ UNCHANGED dropped
      BY <1>1, <1>5, <3>1, <3>2, DebtPaid DEF InStep, Calm
    <3>3. CASE UNCHANGED queue /\ (dropped' \/ cancelled)
      <4>1. ~InStep'
        BY <1>1, <3>3 DEF InStep, Calm
      <4> QED
        BY <1>1, <1>5, <3>1, <3>3, <4>1, DebtKept
    <3> QED
      BY <3>1, <3>2, <3>3 DEF Send
  <2>2. CASE ~(Alive(wpid) /\ known[wpid] /\ expect[wpid])
    <3>1. UNCHANGED events
      BY <2>2 DEF HandleExec, SendNothing
    <3>2. ~InStep
      <4>1. CASE kst[wpid] = "zombie"
        BY <1>1, <4>1 DEF CalmInv, InStep
      <4>2. CASE kst[wpid] = "stopped"
        <5>1. wpid \in Insiders /\ Alive(wpid)
          BY <1>1, <4>2 DEF Insiders, At, Alive
        <5>2. known[wpid]
          BY <1>1, <5>1 DEF KnownInv
        <5>3. overtaken[wpid]
          BY <2>2, <5>1, <5>2 DEF PhaseInv
        <5> QED
          BY <1>1, <5>3 DEF InStep
      <4> QED
        BY <1>1, <4>1, <4>2
    <3>3. ~InStep'
      BY <1>1, <3>1, <3>2 DEF InStep, Calm
    <3> QED
      BY <1>1, <1>5, <1>6, <3>1, <3>3, DebtKept
  <2> QED
    BY <2>1, <2>2
<1>8. PhaseInv' /\ KnownInv' /\ CoverInv'
  BY <1>1, <1>2, <1>4 DEF PhaseInv, KnownInv, CoverInv, Calm
<1>9. HandInv' /\ BirthInv'
  BY <1>1, <1>2, MainIsProc DEF HandInv, BirthInv
<1>10. CalmInv' /\ DoneInv'
  BY <1>1, <1>2 DEF CalmInv, DoneInv, Calm
<1> QED
  BY <1>7, <1>8, <1>9, <1>10

(* The event of a fork: the child is in nobody's hand any more, and a      *)
(* record it already had is lost.                                          *)
LEMMA HandleForkEvents ==
  ASSUME IInv, IInv', EventInv, HandleFork
  PROVE  EventInv'
<1> USE DEF EventInv
<1>1. /\ wpid \in Procs /\ tpc = "handle" /\ wst = "fork"
      /\ kst[wpid] \in {"stopped", "zombie"} /\ why[wpid] = "fork"
      /\ kst[wpid] = "stopped" => ~unseen[wpid]
      /\ tpc' = "top" /\ callPid' = wpid
      /\ UNCHANGED <<kernel, bounds, returns, wpid, wst, events, reading, sigs>>
  BY DEF HandleFork, Again, HandInv, IInv, TypeOK, TracerTypeOK
<1>2. \A q \in Procs \ {wpid} : Open(q)' = Open(q)
  BY <1>1 DEF Open
<1>3. UNCHANGED <<Insiders, Outsiders, Born, Living>>
  BY <1>1, <1>2 DEF Insiders, Outsiders, Born, Living, Alive, At
<1>4. HandInv' /\ CalmInv' /\ DoneInv'
  BY <1>1 DEF HandInv, CalmInv, DoneInv, Calm
<1>5. CASE ~Alive(wpid)
  <2>1. UNCHANGED records /\ kst[wpid] = "zombie"
    BY <1>1, <1>5 DEF HandleFork, Alive
  <2>2. UNCHANGED <<Forkers, Debt>>
    BY <1>1, <1>2, <1>3, <2>1 DEF Forkers, Debt, At
  <2>3. PhaseInv' /\ KnownInv' /\ CountInv' /\ CoverInv'
    BY <1>1, <1>3, <2>1, <2>2, PlacesKept DEF Calm
  <2>4. BirthInv'
    BY <1>1, <2>1 DEF BirthInv
  <2> QED
    BY <1>4, <2>3, <2>4
<1>6. CASE Alive(wpid)
  <2> DEFINE q == child[wpid]
  <2>1. /\ wpid \in Forkers /\ wpid \in Insiders
        /\ Forkers' = Forkers \ {wpid}
    BY <1>1, <1>2, <1>6 DEF Forkers, Insiders, At, Open, Alive
  <2>2. q \in Procs /\ q # wpid /\ ~overtaken[q] /\ kst[q] # "unborn"
    BY <1>1, <2>1 DEF PhaseInv, BirthInv
  <2>3. \A r \in Forkers : r # wpid => child[r] # q
    BY <1>1, <2>2, MainIsProc DEF BirthInv, Forkers
  <2>4. /\ known'[q] /\ ~expect'[q]
        /\ overtaken'[q] = (known[q] /\ expect[q])
        /\ \A r \in Procs \ {q} :
             /\ known'[r] = known[r] /\ expect'[r] = expect[r]
             /\ overtaken'[r] = overtaken[r]
        /\ mainKids' = (mainKids \/ (wpid = main /\ known[main]))
    BY <1>6, <2>2 DEF HandleFork, IInv, TypeOK, TracerTypeOK
  <2> HIDE DEF q
  <2>5. expect[q] => known[q]
    BY <1>1, <2>2 DEF KnownInv
  <2>6. Debt' \subseteq Debt
    BY <1>1, <1>2, <1>3, <2>2, <2>4 DEF Debt, At
  <2>7. InStep' => InStep /\ Debt' = Debt
    <3>1. SUFFICES ASSUME InStep' PROVE InStep /\ Debt \subseteq Debt'
      BY <2>6
    <3>2. ~overtaken'[q]
      BY <2>2, <3>1 DEF InStep
    <3>3. InStep
      BY <1>1, <2>2, <2>4, <3>1 DEF InStep, Calm
    <3>4. ~expect[q]
      BY <2>4, <2>5, <3>2
    <3>5. \A r \in Procs : expect[r] => expect'[r]
      BY <2>4, <3>4
    <3>6. ~At(wpid, {"exit", "exec"})
      BY <1>1 DEF At
    <3> QED
      BY <1>1, <1>2, <1>3, <3>3, <3>5, <3>6 DEF Debt, At
  <2>8. CountInv'
    BY <1>1, <2>6, <2>7, DebtKept
  <2>9. PhaseInv'
    <3>1. q \in Insiders => overtaken'[q]
      BY <2>2, <2>4, <2>5 DEF PhaseInv
    <3>2. \A r \in Forkers' : child'[r] \in Procs /\ ~overtaken'[child'[r]]
      BY <1>1, <2>1, <2>3, <2>4 DEF PhaseInv
    <3> QED
      BY <1>3, <2>4, <3>1, <3>2 DEF PhaseInv, Insiders, Outsiders
  <2>10. KnownInv'
    BY <1>1, <1>3, <2>4 DEF KnownInv
  <2>11. CoverInv'
    <3>1. \A r \in Procs : known[r] => known'[r]
      BY <2>4
    <3>2. known[wpid]
      BY <1>1, <2>1 DEF KnownInv
    <3>3. child' = child
      BY <1>1
    <3>4. SUFFICES ASSUME Calm PROVE /\ \A r \in Living \ {main} :
                                          known'[r] \/ \E x \in Forkers' : child[x] = r
                                     /\ Born \ {main} # {} =>
                                          mainKids' \/ main \in Forkers'
      BY <1>1, <1>3, <3>3 DEF CoverInv, Calm
    <3>5. ASSUME NEW r \in Living \ {main}
          PROVE  known'[r] \/ \E x \in Forkers' : child[x] = r
      <4>1. CASE known[r]
        BY <3>1, <4>1 DEF Living
      <4>2. CASE ~known[r]
        <5>1. PICK x \in Forkers : child[x] = r
          BY <1>1, <3>4, <4>2 DEF CoverInv
        <5>2. x = wpid => r = q
          BY <5>1 DEF q
        <5> QED
          BY <2>1, <2>4, <5>1, <5>2
      <4> QED
        BY <4>1, <4>2
    <3>6. ASSUME Born \ {main} # {} PROVE mainKids' \/ main \in Forkers'
      BY <1>1, <2>1, <2>4, <3>2, <3>4, <3>6 DEF CoverInv
    <3> QED
      BY <3>5, <3>6
  <2>12. BirthInv'
    BY <1>1, <2>2, <2>4 DEF BirthInv
  <2> QED
    BY <1>4, <2>8, <2>9, <2>10, <2>11, <2>12
<1> QED
  BY <1>5, <1>6
-----------------------------------------------------------------------------
(* The counting, the report and the signals. *)

LEMMA ReadingEvents ==
  ASSUME IInv, IInv', EventInv, EventNext
  PROVE  EventInv'
<1> USE DEF EventInv
<1>1. /\ UNCHANGED <<kernel, bounds, returns, tracer, dropped, sigs>>
      /\ \/ UNCHANGED <<counted, queue>>
         \/ counted' = counted + 1 /\ queue' = queue - 1
  BY DEF EventNext, ProcessEvent, ProcessorReturns, Wait
<1>2. UNCHANGED <<Insiders, Outsiders, Forkers, Born, Living>>
  BY <1>1 DEF Insiders, Outsiders, Forkers, Born, Living, Alive, At, Open
<1>3. UNCHANGED Debt
  BY <1>1, <1>2 DEF Debt, At, Open
<1>4. PhaseInv' /\ KnownInv' /\ CountInv' /\ CoverInv'
  BY <1>1, <1>2, <1>3, PlacesKept DEF Calm
<1>5. HandInv' /\ BirthInv' /\ CalmInv' /\ DoneInv'
  BY <1>1, <1>2 DEF HandInv, BirthInv, CalmInv, DoneInv, Calm, At
<1> QED
  BY <1>4, <1>5

LEMMA SignalEvents ==
  ASSUME IInv, IInv', EventInv, Signal \/ Cancel \/ Forward \/ UNCHANGED vars
  PROVE  EventInv'
<1> USE DEF EventInv
<1>1. /\ UNCHANGED <<kst, why, unseen, kind, child, kills, returns, tracer,
                     events, reading>>
      /\ cancelled => cancelled'
  BY DEF Signal, Cancel, Forward
<1>2. UNCHANGED <<Insiders, Outsiders, Forkers, Born, Living>>
  BY <1>1 DEF Insiders, Outsiders, Forkers, Born, Living, Alive, At, Open
<1>3. UNCHANGED Debt
  BY <1>1, <1>2 DEF Debt, At, Open
<1>4. PhaseInv' /\ KnownInv' /\ CountInv' /\ CoverInv'
  BY <1>1, <1>2, <1>3, PlacesKept DEF Calm
<1>5. HandInv' /\ BirthInv' /\ CalmInv' /\ DoneInv'
  BY <1>1, <1>2 DEF HandInv, BirthInv, CalmInv, DoneInv, Calm, At
<1> QED
  BY <1>4, <1>5

LEMMA InitEventInv == Init => EventInv
<1> SUFFICES ASSUME Init PROVE EventInv
  OBVIOUS
<1> USE MainIsProc DEF Init, EventInv
<1>1. Insiders = {} /\ Outsiders = {} /\ Forkers = {} /\ Debt = {}
  BY DEF Insiders, Outsiders, Forkers, Debt, At
<1>2. CountInv
  BY <1>1, FS_EmptySet DEF CountInv, CoveredInv, ExactInv
<1>3. HandInv /\ BirthInv
  BY DEF HandInv, BirthInv
<1>4. PhaseInv /\ KnownInv
  BY <1>1 DEF PhaseInv, KnownInv
<1>5. CalmInv /\ CoverInv /\ DoneInv
  BY DEF CalmInv, CoverInv, DoneInv, Living, Born, Alive
<1> QED
  BY <1>2, <1>3, <1>4, <1>5

LEMMA NextEventInv == IInv /\ EventInv /\ [Next]_vars => EventInv'
<1> SUFFICES ASSUME IInv, EventInv, [Next]_vars PROVE EventInv'
  OBVIOUS
<1>1. IInv'
  BY NextIInv
<1>2. ASSUME NEW p \in Procs, tpc # "done", TraceeNext(p) PROVE EventInv'
  BY <1>1, <1>2, StopStep, ReturnStep, ForkStep DEF TraceeNext
<1>3. ASSUME NEW p \in Procs, tpc # "done", Kill(p) PROVE EventInv'
  <2>1. ~Calm'
    BY <1>3 DEF Kill, Calm, IInv, TypeOK, BoundTypeOK
  <2> QED
    BY <1>1, <1>3, <2>1, DeathStep DEF Kill
<1>4. CASE CancelKills
  <2>1. ~Calm'
    BY <1>4 DEF CancelKills, Die, Calm
  <2> QED
    BY <1>1, <1>4, <2>1, DeathStep, MainIsProc DEF CancelKills
<1>5. CASE TracerNext
  BY <1>1, <1>5, LaunchEvents, AttachEvents, CancelledEvents, TopEvents,
     NoChildEvents, Wait4Events, HandleDeadEvents, HandleSyscallEvents,
     HandleForkEvents, HandleExecEvents, HandleOtherEvents DEF TracerNext
<1>6. CASE EventNext
  BY <1>1, <1>6, ReadingEvents
<1>7. CASE SignalStop
  BY <1>1, <1>7, StopStep, MainIsProc
<1>8. CASE Signal \/ Cancel \/ Forward \/ UNCHANGED vars
  BY <1>1, <1>8, SignalEvents
<1> QED
  BY <1>2, <1>3, <1>4, <1>5, <1>6, <1>7, <1>8 DEF Next, SignalNext

LEMMA EventInvariance == Spec => [](IInv /\ EventInv)
<1>1. Init => IInv /\ EventInv
  BY InitIInv, InitEventInv
<1>2. IInv /\ EventInv /\ [Next]_vars => (IInv /\ EventInv)'
  BY NextIInv, NextEventInv
<1> QED
  BY <1>1, <1>2, PTL DEF Spec
-----------------------------------------------------------------------------
(* The toggle of a record that was not replaced agrees with the kernel,    *)
(* and a trace that ended by itself owes nothing to anybody.               *)
LEMMA Accounted == IInv /\ EventInv => EventsAccounted
<1> SUFFICES ASSUME IInv, EventInv PROVE EventsAccounted
  OBVIOUS
<1> USE DEF EventInv
<1>1. Paired
  <2>1. SUFFICES ASSUME tpc \in {"top", "wait"}, NEW p \in Procs, Alive(p),
                        ~Leaving(p), ~overtaken[p]
                 PROVE  expect[p] <=> InCall(p)
    BY DEF Paired
  <2>2. Open(p) <=> unseen[p]
    BY <2>1 DEF Open
  <2>3. kst[p] \in States /\ why[p] \in Stops
    BY DEF IInv, TypeOK, KernelTypeOK
  <2>4. /\ InCall(p) <=> p \in Insiders
        /\ ~InCall(p) <=> p \in Outsiders
    BY <2>1, <2>2, <2>3 DEF InCall, Leaving, Alive, Insiders, Outsiders, At
  <2> QED
    BY <2>1, <2>4 DEF PhaseInv
<1>2. counted \in Nat /\ queue \in Nat /\ returns \in Nat
  BY DEF IInv, TypeOK, BoundTypeOK, EventTypeOK
<1>3. NothingInvented
  BY <1>2, DebtFinite DEF NothingInvented, CountInv, CoveredInv
<1>4. NothingLost
  <2>1. SUFFICES ASSUME tpc = "done", InStep PROVE counted + queue = returns
    BY DEF NothingLost, InStep, Calm
  <2>2. \A p \in Living : At(p, {"exiting"})
    BY <2>1 DEF DoneInv, InStep
  <2>3. Debt = {}
    BY <2>2 DEF Debt, Outsiders, Living, Alive, At
  <2> QED
    BY <1>2, <2>1, <2>3, FS_EmptySet DEF CountInv, ExactInv
<1> QED
  BY <1>1, <1>3, <1>4 DEF EventsAccounted

(* Each event is a call that returned, and each call that returned is an   *)
(* event unless the channel was full, a process was killed or a record was *)
(* replaced within a call.                                                 *)
THEOREM EventsOfCalls == Spec => []EventsAccounted
  BY EventInvariance, Accounted, PTL

(* A trace nobody cancelled, of processes nobody killed, ends when all     *)
(* processes but the exiting command are finished.                         *)
THEOREM FinishedWhenDone == Spec => []DoneMeansFinished
<1>1. IInv /\ EventInv => DoneMeansFinished
  BY DEF EventInv, DoneInv, Calm, DoneMeansFinished, Living, At
<1> QED
  BY <1>1, EventInvariance, PTL
=============================================================================
