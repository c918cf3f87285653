-------------------------------- MODULE Shu ---------------------------------
(***************************************************************************)
(* tw shu wait runs a command once every TCP target has accepted a         *)
(* connection; tw shu retry runs one until it succeeds.  Both run under    *)
(* one deadline for everything they do: waiters, pauses and commands.  The *)
(* waiters are goroutines of an errgroup.  Targets go up and down as they  *)
(* like.                                                                   *)
(***************************************************************************)
EXTENDS Integers

CONSTANTS
  Targets,      \* the --tcp targets of wait
  Attempts,     \* what --attempts may be
  UintMax,      \* the largest unsigned integer
  MaxFlips,     \* bound: times a target goes up or down
  MaxAttempts   \* bound: attempts of a retry without end

ASSUME ShuAssumption ==
  /\ Attempts \subseteq Int /\ UintMax \in Nat
  /\ \A a \in Attempts : a + UintMax >= 0 /\ a <= UintMax
  /\ MaxFlips \in Nat /\ MaxAttempts \in Nat

VARIABLES
  cmd,          \* "wait" or "retry"
  hasCommand,   \* wait is given a command
  zero,         \* --timeout is 0
  attempts,     \* --attempts
  ctx,          \* "live", "expired" or "interrupted"
  up, flips,    \* targets that accept connections
  waiter,       \* the goroutine of each target
  main,         \* the main goroutine
  attempt,      \* attempts begun
  exit,
  met,          \* targets that have been up since the start (history)
  won, lost     \* attempts whose command succeeded, failed (history)

flags == <<cmd, hasCommand, zero, attempts>>
network == <<up, flips, met>>
results == <<won, lost>>
vars == <<flags, ctx, network, waiter, main, attempt, exit, results>>

(* A context with timeout 0 has expired when it is made.                   *)
Init ==
  /\ cmd \in {"wait", "retry"}
  /\ hasCommand \in IF cmd = "wait" THEN BOOLEAN ELSE {TRUE}
  /\ zero \in BOOLEAN /\ attempts \in Attempts
  /\ ctx = IF zero THEN "expired" ELSE "live"
  /\ up \in SUBSET Targets /\ met = up /\ flips = 0
  /\ waiter = [t \in Targets |-> "check"]
  /\ main = IF cmd = "wait" THEN "join" ELSE "do"
  /\ attempt = 0 /\ exit = -1
  /\ won = {} /\ lost = {}

Ended == main = "ended"
Return(code) == main' = "ended" /\ exit' = code

Flip ==
  /\ ~Ended /\ flips < MaxFlips
  /\ \E t \in Targets :
       up' = IF t \in up THEN up \ {t} ELSE up \cup {t}
  /\ met' = met \cup up' /\ flips' = flips + 1
  /\ UNCHANGED <<flags, ctx, waiter, main, attempt, exit, results>>

Deadline ==
  /\ ~Ended /\ ctx = "live"
  /\ ctx' = "expired"
  /\ UNCHANGED <<flags, network, waiter, main, attempt, exit, results>>

(* retry takes SIGINT and SIGTERM, wait dies of them.                      *)
Interrupt ==
  /\ ~Ended /\ ctx = "live" /\ cmd = "retry"
  /\ ctx' = "interrupted"
  /\ UNCHANGED <<flags, network, waiter, main, attempt, exit, results>>
-----------------------------------------------------------------------------
(* wait.                                                                   *)

(* The group's context: the first error cancels it.                        *)
Cancelled == ctx # "live" \/ \E t \in Targets : waiter[t] = "failed"

Goto(t, place) ==
  /\ waiter' = [waiter EXCEPT ![t] = place]
  /\ UNCHANGED <<flags, ctx, network, main, attempt, exit, results>>

Check(t) ==
  /\ cmd = "wait" /\ waiter[t] = "check"
  /\ Goto(t, IF Cancelled THEN "failed" ELSE "dial")

(* A target that is up accepts, if the dial timeout and the context allow. *)
Reached_Refused(t) == TRUE             \* fault: a refused connection counts
Reached(t) == t \in up

Dial(t) ==
  /\ cmd = "wait" /\ waiter[t] = "dial"
  /\ Goto(t, "sleep") \/ (Reached(t) /\ Goto(t, "up"))

Sleep(t) ==
  /\ cmd = "wait" /\ waiter[t] = "sleep"
  /\ Goto(t, "check") \/ (Cancelled /\ Goto(t, "failed"))

(* exec's Start looks at the context once more.                           *)
Fail == IF cmd = "wait" THEN Return(1) ELSE main' = "failed" /\ UNCHANGED exit

Start == IF ctx = "live" THEN main' = "running" /\ UNCHANGED exit ELSE Fail

Joined == \A t \in Targets : waiter[t] \in {"up", "failed"}

Join ==
  /\ main = "join" /\ Joined
  /\ IF \E t \in Targets : waiter[t] = "failed" THEN Return(1)
     ELSE IF hasCommand THEN Start
     ELSE Return(0)
  /\ UNCHANGED <<flags, ctx, network, waiter, attempt, results>>
-----------------------------------------------------------------------------
(* The command, which is killed if it runs when the context ends, unless   *)
(* it ends first.                                                          *)

Succeed ==
  /\ main = "running"
  /\ won' = won \cup {attempt} /\ UNCHANGED lost
  /\ Return(0)
  /\ UNCHANGED <<flags, ctx, network, waiter, attempt>>

CommandFails ==
  /\ main = "running"
  /\ lost' = lost \cup {attempt} /\ UNCHANGED won
  /\ Fail
  /\ UNCHANGED <<flags, ctx, network, waiter, attempt>>

Killed == ctx # "live" /\ CommandFails
-----------------------------------------------------------------------------
(* retry.                                                                  *)

(* The conversion of --attempts to uint; 0 stands for no limit.            *)
Limit == IF attempts < 0 THEN UintMax + 1 + attempts ELSE attempts

Do ==
  /\ main = "do"
  /\ IF ctx = "live" THEN main' = "attempt" /\ UNCHANGED exit ELSE Return(1)
  /\ UNCHANGED <<flags, ctx, network, waiter, attempt, results>>

Attempt ==
  /\ main = "attempt"
  /\ attempt' = attempt + 1
  /\ Start
  /\ UNCHANGED <<flags, ctx, network, waiter, results>>

(* No pause after the last attempt.                                        *)
LastAttempt_Next == Limit # 0 /\ attempt + 1 >= Limit  \* fault: one too few
LastAttempt_Late == Limit # 0 /\ attempt > Limit       \* fault: one too many
LastAttempt == Limit # 0 /\ attempt = Limit

Failed ==
  /\ main = "failed"
  /\ IF LastAttempt THEN Return(1) ELSE main' = "pause" /\ UNCHANGED exit
  /\ UNCHANGED <<flags, ctx, network, waiter, attempt, results>>

(* The timer and the end of the context race when both are there.          *)
Resume ==
  /\ main = "pause" /\ attempt < MaxAttempts
  /\ main' = "attempt"
  /\ UNCHANGED <<flags, ctx, network, waiter, attempt, exit, results>>

StopsPause_Deadline == ctx = "expired"  \* fault: a signal does not end it
StopsPause == ctx # "live"

Stop ==
  /\ main = "pause" /\ StopsPause
  /\ Return(1)
  /\ UNCHANGED <<flags, ctx, network, waiter, attempt, results>>

Wait(t) == Check(t) \/ Dial(t) \/ Sleep(t)
Retry == Do \/ Attempt \/ Failed

Next ==
  \/ Flip \/ Deadline \/ Interrupt
  \/ \E t \in Targets : Wait(t)
  \/ Join \/ Succeed \/ CommandFails
  \/ Retry \/ Resume \/ Stop

(* The deadline comes, goroutines run, a killed command dies, and a select *)
(* with several ready cases takes each of them sooner or later.  A command *)
(* may run for ever, a target may never come up.                           *)
Spec ==
  /\ Init /\ [][Next]_vars
  /\ WF_vars(Deadline) /\ WF_vars(Killed)
  /\ \A t \in Targets : WF_vars(Wait(t))
  /\ WF_vars(Join) /\ WF_vars(Retry) /\ SF_vars(Stop)
-----------------------------------------------------------------------------
(* Properties.                                                             *)

(* Every variable keeps its type, and attempts their limit.                *)
TypeOK ==
  /\ cmd \in {"wait", "retry"} /\ hasCommand \in BOOLEAN /\ zero \in BOOLEAN
  /\ attempts \in Attempts
  /\ ctx \in {"live", "expired", "interrupted"}
  /\ up \subseteq met /\ met \subseteq Targets /\ flips \in 0 .. MaxFlips
  /\ waiter \in [Targets -> {"check", "dial", "sleep", "up", "failed"}]
  /\ main \in {"join", "running", "do", "attempt", "failed", "pause", "ended"}
  /\ attempt \in Nat /\ (Limit # 0 => attempt <= Limit)
  /\ exit \in {-1, 0, 1} /\ (Ended <=> exit # -1)
  /\ won \subseteq Nat /\ lost \subseteq Nat

(* A command starts, and wait without one succeeds, only after each target *)
(* has been up since the start; retry starts a command only while none has *)
(* succeeded.  A target that was up may be down again by then.             *)
RunsWhenReady ==
  main = "running" \/ won \cup lost # {} \/ exit = 0 =>
    /\ cmd = "wait" => met = Targets
    /\ main = "running" => won = {}

(* The exit code says what happened: 0 that the last command succeeded, or *)
(* that there was none to run; 1 that the time was over or a signal came,  *)
(* that wait's command failed, or that as many attempts as the flag says   *)
(* were made and each of them failed.                                      *)
ExitEarned ==
  /\ exit = 0 => (cmd = "wait" /\ ~hasCommand) \/ attempt \in won
  /\ exit = 1 =>
       /\ attempt \notin won
       /\ \/ ctx # "live"
          \/ cmd = "wait" /\ 0 \in lost
          \/ /\ cmd = "retry" /\ attempts # 0
             /\ 1 .. attempt \subseteq lost
             /\ attempt = IF attempts > 0 THEN attempts
                                           ELSE UintMax + 1 + attempts

(* Every run ends, whatever the targets and the command do, on the         *)
(* deadline if on nothing else; without limit of attempts too.             *)
Terminates == <>Ended

(* "Timeout for the wait (0 for no timeout)": with --timeout 0 only the    *)
(* command can fail.                                                       *)
ZeroMeansNoTimeout == cmd = "wait" /\ zero /\ exit = 1 => won \cup lost # {}
=============================================================================
