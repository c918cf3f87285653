----------------------------- MODULE ShuProofs ------------------------------
(***************************************************************************)
(* The properties of Shu for any targets, numbers of attempts and width of *)
(* an unsigned integer.                                                    *)
(***************************************************************************)
EXTENDS Shu, TLAPS

(* Each command has its places in the code. *)
PlaceInv ==
  /\ cmd = "wait" => attempt = 0 /\ main \in {"join", "running", "ended"}
  /\ cmd = "retry" => main # "join"

(* A waiter that is done has seen its target up, or the end of the context *)
(* that all share; who has waited for the others has seen them all.        *)
WaiterInv ==
  /\ \A t \in Targets : /\ waiter[t] = "up" => t \in met
                        /\ waiter[t] = "failed" => ctx # "live"
  /\ cmd = "wait" /\ (main = "running" \/ won \cup lost # {} \/ exit = 0) => met = Targets

(* Only the last command can have succeeded, and then the process is over. *)
(* As long as the context lives, each attempt that was begun has failed.   *)
ResultInv ==
  /\ won \cup lost \subseteq 0 .. attempt
  /\ won # {} => won = {attempt} /\ exit = 0
  /\ cmd = "wait" /\ main \in {"join", "running"} => won \cup lost = {}
  /\ cmd = "retry" /\ ctx = "live" =>
       /\ 1 .. attempt - 1 \subseteq lost
       /\ main \in {"do", "attempt", "failed", "pause"} => 1 .. attempt \subseteq lost

(* There is an attempt left where one may follow. *)
LimitInv ==
  /\ main = "do" => attempt = 0
  /\ main \in {"do", "attempt", "pause"} /\ Limit # 0 => attempt < Limit

(* The exit code was earned, in terms of the limit. *)
EndInv ==
  /\ exit = 0 => (cmd = "wait" /\ ~hasCommand) \/ attempt \in won
  /\ exit = 1 =>
       \/ ctx # "live"
       \/ cmd = "wait" /\ 0 \in lost
       \/ cmd = "retry" /\ LastAttempt /\ 1 .. attempt \subseteq lost

IInv == TypeOK /\ PlaceInv /\ WaiterInv /\ ResultInv /\ LimitInv /\ EndInv

(* The conversion of --attempts never gives less than 0. *)
LEMMA LimitNat == TypeOK => Limit \in Nat
  BY ShuAssumption DEF TypeOK, Limit

(* The invariant holds at the start. *)
LEMMA InitInv == Init => IInv
<1> SUFFICES ASSUME Init PROVE IInv
  OBVIOUS
<1>1. TypeOK
  <2>1. attempts \in Int /\ Limit \in Nat
    BY ShuAssumption DEF Init, Limit
  <2>2. hasCommand \in BOOLEAN /\ zero \in BOOLEAN /\ ctx \in {"live", "expired"}
    BY DEF Init
  <2> QED
    BY <2>1, <2>2, ShuAssumption DEF Init, TypeOK, Ended
<1> QED
  BY <1>1, LimitNat DEF Init, IInv, PlaceInv, WaiterInv, ResultInv, LimitInv, EndInv

(* Targets come and go, and the context may end. *)
LEMMA EnvironmentStep ==
  ASSUME IInv, Flip \/ Deadline \/ Interrupt
  PROVE  IInv'
<1> USE DEF IInv, PlaceInv, WaiterInv, ResultInv, LimitInv, EndInv, Limit, LastAttempt
<1>1. CASE Flip
  <2>1. TypeOK' /\ met \subseteq met' /\ (met = Targets => met' = Targets)
    <3>1. up' \subseteq Targets /\ up' \subseteq met' /\ met \subseteq met'
      BY <1>1 DEF Flip, TypeOK
    <3>2. met' \subseteq Targets /\ flips' \in 0 .. MaxFlips
      BY <1>1, <3>1, ShuAssumption DEF Flip, TypeOK
    <3> QED
      BY <1>1, <3>1, <3>2 DEF Flip, flags, results, TypeOK, Ended
  <2> QED
    BY <1>1, <2>1 DEF Flip, flags, results
<1>2. CASE Deadline \/ Interrupt
  <2>1. /\ ctx' \in {"expired", "interrupted"}
        /\ UNCHANGED <<flags, network, waiter, main, attempt, exit, results>>
    BY <1>2 DEF Deadline, Interrupt
  <2>2. TypeOK'
    BY <2>1 DEF flags, network, results, TypeOK, Ended
  <2> QED
    BY <2>1, <2>2 DEF flags, network, results
<1> QED
  BY <1>1, <1>2

(* A goroutine of wait takes a step. *)
LEMMA WaiterStep ==
  ASSUME IInv, NEW t \in Targets, Wait(t)
  PROVE  IInv'
<1> USE DEF IInv, PlaceInv, WaiterInv, ResultInv, LimitInv, EndInv, Limit, LastAttempt
<1>1. PICK place \in {"check", "dial", "sleep", "up", "failed"} :
        /\ Goto(t, place)
        /\ place = "up" => t \in up
        /\ place = "failed" => ctx # "live"
  BY DEF Wait, Check, Dial, Sleep, Reached, Cancelled, Goto
<1>2. TypeOK'
  BY <1>1 DEF Goto, flags, network, results, TypeOK, Ended
<1>3. WaiterInv'
  BY <1>1, <1>2 DEF Goto, flags, network, results, TypeOK
<1> QED
  BY <1>1, <1>2, <1>3 DEF Goto, flags, network, results

(* wait has joined its goroutines. *)
LEMMA JoinStep ==
  ASSUME IInv, Join
  PROVE  IInv'
<1> USE DEF IInv, PlaceInv, WaiterInv, ResultInv, LimitInv, EndInv, Limit, LastAttempt
<1>1. TypeOK'
  BY DEF Join, Return, Start, Fail, flags, network, results, TypeOK, Ended
<1>2. (\A t \in Targets : waiter[t] # "failed") => met = Targets
  BY DEF Join, Joined, TypeOK
<1> QED
  BY <1>1, <1>2 DEF Join, Return, Start, Fail, flags, network, results, TypeOK, Ended

(* The command ends. *)
LEMMA CommandStep ==
  ASSUME IInv, Succeed \/ CommandFails
  PROVE  IInv'
<1> USE DEF IInv, PlaceInv, WaiterInv, ResultInv, LimitInv, EndInv, Limit, LastAttempt
<1>1. attempt \in Nat /\ won = {}
  BY DEF TypeOK, Ended, Succeed, CommandFails
<1>2. TypeOK'
  <2>1. CASE Succeed
    BY <1>1, <2>1 DEF Succeed, Return, flags, network, results, TypeOK, Ended
  <2>2. CASE CommandFails
    BY <1>1, <2>2 DEF CommandFails, Return, Fail, flags, network, results, TypeOK, Ended
  <2> QED
    BY <2>1, <2>2
<1>3. PlaceInv' /\ WaiterInv' /\ LimitInv'
  BY <1>1, <1>2 DEF Succeed, CommandFails, Return, Fail, flags, network, results, TypeOK, Ended
<1>4. CASE Succeed
  BY <1>1, <1>2, <1>3, <1>4 DEF Succeed, Return, flags, network, results, TypeOK, Ended
<1>5. CASE CommandFails
  <2>1. ResultInv'
    BY <1>1, <1>2, <1>3, <1>5 DEF CommandFails, Return, Fail, flags, network, results, TypeOK, Ended
  <2>2. EndInv'
    BY <1>1, <1>2, <1>3, <1>5 DEF CommandFails, Return, Fail, flags, network, results, TypeOK, Ended
  <2> QED
    BY <1>2, <1>3, <2>1, <2>2
<1> QED
  BY <1>4, <1>5

(* retry begins an attempt, goes on after one, or stops. *)
LEMMA RetryStep ==
  ASSUME IInv, Retry \/ Resume \/ Stop
  PROVE  IInv'
<1> USE DEF IInv, PlaceInv, WaiterInv, ResultInv, LimitInv, EndInv, Limit, LastAttempt
<1>1. attempt \in Nat /\ Limit \in Nat
  BY LimitNat DEF TypeOK
<1>2. cmd = "retry"
  BY DEF Retry, Do, Attempt, Failed, Resume, Stop, TypeOK
<1>3. CASE Do
  BY <1>1, <1>2, <1>3 DEF Do, Return, flags, network, results, TypeOK, Ended
<1>4. CASE Attempt
  BY <1>1, <1>2, <1>4 DEF Attempt, Start, Fail, flags, network, results, TypeOK, Ended
<1>5. CASE Failed
  BY <1>1, <1>2, <1>5 DEF Failed, Return, flags, network, results, TypeOK, Ended
<1>6. CASE Resume
  BY <1>1, <1>2, <1>6 DEF Resume, flags, network, results, TypeOK, Ended
<1>7. CASE Stop
  BY <1>1, <1>2, <1>7 DEF Stop, StopsPause, Return, flags, network, results, TypeOK, Ended
<1> QED
  BY <1>3, <1>4, <1>5, <1>6, <1>7 DEF Retry

(* The invariant holds in every reachable state. *)
THEOREM Invariance == Spec => []IInv
<1>1. Init => IInv
  BY InitInv
<1>2. IInv /\ [Next]_vars => IInv'
  <2> SUFFICES ASSUME IInv, [Next]_vars PROVE IInv'
    OBVIOUS
  <2>1. CASE Next
    BY <2>1, EnvironmentStep, WaiterStep, JoinStep, CommandStep, RetryStep DEF Next
  <2>2. CASE UNCHANGED vars
    BY <2>2 DEF vars, flags, network, results, IInv, TypeOK, Ended, PlaceInv, WaiterInv,
                ResultInv, LimitInv, EndInv, Limit, LastAttempt
  <2> QED
    BY <2>1, <2>2
<1> QED
  BY <1>1, <1>2, PTL DEF Spec

(* Every variable keeps its type, and attempts the limit of the flag.      *)
THEOREM TypeCorrect == Spec => []TypeOK
<1>1. IInv => TypeOK
  BY DEF IInv
<1> QED
  BY <1>1, Invariance, PTL

(* Nothing runs, and wait does not succeed, before all targets were up;    *)
(* retry runs nothing after a success.                                     *)
THEOREM ReadyFirst == Spec => []RunsWhenReady
<1>1. IInv => RunsWhenReady
  BY DEF IInv, TypeOK, Ended, WaiterInv, ResultInv, RunsWhenReady
<1> QED
  BY <1>1, Invariance, PTL

(* An exit code of 1 without a reason in the context has used the attempts *)
(* that the flag gives, and each of them has failed.                       *)
THEOREM ExitCodeEarned == Spec => []ExitEarned
<1>1. IInv => ExitEarned
  <2> SUFFICES ASSUME IInv PROVE ExitEarned
    OBVIOUS
  <2>1. attempt \in won => exit = 0
    BY DEF IInv, TypeOK, ResultInv
  <2>2. LastAttempt =>
          attempts # 0 /\ attempt = IF attempts > 0 THEN attempts
                                                    ELSE UintMax + 1 + attempts
    BY ShuAssumption DEF IInv, TypeOK, LastAttempt, Limit
  <2> QED
    BY <2>1, <2>2 DEF IInv, EndInv, ExitEarned
<1> QED
  BY <1>1, Invariance, PTL
=============================================================================
