----------------------------- MODULE SerialTests -----------------------------
(***************************************************************************)
(* What gosh promises about a script with gt_* functions 1..NTests: they   *)
(* run one at a time and in order, whether or not an earlier one failed,   *)
(* and a verdict, once given, is the one the function's exit code earned.  *)
(* (README.md "Each gt_* function is run serially, in the order it is      *)
(* defined"; testdata/full.sh "test execution is serial but independent".) *)
(* The runner may give the verdict of a test after the next one has begun. *)
(***************************************************************************)
EXTENDS Naturals

CONSTANT NTests   \* number of gt_* functions of the script

VARIABLES
  phase,    \* phase[i]: "waiting", "running" or "ended"
  code,     \* code[i]: exit code of the ended test i (0 or 1), 0 before
  verdict   \* verdict[i]: "none", "pass" or "fail"

vars == <<phase, code, verdict>>

Tests == 1 .. NTests

Init ==
  /\ phase = [i \in Tests |-> "waiting"]
  /\ code = [i \in Tests |-> 0]
  /\ verdict = [i \in Tests |-> "none"]

(* Test i starts when all its predecessors have ended. *)
Begin(i) ==
  /\ phase[i] = "waiting"
  /\ \A j \in 1 .. i - 1 : phase[j] = "ended"
  /\ phase' = [phase EXCEPT ![i] = "running"]
  /\ UNCHANGED <<code, verdict>>

End(i) ==
  /\ phase[i] = "running"
  /\ phase' = [phase EXCEPT ![i] = "ended"]
  /\ \E c \in {0, 1} : code' = [code EXCEPT ![i] = c]
  /\ UNCHANGED verdict

(* A verdict is given once, after the test has ended, and follows its code. *)
Judge(i) ==
  /\ phase[i] = "ended"
  /\ verdict[i] = "none"
  /\ verdict' = [verdict EXCEPT ![i] = IF code[i] = 0 THEN "pass" ELSE "fail"]
  /\ UNCHANGED <<phase, code>>

Next == \E i \in Tests : Begin(i) \/ End(i) \/ Judge(i)

Spec == Init /\ [][Next]_vars
=============================================================================
