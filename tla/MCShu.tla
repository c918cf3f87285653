------------------------------- MODULE MCShu -------------------------------
(* Shu with two targets that change three times, and with no, negative and *)
(* small limits of attempts; unsigned integers end at 3.                   *)
EXTENDS Shu
MCTargets == {"t1", "t2"}
MCAttempts == {-1, 0, 1, 2}
MCUintMax == 3
MCMaxFlips == 3
MCMaxAttempts == 4
=============================================================================
