------------------------------ MODULE MCPtrace ------------------------------
(* Ptrace with a command and one child, which may overtake its parent's    *)
(* fork event; one fork and one other call between them, one SIGKILL and   *)
(* one signal; a channel of one event, so that it fills up.                *)
EXTENDS Ptrace
MCNProcs == 2
MCQueueCap == 1
MCMaxCalls == 2
MCMaxKills == 1
MCMaxSignals == 1
=============================================================================
