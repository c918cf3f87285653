----------------------------- MODULE MCLogGrep -----------------------------
(* LogGrep with two patterns, two lines in two logs, and one retry.        *)
EXTENDS LogGrep
MCPatterns == {"p", "q"}
MCStreams == {"stdout", "stderr"}
MCStdout == "stdout"
MCMaxExpected == 2
MCMaxLines == 2
MCMaxRetry == 1
=============================================================================
