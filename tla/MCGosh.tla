------------------------------- MODULE MCGosh -------------------------------
(* Gosh with two tests, enough for one to be judged while the next runs,   *)
(* and one line per pipe, enough to overrun, to block and to be lost.      *)
EXTENDS Gosh
MCNTests == 2
MCMaxLines == 2
MCPipeCap == 1
=============================================================================
