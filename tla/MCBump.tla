------------------------------- MODULE MCBump -------------------------------
(* Bump with two packages, versions 1 and 2 and one that does not parse,   *)
(* files of up to two lines, up to two updates and one repetition.         *)
EXTENDS Bump
MCPackages == {"p", "q"}
MCVersions == 0 .. 2
MCMaxLines == 2
MCMaxUpdates == 2
MCMaxRuns == 2
=============================================================================
