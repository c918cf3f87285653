----------------------------- MODULE MCUsrMerge -----------------------------
(* UsrMerge with two names, targets in the directories that are merged and *)
(* outside of them, relative and absolute, odd ones of each kind, and one  *)
(* repetition.                                                             *)
EXTENDS UsrMerge
MCNames == {"f", "g"}
MCRoot == <<"home", "out">>
MCNewDir == <<"usr", "bin">>
MCSources == {<<"bin">>, <<"sbin">>, <<"usr", "sbin">>}
MCCommands == {<<<<"bin">>, <<"sbin">>, <<"usr", "sbin">>>>,
               <<<<"usr", "sbin">>>>}
MCTexts ==
  {[abs |-> FALSE, segs |-> s] : s \in {<<"g">>, <<"..", "sbin", "g">>,
     <<"..", "usr", "bin", "g">>, <<"..", "..", "opt", "g">>,
     <<"..", "sbin", ".">>, <<"..", "opt", "f", "..">>,
     <<"..", "..", "..", "home", "out", "bin", "g">>}}
  \cup {[abs |-> TRUE, segs |-> s] : s \in {<<"opt", "g">>, <<>>}}
MCMaxEntries == 2
MCMaxRuns == 2
=============================================================================
