-------------------------------- MODULE Bump --------------------------------
(***************************************************************************)
(* tw bumpconstraints rewrites the pins of a constraints file: it copies   *)
(* the file to a backup, applies the updates in memory, and writes the     *)
(* file only if every update applies, else it restores the backup.  Each   *)
(* os.WriteFile truncates the file before it writes it; a write may fail,  *)
(* or the process die, at any point in between, and a pipeline may run the *)
(* same updates again.  A pin is a package, an operator and a version;     *)
(* every other line is blank, and a write cut short stops between lines.   *)
(* Versions are numbers in PEP 440's order, with 0 for the one that PEP    *)
(* 440 does not parse.  Comments and permissions are left out.             *)
(***************************************************************************)
EXTENDS Naturals, Sequences, SequencesExt

CONSTANTS
  Packages,     \* package names
  Versions,     \* versions; 0 is the one that does not parse
  MaxLines,     \* bound: lines of the first constraints file
  MaxUpdates,   \* bound: updates of one run
  MaxRuns       \* bound: runs of the command

ASSUME BumpAssumption ==
  /\ "" \notin Packages
  /\ Versions \subseteq Nat
  /\ MaxRuns \in Nat

Operators == {"==", ">="}
Pin == [pkg : Packages, op : Operators, ver : Versions]
Update == [pkg : Packages, ver : Versions]
Blank == [pkg |-> "", op |-> "==", ver |-> 0]
IsPin(line) == line # Blank

VARIABLES
  updates,      \* --updates-file, the same in every run
  onlyReplace,  \* --only-replace
  file, bak,    \* the constraints file and its backup, as lines
  pc,           \* "idle" or what the command is about to do
  outcome,      \* of the last run: "none", "ok", "failed" or "crashed"
  read, lines,  \* the lines read, and newLines
  n,            \* next update
  errors,       \* updateErrors.HasErrors()
  before,       \* the file at the start of this run (history)
  torn,         \* this run crashed or could not restore (history)
  settled,      \* an earlier run succeeded and nothing was torn since (history)
  runs          \* runs so far, for the bound

input == <<updates, onlyReplace>>
disk == <<file, bak>>
memory == <<read, lines, n, errors>>
past == <<before, settled, runs>>
vars == <<input, disk, pc, outcome, memory, past, torn>>

Init ==
  /\ updates \in BoundedSeq(Update, MaxUpdates)
  /\ onlyReplace \in BOOLEAN
  /\ file \in BoundedSeq(Pin \cup {Blank}, MaxLines)
  /\ bak = <<>>
  /\ pc = "idle" /\ outcome = "none"
  /\ read = <<>> /\ lines = <<>> /\ n = 1 /\ errors = FALSE
  /\ before = file /\ torn = FALSE /\ settled = FALSE /\ runs = 0

(* The command returns. *)
Return(result) == pc' = "idle" /\ outcome' = result

(* parsePackageUpdates refuses a package given twice. *)
Duplicates ==
  \E i, j \in DOMAIN updates : i # j /\ updates[i].pkg = updates[j].pkg

Start ==
  /\ pc = "idle"
  /\ runs < MaxRuns
  /\ runs' = runs + 1
  /\ before' = file
  /\ settled' = ((outcome = "ok" \/ settled) /\ ~torn)
  /\ torn' = FALSE
  /\ n' = 1 /\ errors' = FALSE /\ read' = <<>> /\ lines' = <<>>
  /\ IF Duplicates THEN Return("failed")
                   ELSE pc' = "backup" /\ outcome' = "none"
  /\ UNCHANGED <<input, disk>>

(* createBackup, before the deferred restore is in place. *)
OpenBackup_Once ==                     \* fault: an older backup is kept
  /\ pc = "backup"
  /\ UNCHANGED bak
  /\ pc' = IF bak = <<>> THEN "copy" ELSE "parse"
  /\ UNCHANGED <<input, file, outcome, memory, past, torn>>

OpenBackup ==
  /\ pc = "backup"
  /\ bak' = <<>>
  /\ pc' = "copy"
  /\ UNCHANGED <<input, file, outcome, memory, past, torn>>

WriteBackup ==
  /\ pc = "copy"
  /\ bak' = file
  /\ pc' = "parse"
  /\ UNCHANGED <<input, file, outcome, memory, past, torn>>

BackupFails ==
  /\ \/ pc = "backup" /\ UNCHANGED bak
     \/ pc = "copy" /\ bak' \in Prefixes(file)
  /\ Return("failed")
  /\ UNCHANGED <<input, file, memory, past, torn>>

(* parseConstraintsFile; its error restores the backup. *)
Parse ==
  /\ pc = "parse"
  /\ read' = file /\ lines' = file
  /\ pc' = "update"
  /\ UNCHANGED <<input, disk, outcome, n, errors, past, torn>>

ParseFails ==
  /\ pc = "parse"
  /\ pc' = "restore"
  /\ UNCHANGED <<input, disk, outcome, memory, past, torn>>

(* constraintMap keeps the last pin of a package, findConstraintLine finds *)
(* the first one.                                                          *)
LastPin(p) == SelectLastInSeq(read, LAMBDA line : line.pkg = p)
FirstPin(p) == SelectInSeq(read, LAMBDA line : line.pkg = p)

Refused_Never(old, new) == FALSE       \* fault: versions are not compared
Refused(old, new) == IF old # 0 /\ new # 0 THEN new <= old ELSE new = old

NewPin_Bare(u) ==                      \* fault: a new pin has no operator
  [pkg |-> u.pkg, op |-> "", ver |-> u.ver]
NewPin(u) == [pkg |-> u.pkg, op |-> "==", ver |-> u.ver]

(* One update. *)
Apply(u) ==
  LET last == LastPin(u.pkg) IN
  \/ /\ IF last = 0 THEN onlyReplace ELSE Refused(read[last].ver, u.ver)
     /\ errors' = TRUE
     /\ UNCHANGED lines
  \/ /\ last # 0 /\ ~Refused(read[last].ver, u.ver)
     /\ lines' = [lines EXCEPT ![FirstPin(u.pkg)] =
                     [pkg |-> u.pkg, op |-> read[last].op, ver |-> u.ver]]
     /\ UNCHANGED errors
  \/ /\ last = 0 /\ ~onlyReplace
     /\ lines' = Append(lines, NewPin(u))
     /\ UNCHANGED errors

ApplyNext ==
  /\ pc = "update"
  /\ n <= Len(updates)
  /\ Apply(updates[n])
  /\ n' = n + 1
  /\ UNCHANGED <<input, disk, pc, outcome, read, past, torn>>

Rejected == errors

AllApplied ==
  /\ pc = "update"
  /\ n > Len(updates)
  /\ pc' = IF Rejected THEN "restore" ELSE "write"
  /\ UNCHANGED <<input, disk, outcome, memory, past, torn>>

(* What strings.Join and the final newline make of the lines once they are *)
(* scanned again: an empty last line is lost, an empty file has one.       *)
Written(ls) ==
  IF ls = <<>> THEN <<Blank>>
  ELSE IF Len(ls) > 1 /\ Last(ls) = Blank THEN Front(ls) ELSE ls

OpenFile(at, next) ==
  /\ pc = at
  /\ file' = <<>>
  /\ pc' = next
  /\ UNCHANGED <<input, bak, outcome, memory, past, torn>>

(* writeConstraintsFile; success ends the run, an error restores. *)
OpenForWrite == OpenFile("write", "writing")

Write ==
  /\ pc = "writing"
  /\ file' = Written(lines)
  /\ Return("ok")
  /\ UNCHANGED <<input, bak, memory, past, torn>>

WriteFails ==
  /\ \/ pc = "write" /\ UNCHANGED file
     \/ pc = "writing" /\ file' \in Prefixes(Written(lines))
  /\ pc' = "restore"
  /\ UNCHANGED <<input, bak, outcome, memory, past, torn>>

(* restoreFromBackup, whose own error is only logged. *)
OpenForRestore == OpenFile("restore", "restoring")

Restored_Memory == lines               \* fault: the new lines are restored
Restored == bak

Restore ==
  /\ pc = "restoring"
  /\ file' = Restored
  /\ Return("failed")
  /\ UNCHANGED <<input, bak, memory, past, torn>>

RestoreFails ==
  /\ \/ pc = "restore" /\ UNCHANGED file
     \/ pc = "restoring" /\ file' \in Prefixes(bak)
  /\ Return("failed")
  /\ torn' = TRUE
  /\ UNCHANGED <<input, bak, memory, past>>

(* The process dies; a file being written keeps a part of it. *)
Crash ==
  /\ pc # "idle"
  /\ Return("crashed")
  /\ torn' = TRUE
  /\ CASE pc = "copy" -> bak' \in Prefixes(file) /\ UNCHANGED file
       [] pc = "writing" -> file' \in Prefixes(Written(lines)) /\ UNCHANGED bak
       [] pc = "restoring" -> file' \in Prefixes(bak) /\ UNCHANGED bak
       [] OTHER -> UNCHANGED disk
  /\ UNCHANGED <<input, memory, past>>

Next ==
  \/ Start
  \/ OpenBackup \/ WriteBackup \/ BackupFails
  \/ Parse \/ ParseFails
  \/ ApplyNext \/ AllApplied
  \/ OpenForWrite \/ Write \/ WriteFails
  \/ OpenForRestore \/ Restore \/ RestoreFails
  \/ Crash

Spec == Init /\ [][Next]_vars
-----------------------------------------------------------------------------
(* Properties.                                                             *)

(* Every variable keeps its type. *)
TypeOK ==
  /\ updates \in Seq(Update)
  /\ onlyReplace \in BOOLEAN
  /\ \A s \in {file, bak, read, lines, before} : s \in Seq(Pin \cup {Blank})
  /\ pc \in {"idle", "backup", "copy", "parse", "update", "write", "writing",
             "restore", "restoring"}
  /\ outcome \in {"none", "ok", "failed", "crashed"}
  /\ n \in 1 .. Len(updates) + 1
  /\ errors \in BOOLEAN /\ torn \in BOOLEAN /\ settled \in BOOLEAN
  /\ runs \in 0 .. MaxRuns

(* From its start to the next one, wherever it crashes or fails, a run     *)
(* leaves the old contents in the file or in the backup, unless it         *)
(* succeeded.                                                              *)
Recoverable == outcome = "ok" \/ file = before \/ bak = before

(* A run that fails, be it at the last update or in the write itself,      *)
(* leaves the file as it was, unless the restore fails too.                *)
AllOrNothing == outcome = "failed" /\ ~torn => file = before

(* The elements of q that stand at the places I, in their order. *)
At(q, I) ==
  LET f[k \in 0 .. Len(q)] ==
        IF k = 0 THEN <<>>
        ELSE IF k \in I THEN Append(f[k - 1], q[k]) ELSE f[k - 1]
  IN f[Len(q)]

Pins(s) == At(s, {k \in DOMAIN s : IsPin(s[k])})

PinnedOnce(s) ==
  \A i, j \in DOMAIN s : i # j /\ IsPin(s[i]) => s[i].pkg # s[j].pkg

Bumped(pin) ==
  LET U == {u \in ToSet(updates) : u.pkg = pin.pkg} IN
  IF U = {} THEN pin ELSE [pin EXCEPT !.ver = (CHOOSE u \in U : TRUE).ver]

(* The updates of packages that have no line in s. *)
New(s) == {k \in DOMAIN updates : \A line \in ToSet(s) : line.pkg # updates[k].pkg}
AsPin(u) == [pkg |-> u.pkg, op |-> "==", ver |-> u.ver]
Added(s) ==
  LET new == At(updates, New(s)) IN [i \in DOMAIN new |-> AsPin(new[i])]

(* A version that is no number is 0 here, and is compared with nothing.    *)
Lowered(old, new) == old # 0 /\ new # 0 /\ new < old

(* A successful run has applied every update: where no package is pinned   *)
(* twice, each updated pin has its new version, no other pin has changed,  *)
(* the new packages follow in the order of the updates, and, "cannot       *)
(* downgrade", whatever runs came before, no pin is lowered.               *)
Applied ==
  outcome = "ok" /\ PinnedOnce(before) =>
    /\ Pins(file) = [i \in DOMAIN Pins(before) |-> Bumped(Pins(before)[i])]
                      \o Added(before)
    /\ onlyReplace => Added(before) = <<>>
    /\ \A i \in DOMAIN Pins(before) :
         ~Lowered(Pins(before)[i].ver, Pins(file)[i].ver)

(* A second run of updates that were applied changes no pin, whether it    *)
(* fails ("already matches version") or, where a package is pinned twice,  *)
(* succeeds again.                                                         *)
RerunChangesNothing ==
  settled /\ pc = "idle" /\ ~torn => Pins(file) = Pins(before)

(* What a successful run has made of the pins is right and stays so.       *)
UpdatesHold == Applied /\ RerunChangesNothing
=============================================================================
