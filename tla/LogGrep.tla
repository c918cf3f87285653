------------------------------ MODULE LogGrep -------------------------------
(***************************************************************************)
(* tw dgrep and tw kgrep look for expected and unwanted patterns in logs   *)
(* that are still being written, and look again, from the start, while     *)
(* attempts are left.  dgrep fetches stdout and stderr of one container    *)
(* and then scans them; kgrep streams and scans one container after the    *)
(* other.  Of a line, what counts is the patterns it matches and whether   *)
(* it fits the scanner's buffer: at a line that does not, the scanner      *)
(* stops, with an error that nobody looks at.  Its formulas have names of  *)
(* their own, since TwProofs is about this module and ShellDeps at once.   *)
(***************************************************************************)
EXTENDS Integers, Sequences, SequencesExt

CONSTANTS
  Patterns,     \* regular expressions
  Streams,      \* the logs of the target
  Stdout,       \* the stream that is dgrep's standard output
  MaxExpected,  \* bound: -e flags
  MaxLines,     \* bound: lines of all logs
  MaxRetry      \* bound: --retry

ASSUME LogGrepAssumption ==
  /\ Stdout \in Streams
  /\ MaxRetry \in Nat /\ MaxLines \in Nat

Line == [hits : SUBSET Patterns, long : BOOLEAN]

VARIABLES
  tool,         \* "dgrep" or "kgrep"
  expected,     \* -e, in their order
  unwanted,     \* --ne and --std-errors
  invert,       \* -v
  retry,        \* --retry
  log,          \* the lines of each stream
  phase,        \* "ready", "read", "judge", "again", "passed" or "failed"
  attempt,      \* attempts begun
  left,         \* streams to scan
  matched,      \* matchedPatterns: indexes of expected
  matches,      \* len(matches) > 0
  found,        \* len(notExpectedMatches) > 0
  log0,         \* the log when the attempt began (history)
  blind         \* the attempt could not read it all (history)

flags == <<tool, expected, unwanted, invert, retry>>
seen == <<matched, matches, found>>
grepVars == <<flags, log, phase, attempt, left, seen, log0, blind>>

Conflict == \E p \in ToSet(expected) : p \in unwanted

(* Flags that prerun accepts, and a container that has logged nothing. *)
GrepInit ==
  /\ tool \in {"dgrep", "kgrep"}
  /\ expected \in BoundedSeq(Patterns, MaxExpected)
  /\ unwanted \in SUBSET Patterns
  /\ expected # <<>> \/ unwanted # {}
  /\ ~Conflict
  /\ invert \in BOOLEAN
  /\ retry \in -1 .. MaxRetry
  /\ log = [s \in Streams |-> <<>>] /\ log0 = log
  /\ phase = "ready" /\ attempt = 0
  /\ left = {} /\ matched = {} /\ matches = FALSE /\ found = FALSE
  /\ blind = FALSE

Ended == phase \in {"passed", "failed"}

(* The target logs a line. *)
Log ==
  /\ ~Ended
  /\ \E s \in Streams, line \in Line :
       /\ MapThenSumSet(LAMBDA t : Len(log[t]), Streams) < MaxLines
       /\ log' = [log EXCEPT ![s] = Append(@, line)]
  /\ UNCHANGED <<flags, phase, attempt, left, seen, log0, blind>>

(* Backoff.Steps = Retry + 1: none at all for --retry -1. *)
Steps_More == retry + 2                \* fault: one attempt too many
Steps == retry + 1

Begin ==
  /\ phase = "ready" /\ attempt < Steps
  /\ attempt' = attempt + 1
  /\ left' = Streams
  /\ matched' = {} /\ matches' = FALSE /\ found' = FALSE
  /\ log0' = log /\ blind' = FALSE
  /\ phase' = "read"
  /\ UNCHANGED <<flags, log>>

(* The indexes of the expected patterns that a line counts for: on dgrep's *)
(* stdout the first one only.                                              *)
Counts(s, line) ==
  LET all == {i \in DOMAIN expected : expected[i] \in line.hits} IN
  IF tool = "dgrep" /\ s = Stdout
  THEN {i \in all : \A j \in all : i <= j}
  ELSE all

(* The lines up to the first one that is too long. *)
Scanned(lines) ==
  {lines[i] : i \in {k \in DOMAIN lines : \A j \in 1 .. k : ~lines[j].long}}

Missed(s, lines) ==
  Len(lines) < Len(log0[s]) \/ \E line \in ToSet(lines) : line.long

(* What the streams S add, read as the given lines. *)
ReadLines(S, lines) ==
  /\ matched' = matched \cup
       UNION {UNION {Counts(s, line) : line \in Scanned(lines[s])} : s \in S}
  /\ matches' = (matches \/ \E s \in S : \E line \in Scanned(lines[s]) :
                              line.hits \cap ToSet(expected) # {})
  /\ found' = (found \/ \E s \in S : \E line \in Scanned(lines[s]) :
                          line.hits \cap unwanted # {})
  /\ blind' = (blind \/ \E s \in S : Missed(s, lines[s]))
  /\ left' = left \ S

(* dgrep: StdCopy fetches everything or fails. *)
ScanContainer ==
  /\ phase = "read" /\ tool = "dgrep"
  /\ ReadLines(Streams, log)
  /\ phase' = "judge"
  /\ UNCHANGED <<flags, log, attempt, log0>>

(* kgrep: the next stream, in the order of a map; one that breaks off      *)
(* ends the scanner as its end would.                                      *)
ScanStream ==
  /\ phase = "read" /\ tool = "kgrep"
  /\ \E s \in left :
       /\ \E lines \in Prefixes(log[s]) : ReadLines({s}, [log EXCEPT ![s] = lines])
       /\ phase' = IF left = {s} THEN "judge" ELSE "read"
  /\ UNCHANGED <<flags, log, attempt, log0>>

(* No client, no container, no stream, or dgrep's timeout. *)
ReadFails ==
  /\ phase = "read"
  /\ phase' = "again" /\ blind' = TRUE
  /\ UNCHANGED <<flags, log, attempt, left, seen, log0>>

Missing_Any == matched = {}            \* fault: one pattern is enough
Missing == matched # DOMAIN expected

Refused ==
  \/ invert /\ matches
  \/ found
  \/ ~invert /\ expected # <<>> /\ Missing

Judge ==
  /\ phase = "judge"
  /\ phase' = IF Refused THEN "again" ELSE "passed"
  /\ UNCHANGED <<flags, log, attempt, left, seen, log0, blind>>

(* ExponentialBackoff sleeps and tries again, or gives up. *)
Exhausted_Early == attempt + 1 >= Steps  \* fault: one attempt too few
Exhausted == attempt >= Steps

Again ==
  /\ phase = "again" /\ ~Exhausted
  /\ phase' = "ready"
  /\ UNCHANGED <<flags, log, attempt, left, seen, log0, blind>>

GiveUp ==
  /\ \/ phase = "again" /\ Exhausted
     \/ phase = "ready" /\ attempt >= Steps
  /\ phase' = "failed"
  /\ UNCHANGED <<flags, log, attempt, left, seen, log0, blind>>

GrepNext ==
  \/ Log
  \/ Begin \/ ScanContainer \/ ScanStream \/ ReadFails
  \/ Judge \/ Again \/ GiveUp

GrepSpec == GrepInit /\ [][GrepNext]_grepVars
-----------------------------------------------------------------------------
(* Properties.                                                             *)

(* Every variable keeps its type. *)
GrepTypeOK ==
  /\ tool \in {"dgrep", "kgrep"}
  /\ expected \in Seq(Patterns) /\ unwanted \subseteq Patterns
  /\ invert \in BOOLEAN /\ retry \in -1 .. MaxRetry
  /\ \A s \in Streams : log[s] \in Seq(Line) /\ log0[s] \in Prefixes(log[s])
  /\ phase \in {"ready", "read", "judge", "again", "passed", "failed"}
  /\ attempt \in 0 .. MaxRetry + 1
  /\ left \subseteq Streams
  /\ matched \subseteq DOMAIN expected
  /\ matches \in BOOLEAN /\ found \in BOOLEAN /\ blind \in BOOLEAN

(* p is on some line of the logs. *)
In(logs, p) == \E s \in Streams : \E line \in ToSet(logs[s]) : p \in line.hits

(* "must be present": a pass has found every expected pattern in the log,  *)
(* and "toggle to invert": with -v none was there when the attempt began,  *)
(* as far as it could read.                                                *)
PassMeansPresent ==
  phase = "passed" =>
    \A p \in ToSet(expected) : IF invert THEN In(log0, p) => blind
                                         ELSE In(log, p)

(* "must NOT be present": a pass, on whatever attempt, means that no       *)
(* unwanted pattern was in the log when that attempt began, unless the     *)
(* attempt could not read it all.                                          *)
PassMeansAbsent ==
  phase = "passed" /\ ~blind => \A p \in unwanted : ~In(log0, p)

(* A pass, on whatever attempt and in whatever mode, is earned.            *)
PassEarned == PassMeansPresent /\ PassMeansAbsent

(* dgrep's first match on stdout may hide the others, and a second -e of   *)
(* the same pattern.                                                       *)
Overlaps ==
  /\ tool = "dgrep"
  /\ \/ ~IsInjective(expected)
     \/ \E line \in ToSet(log[Stdout]) :
          \E p, q \in ToSet(expected) : p # q /\ {p, q} \subseteq line.hits

(* A failure has used every attempt there was, and, where the last one     *)
(* could read the logs and no pattern hides another, an expected pattern   *)
(* was not there when it began, or something unwanted is there now: a line *)
(* that comes late but before the last attempt is found.                   *)
Excused ==
  \/ ~invert /\ \E p \in ToSet(expected) : ~In(log0, p)
  \/ invert /\ \E p \in ToSet(expected) : In(log, p)
  \/ \E p \in unwanted : In(log, p)

FailureExplained ==
  phase = "failed" =>
    /\ attempt = Steps
    /\ attempt = 0 \/ blind \/ Overlaps \/ Excused
=============================================================================
