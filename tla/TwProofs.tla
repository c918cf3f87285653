----------------------------- MODULE TwProofs ------------------------------
(***************************************************************************)
(* The properties of two commands of tw: of LogGrep, what a pass and what  *)
(* a failure of dgrep or kgrep mean, for any flags, any logs and any way   *)
(* they grow while they are read; and of ShellDeps, what shell-deps lists  *)
(* and what a check that passes promises, for any files, directories and   *)
(* flags and functions nested to any depth.                                *)
(***************************************************************************)
EXTENDS LogGrep, ShellDeps, FiniteSetTheorems, SequenceTheorems,
        WellFoundedInduction, TLAPS
-----------------------------------------------------------------------------
(* dgrep and kgrep.                                                        *)

GrepTypes ==
  /\ tool \in {"dgrep", "kgrep"}
  /\ expected \in Seq(Patterns) /\ unwanted \subseteq Patterns
  /\ log \in [Streams -> Seq(Line)] /\ log0 \in [Streams -> Seq(Line)]
  /\ left \subseteq Streams
  /\ matched \subseteq DOMAIN expected
  /\ matches \in BOOLEAN /\ found \in BOOLEAN /\ blind \in BOOLEAN

(* One sequence of lines begins another. *)
Begins(short, lines) ==
  /\ Len(short) <= Len(lines)
  /\ \A i \in 1 .. Len(short) : short[i] = lines[i]

(* Logs only grow, so what was there is still there. *)
Grown == \A s \in Streams : Begins(log0[s], log[s])

(* A pattern that counts as matched is in the log. *)
Present == \A i \in matched : In(log, expected[i])

(* What an attempt has read of its log0 it has noted. *)
Noted(s) ==
  \A line \in ToSet(log0[s]) :
    /\ line.hits \cap unwanted # {} => found
    /\ line.hits \cap ToSet(expected) # {} => matches

Reading == phase \in {"read", "judge", "passed"}

GrepInv ==
  /\ GrepTypes
  /\ Grown
  /\ Present
  /\ Reading /\ ~blind => \A s \in Streams \ left : Noted(s)
  /\ phase \in {"judge", "passed"} => left = {}
  /\ phase = "passed" => ~Refused
-----------------------------------------------------------------------------
(* Sequences of lines.                                                     *)

(* What is scanned is there, and where no line is too long that is all. *)
LEMMA ScannedLines ==
  ASSUME NEW lines \in Seq(Line)
  PROVE  /\ Scanned(lines) \subseteq ToSet(lines)
         /\ (\A line \in ToSet(lines) : ~line.long)
              => Scanned(lines) = ToSet(lines)
<1>1. Scanned(lines) \subseteq ToSet(lines)
  BY DEF Scanned, ToSet
<1>2. ASSUME \A line \in ToSet(lines) : ~line.long
      PROVE  ToSet(lines) \subseteq Scanned(lines)
  BY <1>2 DEF Scanned, ToSet
<1> QED BY <1>1, <1>2

(* The lines of a beginning are lines of the whole. *)
LEMMA BeginsSubset ==
  ASSUME NEW short \in Seq(Line), NEW lines \in Seq(Line),
         Begins(short, lines)
  PROVE  ToSet(short) \subseteq ToSet(lines)
  BY DEF Begins, ToSet

(* Appending and cutting keep the beginning. *)
LEMMA BeginsAppend ==
  ASSUME NEW short \in Seq(Line), NEW lines \in Seq(Line),
         NEW line \in Line, Begins(short, lines)
  PROVE  Begins(short, Append(lines, line))
  BY DEF Begins

LEMMA PrefixBegins ==
  ASSUME NEW lines \in Seq(Line), NEW short \in Prefixes(lines)
  PROVE  short \in Seq(Line) /\ Begins(short, lines)
<1>1. PICK n \in 0 .. Len(lines) : short = SubSeq(lines, 1, n)
  BY DEF Prefixes
<1> QED BY <1>1 DEF Begins

(* Two beginnings of one sequence: the shorter begins the longer. *)
LEMMA BeginsBoth ==
  ASSUME NEW a \in Seq(Line), NEW b \in Seq(Line), NEW lines \in Seq(Line),
         Begins(a, lines), Begins(b, lines), Len(a) <= Len(b)
  PROVE  Begins(a, b)
  BY DEF Begins
-----------------------------------------------------------------------------
(* Who missed nothing has read what was there when the attempt began.      *)
LEMMA ReadsAll ==
  ASSUME GrepInv, NEW s \in Streams, NEW lines \in Seq(Line),
         Begins(lines, log[s]), ~Missed(s, lines)
  PROVE  ToSet(log0[s]) \subseteq Scanned(lines)
<1>1. log0[s] \in Seq(Line) /\ log[s] \in Seq(Line)
  BY DEF GrepInv, GrepTypes
<1>2. Len(log0[s]) <= Len(lines)
  BY <1>1 DEF Missed
<1>3. \A line \in ToSet(lines) : ~line.long
  BY DEF Missed
<1>4. Begins(log0[s], lines)
  BY <1>1, <1>2, BeginsBoth DEF Grown, GrepInv
<1>5. ToSet(log0[s]) \subseteq ToSet(lines)
  BY <1>1, <1>4, BeginsSubset
<1> QED BY <1>3, <1>5, ScannedLines

(* A scan of the streams S, of which each was read up to some line.        *)
LEMMA ScanNotes ==
  ASSUME GrepInv, NEW S \in SUBSET Streams,
         NEW lines \in [Streams -> Seq(Line)],
         \A s \in S : Begins(lines[s], log[s]),
         ReadLines(S, lines), UNCHANGED <<flags, log, log0>>
  PROVE  /\ GrepTypes'
         /\ Present'
         /\ ~blind' => ~blind /\ \A s \in S : Noted(s)'
         /\ ~blind' => \A s \in Streams : Noted(s) => Noted(s)'
<1> USE DEF GrepInv, GrepTypes, flags
<1>1. /\ matched' = matched \cup
            UNION {UNION {Counts(s, line) : line \in Scanned(lines[s])} :
                     s \in S}
      /\ matches' = (matches \/ \E s \in S : \E line \in Scanned(lines[s]) :
                                  line.hits \cap ToSet(expected) # {})
      /\ found' = (found \/ \E s \in S : \E line \in Scanned(lines[s]) :
                              line.hits \cap unwanted # {})
      /\ blind' = (blind \/ \E s \in S : Missed(s, lines[s]))
      /\ left' = left \ S
  BY DEF ReadLines
<1>2. \A s, line : Counts(s, line)
        \subseteq {i \in DOMAIN expected : expected[i] \in line.hits}
  BY DEF Counts
<1>3. GrepTypes'
  BY <1>1, <1>2
<1>4. ASSUME NEW i \in matched' PROVE In(log, expected[i])
  <2>1. CASE i \in matched
    BY <2>1 DEF Present
  <2>2. ASSUME NEW s \in S, NEW line \in Scanned(lines[s]),
               i \in Counts(s, line)
        PROVE  In(log, expected[i])
    <3>1. line \in ToSet(log[s])
      BY ScannedLines, BeginsSubset
    <3>2. expected[i] \in line.hits
      BY <1>2, <2>2
    <3> QED BY <3>1, <3>2 DEF In
  <2> QED BY <1>1, <2>1, <2>2
<1>5. Present'
  BY <1>4 DEF Present, In
<1>6. ASSUME ~blind', NEW s \in S PROVE Noted(s)'
  <2>1. ~Missed(s, lines[s])
    BY <1>1, <1>6
  <2>2. ToSet(log0[s]) \subseteq Scanned(lines[s])
    BY <2>1, ReadsAll
  <2> QED BY <1>1, <2>2 DEF Noted
<1>7. ASSUME NEW s \in Streams, Noted(s) PROVE Noted(s)'
  BY <1>1, <1>7 DEF Noted
<1> QED BY <1>1, <1>3, <1>5, <1>6, <1>7

LEMMA GrepInitInv == GrepInit => GrepInv
<1> SUFFICES ASSUME GrepInit PROVE GrepInv
  OBVIOUS
<1>1. expected \in Seq(Patterns)
  <2>1. PICK n \in 0 .. MaxExpected : expected \in [1 .. n -> Patterns]
    BY DEF GrepInit, BoundedSeq, SeqOf
  <2> QED BY <2>1
<1>2. log \in [Streams -> Seq(Line)] /\ log0 = log
  BY DEF GrepInit
<1>3. GrepTypes
  BY <1>1, <1>2 DEF GrepInit, GrepTypes
<1>4. Grown
  BY <1>2 DEF Grown, Begins
<1>5. Present /\ ~Reading /\ phase \notin {"judge", "passed"}
  BY DEF GrepInit, Present, Reading
<1> QED BY <1>3, <1>4, <1>5 DEF GrepInv

(* The target writes: what was noted and what was matched still stands. *)
LEMMA LogIInv == ASSUME GrepInv, Log PROVE GrepInv'
<1> USE DEF GrepInv, GrepTypes, flags, seen
<1>1. PICK s \in Streams, line \in Line :
        log' = [log EXCEPT ![s] = Append(@, line)]
  BY DEF Log
<1>2. UNCHANGED <<flags, phase, attempt, left, seen, log0, blind>>
  BY DEF Log
<1>3. GrepTypes'
  BY <1>1, <1>2
<1>4. \A t \in Streams : Begins(log[t], log'[t])
  BY <1>1 DEF Begins
<1>5. Grown'
  BY <1>1, <1>2, BeginsAppend DEF Grown
<1>6. \A p : In(log, p) => In(log, p)'
  BY <1>3, <1>4, BeginsSubset DEF In
<1>7. Present'
  BY <1>2, <1>6 DEF Present
<1>8. \A t \in Streams : Noted(t) => Noted(t)'
  BY <1>2 DEF Noted
<1> QED BY <1>2, <1>3, <1>5, <1>7, <1>8 DEF Reading, Refused, Missing

(* An attempt begins with nothing matched and every stream to read. *)
LEMMA BeginIInv == ASSUME GrepInv, Begin PROVE GrepInv'
<1>1. GrepTypes'
  BY DEF GrepInv, GrepTypes, flags, Begin
<1>2. Grown'
  <2>1. log' \in [Streams -> Seq(Line)] /\ log0' = log'
    BY DEF GrepInv, GrepTypes, Begin
  <2> QED BY <2>1 DEF Grown, Begins
<1>3. Present' /\ Streams \ left' = {} /\ phase' \notin {"judge", "passed"}
  BY DEF Begin, Present
<1> QED BY <1>1, <1>2, <1>3 DEF GrepInv

(* dgrep has read both streams of the log as it is. *)
LEMMA ScanContainerIInv == ASSUME GrepInv, ScanContainer PROVE GrepInv'
<1>1. UNCHANGED <<flags, log, log0>> /\ ReadLines(Streams, log) /\ phase' = "judge"
  BY DEF ScanContainer
<1>2. \A s \in Streams : Begins(log[s], log[s])
  BY DEF Begins, GrepInv, GrepTypes
<1>3. /\ GrepTypes'
      /\ Present'
      /\ ~blind' => \A s \in Streams : Noted(s)'
  BY <1>1, <1>2, ScanNotes DEF GrepInv, GrepTypes
<1>4. Grown' /\ left' = {}
  BY <1>1 DEF GrepInv, GrepTypes, Grown, ReadLines
<1> QED BY <1>1, <1>3, <1>4 DEF GrepInv, Reading

(* kgrep has read some of one stream. *)
LEMMA ScanStreamIInv == ASSUME GrepInv, ScanStream PROVE GrepInv'
<1>1. PICK s \in left : \E lines \in Prefixes(log[s]) :
        /\ ReadLines({s}, [log EXCEPT ![s] = lines])
        /\ phase' = IF left = {s} THEN "judge" ELSE "read"
  BY DEF ScanStream
<1>2. PICK lines \in Prefixes(log[s]) : ReadLines({s}, [log EXCEPT ![s] = lines])
  BY <1>1
<1>3. UNCHANGED <<flags, log, log0>> /\ phase = "read"
  BY DEF ScanStream
<1>4. s \in Streams /\ lines \in Seq(Line) /\ Begins(lines, log[s])
  BY PrefixBegins DEF GrepInv, GrepTypes
<1>5. /\ GrepTypes'
      /\ Present'
      /\ ~blind' => ~blind /\ Noted(s)'
      /\ ~blind' => \A t \in Streams : Noted(t) => Noted(t)'
  <2>1. [log EXCEPT ![s] = lines] \in [Streams -> Seq(Line)]
    BY <1>4 DEF GrepInv, GrepTypes
  <2>2. \A t \in {s} : Begins([log EXCEPT ![s] = lines][t], log[t])
    BY <1>4 DEF GrepInv, GrepTypes
  <2>3. {s} \in SUBSET Streams
    BY <1>4
  <2> QED BY <1>2, <1>3, <2>1, <2>2, <2>3, ScanNotes
<1>6. Grown' /\ left' = left \ {s}
  BY <1>2, <1>3 DEF GrepInv, GrepTypes, Grown, ReadLines
<1>7. phase' \in {"judge", "read"} /\ (phase' = "judge" => left' = {})
  BY <1>1, <1>6
<1>8. ~blind' => \A t \in Streams \ left' : Noted(t)'
  BY <1>3, <1>5, <1>6 DEF GrepInv, Reading
<1> QED BY <1>5, <1>6, <1>7, <1>8 DEF GrepInv

(* The verdict, and the attempts that are over. *)
LEMMA VerdictIInv ==
  ASSUME GrepInv, ReadFails \/ Judge \/ Again \/ GiveUp
  PROVE  GrepInv'
<1> USE DEF GrepInv, GrepTypes, flags, seen, Grown, Present, In, Noted, Reading,
            Refused, Missing
<1>1. CASE ReadFails
  BY <1>1 DEF ReadFails
<1>2. CASE Judge
  BY <1>2 DEF Judge
<1>3. CASE Again
  BY <1>3 DEF Again
<1>4. CASE GiveUp
  BY <1>4 DEF GiveUp
<1> QED BY <1>1, <1>2, <1>3, <1>4

LEMMA GrepNextInv == GrepInv /\ [GrepNext]_grepVars => GrepInv'
<1> SUFFICES ASSUME GrepInv, [GrepNext]_grepVars PROVE GrepInv'
  OBVIOUS
<1>1. CASE UNCHANGED grepVars
  BY <1>1 DEF GrepInv, GrepTypes, grepVars, flags, seen, Grown, Present, In, Noted,
              Reading, Refused, Missing
<1> QED
  BY <1>1, LogIInv, BeginIInv, ScanContainerIInv, ScanStreamIInv,
     VerdictIInv DEF GrepNext

(* What was read is noted, in every reachable state. *)
THEOREM GrepInvariance == GrepSpec => []GrepInv
  BY GrepInitInv, GrepNextInv, PTL DEF GrepSpec

(* A pass has found every expected pattern in the log; with -v there was   *)
(* none, as far as the attempt could read.                                 *)
THEOREM FoundIsPresent == GrepSpec => []PassMeansPresent
<1>1. GrepInv => PassMeansPresent
  <2> SUFFICES ASSUME GrepInv, phase = "passed", NEW p \in ToSet(expected)
               PROVE  IF invert THEN In(log0, p) => blind ELSE In(log, p)
    BY DEF PassMeansPresent
  <2>1. PICK i \in DOMAIN expected : p = expected[i]
    BY DEF ToSet
  <2>2. CASE ~invert
    BY <2>1, <2>2 DEF GrepInv, GrepTypes, Present, Refused, Missing
  <2>3. CASE invert
    <3>1. ~matches
      BY <2>3 DEF GrepInv, Refused
    <3> QED BY <3>1, <2>3 DEF GrepInv, In, Noted, Reading
  <2> QED BY <2>2, <2>3
<1> QED BY <1>1, GrepInvariance, PTL

(* A pass means that no unwanted pattern was in the log when its attempt   *)
(* began, unless the attempt could not read it all.                        *)
THEOREM UnwantedIsAbsent == GrepSpec => []PassMeansAbsent
<1>1. GrepInv => PassMeansAbsent
  BY DEF GrepInv, PassMeansAbsent, In, Noted, Reading, Refused
<1> QED BY <1>1, GrepInvariance, PTL

(* A pass is earned: what is expected was found, and nothing unwanted.     *)
THEOREM PassIsEarned == GrepSpec => []PassEarned
<1>1. PassMeansPresent /\ PassMeansAbsent => PassEarned
  BY DEF PassEarned
<1> QED BY <1>1, FoundIsPresent, UnwantedIsAbsent, PTL
-----------------------------------------------------------------------------
(* A failure.  What an attempt has read of its log0 counts as matched,     *)
(* unless a pattern hides another.                                         *)
Credited(s) ==
  \A line \in ToSet(log0[s]) : \A i \in DOMAIN expected :
    expected[i] \in line.hits => i \in matched \/ Overlaps

(* What was found is still there. *)
Warranted ==
  /\ found => \E p \in unwanted : In(log, p)
  /\ matches => \E p \in ToSet(expected) : In(log, p)

(* No attempt too many, and none left when the tool gives up. *)
Tries ==
  /\ retry \in -1 .. MaxRetry /\ invert \in BOOLEAN
  /\ phase \in {"ready", "read", "judge", "again", "passed", "failed"}
  /\ attempt \in Nat /\ attempt <= Steps
  /\ phase = "ready" => attempt = 0 \/ attempt < Steps
  /\ phase = "failed" => attempt = Steps

FailInv ==
  /\ Tries
  /\ Warranted
  /\ ~blind => \A s \in Streams \ left : Credited(s)
  /\ phase \in {"again", "failed"} /\ attempt # 0 => blind \/ (Refused /\ left = {})

(* Logs that grow keep what was found in them. *)
LEMMA InKept ==
  ASSUME GrepInv, GrepInv', UNCHANGED flags,
         \A s \in Streams : Begins(log[s], log'[s])
  PROVE  /\ \A p : In(log, p) => In(log, p)'
         /\ Overlaps => Overlaps'
<1>1. \A s \in Streams : ToSet(log[s]) \subseteq ToSet(log'[s])
  BY BeginsSubset DEF GrepInv, GrepTypes
<1>2. \A p : In(log, p) => In(log, p)'
  BY <1>1 DEF In
<1>3. Overlaps => Overlaps'
  BY <1>1, LogGrepAssumption DEF Overlaps, flags
<1> QED BY <1>2, <1>3

(* On dgrep's stdout a pattern that does not count has another one before  *)
(* it on the line, or is given twice.                                      *)
LEMMA CountsOrOverlaps ==
  ASSUME GrepInv, NEW s \in Streams, NEW line \in ToSet(log[s]),
         NEW i \in DOMAIN expected, expected[i] \in line.hits
  PROVE  i \in Counts(s, line) \/ Overlaps
<1>1. SUFFICES ASSUME i \notin Counts(s, line) PROVE Overlaps
  OBVIOUS
<1>2. tool = "dgrep" /\ s = Stdout
  BY <1>1 DEF Counts
<1>3. PICK j \in DOMAIN expected : expected[j] \in line.hits /\ ~(i <= j)
  BY <1>1, <1>2 DEF Counts
<1>4. i # j
  BY <1>3 DEF GrepInv, GrepTypes
<1>5. CASE expected[i] = expected[j]
  BY <1>2, <1>4, <1>5 DEF Overlaps, IsInjective
<1>6. CASE expected[i] # expected[j]
  BY <1>2, <1>3, <1>6 DEF Overlaps, ToSet
<1> QED BY <1>5, <1>6

(* A scan of the streams S finds what is there, and all of it. *)
LEMMA ScanFinds ==
  ASSUME GrepInv, GrepInv', FailInv, NEW S \in SUBSET Streams,
         NEW lines \in [Streams -> Seq(Line)],
         \A s \in S : Begins(lines[s], log[s]),
         ReadLines(S, lines), UNCHANGED <<flags, log, log0, attempt>>,
         phase' \in {"read", "judge"}
  PROVE  FailInv'
<1>1. /\ matched' = matched \cup
            UNION {UNION {Counts(s, line) : line \in Scanned(lines[s])} :
                     s \in S}
      /\ matches' = (matches \/ \E s \in S : \E line \in Scanned(lines[s]) :
                                  line.hits \cap ToSet(expected) # {})
      /\ found' = (found \/ \E s \in S : \E line \in Scanned(lines[s]) :
                              line.hits \cap unwanted # {})
      /\ blind' = (blind \/ \E s \in S : Missed(s, lines[s]))
      /\ left' = left \ S
  BY DEF ReadLines
<1>2. \A s \in S : Scanned(lines[s]) \subseteq ToSet(log[s])
  BY ScannedLines, BeginsSubset DEF GrepInv, GrepTypes
<1>3. Tries'
  BY DEF FailInv, Tries, Steps, flags
<1>4. Warranted'
  BY <1>1, <1>2 DEF FailInv, Warranted, In, flags
<1>5. Overlaps' = Overlaps
  BY DEF Overlaps, flags
<1>6. ASSUME ~blind', NEW s \in S PROVE Credited(s)'
  <2>1. ToSet(log0[s]) \subseteq Scanned(lines[s])
    BY <1>1, <1>6, ReadsAll
  <2>2. SUFFICES ASSUME NEW line \in ToSet(log0[s]), NEW i \in DOMAIN expected,
                        expected[i] \in line.hits
                 PROVE  i \in matched' \/ Overlaps
    BY <1>5 DEF Credited, flags
  <2>3. i \in Counts(s, line) \/ Overlaps
    BY <1>2, <2>1, <2>2, CountsOrOverlaps
  <2>4. i \in Counts(s, line) => i \in matched'
    BY <1>1, <2>1
  <2> QED BY <2>3, <2>4
<1>7. ASSUME NEW s \in Streams, Credited(s) PROVE Credited(s)'
  BY <1>1, <1>5, <1>7 DEF Credited, flags
<1>8. ~blind' => \A s \in Streams \ left' : Credited(s)'
  BY <1>1, <1>6, <1>7 DEF FailInv
<1> QED BY <1>3, <1>4, <1>8 DEF FailInv

LEMMA InitFailInv == GrepInit => FailInv
<1> SUFFICES ASSUME GrepInit PROVE FailInv
  OBVIOUS
<1>1. \A s \in Streams : log0[s] = <<>>
  BY DEF GrepInit
<1>2. \A s \in Streams : Credited(s)
  BY <1>1 DEF Credited, ToSet
<1>3. Tries
  BY LogGrepAssumption DEF GrepInit, Tries, Steps
<1> QED BY <1>2, <1>3 DEF GrepInit, FailInv, Warranted

LEMMA LogFailInv == ASSUME GrepInv, GrepInv', FailInv, Log PROVE FailInv'
<1>1. PICK s \in Streams, line \in Line :
        log' = [log EXCEPT ![s] = Append(@, line)]
  BY DEF Log
<1>2. UNCHANGED <<flags, phase, attempt, left, seen, log0, blind>>
  BY DEF Log
<1>3. \A t \in Streams : Begins(log[t], log'[t])
  BY <1>1 DEF Begins, GrepInv, GrepTypes
<1>4. /\ \A p : In(log, p) => In(log, p)'
      /\ Overlaps => Overlaps'
  BY <1>2, <1>3, InKept
<1>5. Tries' /\ Refused' = Refused
  BY <1>2 DEF FailInv, Tries, Steps, Refused, Missing, flags, seen
<1>6. Warranted'
  BY <1>2, <1>4 DEF FailInv, Warranted, flags, seen
<1>7. \A t \in Streams : Credited(t) => Credited(t)'
  BY <1>2, <1>4 DEF Credited, flags, seen
<1> QED BY <1>2, <1>5, <1>6, <1>7 DEF FailInv

LEMMA BeginFailInv == ASSUME GrepInv, GrepInv', FailInv, Begin PROVE FailInv'
  BY DEF Begin, FailInv, Tries, Steps, Warranted, flags

LEMMA ReadFailInv ==
  ASSUME GrepInv, GrepInv', FailInv, ScanContainer \/ ScanStream
  PROVE  FailInv'
<1>1. CASE ScanContainer
  <2>1. /\ UNCHANGED <<flags, log, log0, attempt>> /\ phase' = "judge"
        /\ ReadLines(Streams, log)
    BY <1>1 DEF ScanContainer
  <2>2. log \in [Streams -> Seq(Line)] /\ \A s \in Streams : Begins(log[s], log[s])
    BY DEF Begins, GrepInv, GrepTypes
  <2> QED BY <2>1, <2>2, ScanFinds
<1>2. CASE ScanStream
  <2>1. PICK s \in left : \E lines \in Prefixes(log[s]) :
          ReadLines({s}, [log EXCEPT ![s] = lines])
    BY <1>2 DEF ScanStream
  <2>2. PICK lines \in Prefixes(log[s]) : ReadLines({s}, [log EXCEPT ![s] = lines])
    BY <2>1
  <2>3. UNCHANGED <<flags, log, log0, attempt>> /\ phase' \in {"read", "judge"}
    BY <1>2 DEF ScanStream
  <2>4. s \in Streams /\ lines \in Seq(Line) /\ Begins(lines, log[s])
    BY PrefixBegins DEF GrepInv, GrepTypes
  <2>5. /\ [log EXCEPT ![s] = lines] \in [Streams -> Seq(Line)]
        /\ \A t \in {s} : Begins([log EXCEPT ![s] = lines][t], log[t])
        /\ {s} \in SUBSET Streams
    BY <2>4 DEF GrepInv, GrepTypes
  <2> QED BY <2>2, <2>3, <2>5, ScanFinds
<1> QED BY <1>1, <1>2

(* The verdicts; only a failed attempt that was the last one is a failure. *)
LEMMA VerdictFailInv ==
  ASSUME GrepInv, GrepInv', FailInv,
         ReadFails \/ Judge \/ Again \/ GiveUp \/ UNCHANGED grepVars
  PROVE  FailInv'
<1>1. /\ UNCHANGED <<flags, log, attempt, left, seen, log0>>
      /\ blind => blind'
  BY DEF ReadFails, Judge, Again, GiveUp, grepVars
<1>2. /\ Warranted' /\ Refused' = Refused
      /\ \A s \in Streams : Credited(s)' = Credited(s)
  BY <1>1 DEF FailInv, Warranted, Refused, Missing, Credited, Overlaps, In,
              flags, seen
<1>3. Tries'
  BY <1>1 DEF ReadFails, Judge, Again, GiveUp, grepVars, FailInv, Tries, Steps,
              Exhausted, flags
<1>4. phase' \in {"again", "failed"} /\ attempt' # 0
        => blind' \/ (Refused' /\ left' = {})
  <2>1. CASE ReadFails \/ Again
    BY <2>1 DEF ReadFails, Again
  <2>2. CASE Judge
    BY <1>1, <1>2, <2>2 DEF Judge, GrepInv
  <2>3. CASE GiveUp
    <3>1. attempt # 0 => phase = "again"
      BY <2>3 DEF GiveUp, FailInv, Tries, Steps
    <3> QED BY <1>1, <1>2, <3>1 DEF FailInv
  <2>4. CASE UNCHANGED grepVars
    BY <1>1, <1>2, <2>4 DEF grepVars, FailInv
  <2> QED BY <2>1, <2>2, <2>3, <2>4
<1> QED BY <1>1, <1>2, <1>3, <1>4 DEF FailInv

LEMMA NextFailInv == GrepInv /\ FailInv /\ [GrepNext]_grepVars => FailInv'
<1> SUFFICES ASSUME GrepInv, FailInv, [GrepNext]_grepVars PROVE FailInv'
  OBVIOUS
<1>1. GrepInv'
  BY GrepNextInv
<1> QED
  BY <1>1, LogFailInv, BeginFailInv, ReadFailInv, VerdictFailInv DEF GrepNext

(* A refusal by an attempt that read everything is excused, or a pattern   *)
(* hides another.                                                          *)
LEMMA RefusalExcused ==
  ASSUME GrepInv, FailInv, ~blind, Refused, left = {}
  PROVE  Overlaps \/ Excused
<1>1. CASE invert /\ matches
  BY <1>1 DEF FailInv, Warranted, Excused
<1>2. CASE found
  BY <1>2 DEF FailInv, Warranted, Excused
<1>3. CASE ~invert /\ Missing
  <2>1. PICK i \in DOMAIN expected : i \notin matched
    BY <1>3 DEF Missing, GrepInv, GrepTypes
  <2>2. CASE In(log0, expected[i])
    <3>1. PICK s \in Streams : \E line \in ToSet(log0[s]) :
            expected[i] \in line.hits
      BY <2>2 DEF In
    <3> QED BY <2>1, <3>1 DEF FailInv, Credited
  <2>3. CASE ~In(log0, expected[i])
    BY <1>3, <2>3 DEF Excused, ToSet
  <2> QED BY <2>2, <2>3
<1> QED BY <1>1, <1>2, <1>3 DEF Refused

LEMMA FailInvariance == GrepSpec => [](GrepInv /\ FailInv)
<1>1. GrepInit => GrepInv /\ FailInv
  BY GrepInitInv, InitFailInv
<1>2. GrepInv /\ FailInv /\ [GrepNext]_grepVars => (GrepInv /\ FailInv)'
  BY GrepNextInv, NextFailInv
<1> QED BY <1>1, <1>2, PTL DEF GrepSpec

(* A failure has used every attempt, and the last one, if it could read    *)
(* the logs, had its reason in them or was misled by patterns that overlap.*)
THEOREM FailureHasReason == GrepSpec => []FailureExplained
<1>1. GrepInv /\ FailInv => FailureExplained
  BY RefusalExcused DEF FailInv, Tries, FailureExplained
<1> QED BY <1>1, FailInvariance, PTL

(* Every variable keeps its type; what an attempt began with is a prefix   *)
(* of what the log is now.                                                 *)
THEOREM GrepTypeCorrect == GrepSpec => []GrepTypeOK
<1>1. ASSUME GrepInv, NEW s \in Streams PROVE log0[s] \in Prefixes(log[s])
  <2>1. log0[s] \in Seq(Line) /\ log[s] \in Seq(Line) /\ Begins(log0[s], log[s])
    BY <1>1 DEF GrepInv, GrepTypes, Grown
  <2>2. log0[s] = SubSeq(log[s], 1, Len(log0[s]))
    BY <2>1 DEF Begins
  <2> QED BY <2>1, <2>2 DEF Begins, Prefixes
<1>2. ASSUME GrepInv, FailInv PROVE attempt \in 0 .. MaxRetry + 1
  BY <1>2, LogGrepAssumption DEF FailInv, Tries, Steps
<1>3. GrepInv /\ FailInv => GrepTypeOK
  BY <1>1, <1>2 DEF GrepInv, GrepTypes, FailInv, Tries, GrepTypeOK
<1> QED BY <1>3, FailInvariance, PTL
-----------------------------------------------------------------------------
(* Recursion, and the files that shell-deps chooses.                       *)

(* Induction, for a set of numbers. *)
LEMMA SetInduction ==
  ASSUME NEW A, 0 \in A, \A N \in Nat : N \in A => N + 1 \in A
  PROVE  Nat \subseteq A
<1> SUFFICES ASSUME Nat \ A # {} PROVE FALSE
  OBVIOUS
<1> DEFINE T == Nat \ A
<1>1. T \subseteq Nat /\ T # {}
  OBVIOUS
<1>2. PICK x \in T : \A y \in T : ~(<<y, x>> \in OpToRel(<, Nat))
  <2> HIDE DEF T
  <2> QED BY <1>1, NatLessThanWellFounded, WFMin
<1>3. x \in Nat /\ x # 0 /\ x - 1 \in Nat /\ x - 1 < x
  OBVIOUS
<1>4. x - 1 \in A
  BY <1>2, <1>3 DEF OpToRel
<1>5. x - 1 + 1 \in A
  BY <1>3, <1>4
<1> QED BY <1>3, <1>5

(* A function may be defined by recursion on a number. *)
IsRecursion(f, N, T, base, g) ==
  /\ f \in [0 .. N -> T]
  /\ f[0] = base /\ \A k \in 1 .. N : f[k] = g[<<k, f[k - 1]>>]

LEMMA RecursionExists ==
  ASSUME NEW T, NEW base, base \in T, NEW N, N \in Nat,
         NEW g, g \in [(1 .. N) \X T -> T]
  PROVE  \E f : IsRecursion(f, N, T, base, g)
<1> DEFINE Upto(f, j) == f[0] = base /\ \A k \in 1 .. j : f[k] = g[<<k, f[k - 1]>>]
           A == {j \in Nat : j <= N => \E f \in [0 .. j -> T] : Upto(f, j)}
<1>1. 0 \in A
  <2> DEFINE h == [k \in 0 .. 0 |-> base]
  <2>1. h \in [0 .. 0 -> T] /\ h[0] = base /\ 1 .. 0 = {}
    OBVIOUS
  <2> HIDE DEF h
  <2>2. Upto(h, 0)
    BY <2>1
  <2>3. \E f \in [0 .. 0 -> T] : Upto(f, 0)
    BY <2>1, <2>2
  <2> HIDE DEF Upto
  <2> QED BY <2>3
<1>2. ASSUME NEW j \in Nat, j \in A PROVE j + 1 \in A
  <2> SUFFICES ASSUME j + 1 <= N PROVE \E f \in [0 .. j + 1 -> T] : Upto(f, j + 1)
    OBVIOUS
  <2>1. PICK f \in [0 .. j -> T] : Upto(f, j)
    BY <1>2
  <2> DEFINE last == g[<<j + 1, f[j]>>]
             h == [k \in 0 .. j + 1 |-> IF k = j + 1 THEN last ELSE f[k]]
  <2>2. <<j + 1, f[j]>> \in (1 .. N) \X T
    OBVIOUS
  <2>3. last \in T
    BY <2>2
  <2>4. h \in [0 .. j + 1 -> T]
    BY <2>3
  <2>5. h[0] = base
    BY <2>1
  <2>6. ASSUME NEW k \in 1 .. j + 1 PROVE h[k] = g[<<k, h[k - 1]>>]
    <3>1. h[k - 1] = f[k - 1]
      OBVIOUS
    <3>2. CASE k = j + 1
      <4>1. k - 1 = j /\ h[k] = last
        <5>1. k - 1 = j
          BY <3>2
        <5>2. k \in 0 .. j + 1
          OBVIOUS
        <5> HIDE DEF last
        <5> QED BY <3>2, <5>1, <5>2
      <4> HIDE DEF h
      <4> QED BY <3>1, <3>2, <4>1
    <3>3. CASE k # j + 1
      <4>1. k \in 1 .. j /\ h[k] = f[k]
        BY <3>3
      <4>2. f[k] = g[<<k, f[k - 1]>>]
        BY <2>1, <4>1
      <4> HIDE DEF h
      <4> QED BY <3>1, <4>1, <4>2
    <3> QED BY <3>2, <3>3
  <2> QED BY <2>4, <2>5, <2>6
<1>3. N \in A
  <2> HIDE DEF A
  <2> QED BY <1>1, <1>2, SetInduction
<1> QED BY <1>3 DEF IsRecursion

(* The files that are chosen are files that were given. *)
LEMMA ChosenType ==
  ASSUME given \in Seq(Range(given))
  PROVE  Chosen \in Seq(Range(given))
<1> DEFINE N == Len(given)
           T == Seq(Range(given))
           Take(q, k) == IF Selected(given[k]) THEN Append(q, given[k]) ELSE q
           g == [x \in (1 .. N) \X T |-> Take(x[2], x[1])]
           Body(f, k) == IF k = 0 THEN <<>> ELSE Take(f[k - 1], k)
           Is(f) == f = [k \in 0 .. N |-> Body(f, k)]
<1>1. N \in Nat /\ <<>> \in T /\ \A k \in 1 .. N : given[k] \in Range(given)
  OBVIOUS
<1>2. \A q \in T, k \in 1 .. N : Take(q, k) \in T
  BY <1>1
<1>3. g \in [(1 .. N) \X T -> T]
  <2> HIDE DEF Take
  <2>1. \A x \in (1 .. N) \X T : Take(x[2], x[1]) \in T
    BY <1>2
  <2> QED BY <2>1
<1>4. PICK e \in [0 .. N -> T] :
        e[0] = <<>> /\ \A k \in 1 .. N : e[k] = g[<<k, e[k - 1]>>]
  <2> DEFINE base == <<>>
  <2>1. base \in T
    BY <1>1
  <2> HIDE DEF g, N, T, base
  <2>2. \E e : IsRecursion(e, N, T, base, g)
    BY <1>1, <1>3, <2>1, RecursionExists
  <2> QED BY <2>2 DEF base, IsRecursion
<1>5. Is(e)
  <2>1. ASSUME NEW k \in 0 .. N PROVE e[k] = Body(e, k)
    <3>1. CASE k = 0
      BY <1>4, <3>1
    <3>2. CASE k # 0
      <4>1. k \in 1 .. N /\ <<k, e[k - 1]>> \in (1 .. N) \X T
        BY <1>4, <3>2
      <4>2. e[k] = g[<<k, e[k - 1]>>]
        BY <1>4, <4>1
      <4>3. g[<<k, e[k - 1]>>] = Take(e[k - 1], k)
        <5> HIDE DEF Take, T, N
        <5> QED BY <4>1
      <4> QED BY <3>2, <4>2, <4>3
    <3> QED BY <3>1, <3>2
  <2>2. e = [k \in 0 .. N |-> e[k]]
    BY <1>4
  <2> HIDE DEF Body
  <2>3. [k \in 0 .. N |-> e[k]] = [k \in 0 .. N |-> Body(e, k)]
    BY <2>1
  <2> QED BY <2>2, <2>3
<1> DEFINE F == CHOOSE f : Is(f)
           A == {i \in Nat : i <= N => F[i] \in T}
<1>6. Is(F)
  <2> HIDE DEF Is
  <2> QED BY <1>5
<1>7. \A k \in 0 .. N : F[k] = Body(F, k)
  <2> HIDE DEF F, Body
  <2> QED BY <1>6
<1>8. 0 \in A
  <2> HIDE DEF F, T
  <2> QED BY <1>1, <1>7
<1>9. ASSUME NEW i \in Nat, i \in A PROVE i + 1 \in A
  <2> HIDE DEF F, T, Take
  <2> SUFFICES ASSUME i + 1 <= N PROVE F[i + 1] \in T
    OBVIOUS
  <2>1. F[i] \in T /\ i + 1 \in 1 .. N
    BY <1>1, <1>9
  <2>2. F[i + 1] = Take(F[i], i + 1)
    BY <1>1, <1>7, <2>1
  <2> QED BY <1>2, <2>1, <2>2
<1>10. N \in A
  <2> HIDE DEF A
  <2> QED BY <1>1, <1>8, <1>9, SetInduction
<1>11. Chosen = F[N]
  BY DEF Chosen
<1> QED
  <2> HIDE DEF F, T
  <2> QED BY <1>1, <1>10, <1>11
-----------------------------------------------------------------------------
(* Command lines.                                                          *)

Values == [text : STRING \cup {"?"}, hops : Nat]

IsAll(call, i) == call[i].exp = "all"

(* What one word expands to. *)
LEMMA ExpandTells ==
  ASSUME NEW call \in Calls, NEW i \in 1 .. Len(call),
         NEW args \in Seq(Values), NEW cost \in Nat,
         NEW e, e = Expand(call, i, args, cost)
  PROVE  /\ e \in Seq(Values)
         /\ IsAll(call, i) =>
              /\ Len(e) = Len(args)
              /\ \A j \in 1 .. Len(e) : /\ e[j].text = args[j].text
                                        /\ e[j].hops = args[j].hops + cost
         /\ ~IsAll(call, i) =>
              /\ Len(e) = 1
              /\ \/ e[1].text = "?"
                 \/ /\ call[i].exp = "none" /\ e[1].text = call[i].text
                    /\ (\E j \in 1 .. i - 1 : IsAll(call, j)) => e[1].hops = 2
                    /\ (\A j \in 1 .. i - 1 : ~IsAll(call, j)) => e[1].hops = 0
<1>1. call[i] \in Words
  BY DEF Calls
<1>2. CASE IsAll(call, i)
  <2>1. e = [j \in 1 .. Len(args) |-> [args[j] EXCEPT !.hops = @ + cost]]
    BY <1>2 DEF Expand, IsAll
  <2>2. ASSUME NEW j \in 1 .. Len(args)
        PROVE  /\ e[j] \in Values /\ e[j].text = args[j].text
               /\ e[j].hops = args[j].hops + cost
    <3>1. args[j] \in Values
      OBVIOUS
    <3>2. args[j].text \in STRING \cup {"?"} /\ args[j].hops + cost \in Nat
          /\ args[j] = [text |-> args[j].text, hops |-> args[j].hops]
      BY <3>1 DEF Values
    <3>3. e[j] = [args[j] EXCEPT !.hops = @ + cost]
      BY <2>1
    <3>4. e[j] = [text |-> args[j].text, hops |-> args[j].hops + cost]
      BY <3>2, <3>3
    <3> QED BY <3>2, <3>4 DEF Values
  <2>3. e \in Seq(Values) /\ Len(e) = Len(args)
    <3>1. Len(args) \in Nat /\ e \in [1 .. Len(args) -> Values]
      BY <2>1, <2>2
    <3> QED BY <3>1
  <2> QED BY <1>2, <2>2, <2>3
<1>3. CASE call[i].exp = "var"
  <2>1. e = <<[text |-> "?", hops |-> 0]>>
    BY <1>3 DEF Expand
  <2>2. [text |-> "?", hops |-> 0] \in Values
    BY DEF Values
  <2> QED BY <1>3, <2>1, <2>2 DEF IsAll
<1>4. CASE call[i].exp = "none"
  <2> DEFINE after == \E j \in 1 .. i - 1 : call[j].exp = "all"
             h == IF after THEN 2 ELSE 0
             v == [text |-> call[i].text, hops |-> h]
  <2>1. e = <<v>>
    BY <1>4 DEF Expand
  <2>2. h \in Nat /\ (after => h = 2) /\ (~after => h = 0)
    OBVIOUS
  <2> HIDE DEF h
  <2>3. v \in Values /\ v.text = call[i].text /\ v.hops = h
    BY <1>1, <2>2 DEF Values, Words
  <2> HIDE DEF v
  <2>4. e \in Seq(Values) /\ Len(e) = 1 /\ e[1] = v
    BY <2>1, <2>3
  <2> QED BY <1>4, <2>2, <2>3, <2>4 DEF IsAll
<1> QED BY <1>1, <1>2, <1>3, <1>4 DEF Words, IsAll

(* CommandLine, one word after the other. *)
IsExpansion(f, call, args, cost) ==
  /\ f \in [0 .. Len(call) -> Seq(Values)]
  /\ f[0] = <<>> /\ CommandLine(call, args, cost) = f[Len(call)]
  /\ \A k \in 1 .. Len(call) : f[k] = f[k - 1] \o Expand(call, k, args, cost)

(* There are such steps. *)
LEMMA ExpansionSteps ==
  ASSUME NEW call \in Calls, NEW args \in Seq(Values), NEW cost \in Nat
  PROVE  \E f : IsExpansion(f, call, args, cost)
<1> DEFINE N == Len(call)
           T == Seq(Values)
           X(k) == Expand(call, k, args, cost)
           g == [x \in (1 .. N) \X T |-> x[2] \o X(x[1])]
           Body(f, k) == IF k = 0 THEN <<>> ELSE f[k - 1] \o X(k)
           Is(f) == f = [k \in 0 .. N |-> Body(f, k)]
<1>1. N \in Nat /\ <<>> \in T
  BY DEF Calls
<1>2. \A k \in 1 .. N : X(k) \in T
  BY ExpandTells
<1>3. \A q \in T, k \in 1 .. N : q \o X(k) \in T
  <2> HIDE DEF X
  <2> QED BY <1>2
<1>4. g \in [(1 .. N) \X T -> T]
  <2> HIDE DEF X
  <2>1. \A x \in (1 .. N) \X T : x[2] \o X(x[1]) \in T
    BY <1>3
  <2> QED BY <2>1
<1> HIDE DEF X
<1>5. PICK e \in [0 .. N -> T] :
        e[0] = <<>> /\ \A k \in 1 .. N : e[k] = g[<<k, e[k - 1]>>]
  <2> DEFINE base == <<>>
  <2>1. base \in T
    BY <1>1
  <2> HIDE DEF g, N, T, base
  <2>2. \E e : IsRecursion(e, N, T, base, g)
    BY <1>1, <1>4, <2>1, RecursionExists
  <2> QED BY <2>2 DEF base, IsRecursion
<1>6. Is(e)
  <2>1. ASSUME NEW k \in 0 .. N PROVE e[k] = Body(e, k)
    <3>1. CASE k = 0
      BY <1>5, <3>1
    <3>2. CASE k # 0
      <4>1. k \in 1 .. N /\ <<k, e[k - 1]>> \in (1 .. N) \X T
        BY <1>1, <1>5, <3>2
      <4>2. e[k] = g[<<k, e[k - 1]>>]
        BY <1>5, <4>1
      <4>3. g[<<k, e[k - 1]>>] = e[k - 1] \o X(k)
        <5> HIDE DEF T, N
        <5> QED BY <4>1
      <4> QED BY <3>2, <4>2, <4>3
    <3> QED BY <3>1, <3>2
  <2>2. e = [k \in 0 .. N |-> e[k]]
    BY <1>5
  <2> HIDE DEF Body
  <2>3. [k \in 0 .. N |-> e[k]] = [k \in 0 .. N |-> Body(e, k)]
    BY <2>1
  <2> QED BY <2>2, <2>3
<1> DEFINE F == CHOOSE f : Is(f)
           A == {i \in Nat : i <= N => F[i] \in T}
<1>7. Is(F)
  <2> HIDE DEF Is
  <2> QED BY <1>6
<1>8. \A k \in 0 .. N : F[k] = Body(F, k)
  <2> HIDE DEF F, Body
  <2> QED BY <1>7
<1>9. F[0] = <<>> /\ 0 \in A
  <2> HIDE DEF F, T
  <2> QED BY <1>1, <1>8
<1>10. ASSUME NEW i \in Nat, i \in A PROVE i + 1 \in A
  <2> HIDE DEF F, T
  <2> SUFFICES ASSUME i + 1 <= N PROVE F[i + 1] \in T
    OBVIOUS
  <2>1. F[i] \in T /\ i + 1 \in 1 .. N
    BY <1>1, <1>10
  <2>2. F[i + 1] = F[i] \o X(i + 1)
    BY <1>1, <1>8, <2>1
  <2> QED BY <1>3, <2>1, <2>2
<1>11. \A k \in 0 .. N : F[k] \in T
  <2>1. \A i \in Nat : i \in A
    <3> HIDE DEF A
    <3> QED BY <1>9, <1>10, SetInduction
  <2> HIDE DEF F, T
  <2> QED BY <1>1, <2>1
<1>12. F \in [0 .. N -> T]
  <2> HIDE DEF F, Body, T
  <2> QED BY <1>7, <1>11
<1>13. CommandLine(call, args, cost) = F[N]
  BY DEF CommandLine, X
<1>14. \A k \in 1 .. N : F[k] = F[k - 1] \o X(k)
  <2> HIDE DEF F
  <2> SUFFICES ASSUME NEW k \in 1 .. N PROVE F[k] = F[k - 1] \o X(k)
    OBVIOUS
  <2>1. k \in 0 .. N /\ k # 0
    BY <1>1
  <2> QED BY <1>8, <2>1
<1> HIDE DEF F
<1>15. IsExpansion(F, call, args, cost)
  BY <1>9, <1>12, <1>13, <1>14 DEF IsExpansion, X
<1> QED BY <1>15
(* What the first words of a call have expanded to: the first value, by    *)
(* what the first word is, and the second.                                 *)
Upto(q, i, call, args, cost) ==
  /\ q \in Seq(Values)
  /\ ~IsAll(call, 1) =>
       /\ Len(q) > 0
       /\ q[1].text = "?" \/ (call[1].exp = "none" /\ q[1].text = call[1].text)
       /\ Len(q) > 1 => \/ q[2].text = "?" \/ q[2].hops > 0
                        \/ Len(call) > 1 /\ q[2].text = call[2].text
       /\ i > 1 /\ Len(q) = 1 => IsAll(call, 2)
  /\ IsAll(call, 1) =>
       /\ \A k \in 1 .. Len(q) : q[k].text = "?" \/ q[k].hops > 0
       /\ args # <<>> => /\ Len(q) > 0 /\ q[1].text = args[1].text
                         /\ q[1].hops = args[1].hops + cost
       /\ args = <<>> => \A k \in 1 .. Len(q) : q[k].text = "?" \/ q[k].hops > 1

(* After the first word. *)
LEMMA UptoOne ==
  ASSUME NEW call \in Calls, NEW args \in Seq(Values), NEW cost \in Nat \ {0},
         NEW e, e = Expand(call, 1, args, cost)
  PROVE  Upto(e, 1, call, args, cost)
<1>1. 1 \in 1 .. Len(call)
  BY DEF Calls
<1>2. /\ e \in Seq(Values) /\ Len(e) \in Nat
      /\ IsAll(call, 1) =>
           /\ Len(e) = Len(args)
           /\ \A j \in 1 .. Len(e) : /\ e[j].text = args[j].text
                                     /\ e[j].hops = args[j].hops + cost
      /\ ~IsAll(call, 1) =>
           /\ Len(e) = 1
           /\ e[1].text = "?" \/ (call[1].exp = "none" /\ e[1].text = call[1].text)
  BY <1>1, ExpandTells
<1>3. ASSUME IsAll(call, 1), NEW k \in 1 .. Len(e) PROVE e[k].hops > 0
  <2>1. args[k] \in Values /\ e[k].hops = args[k].hops + cost
    BY <1>2, <1>3
  <2>2. args[k].hops \in Nat
    BY <2>1 DEF Values
  <2> QED BY <2>1, <2>2
<1>4. ASSUME IsAll(call, 1), args # <<>>
      PROVE  /\ Len(e) > 0 /\ e[1].text = args[1].text
             /\ e[1].hops = args[1].hops + cost
  <2>1. Len(args) \in Nat /\ Len(args) # 0
    BY <1>4
  <2> QED BY <1>2, <1>4, <2>1
<1>5. ASSUME IsAll(call, 1), args = <<>>
      PROVE  1 .. Len(e) = {}
  BY <1>2, <1>5
<1> QED BY <1>2, <1>3, <1>4, <1>5 DEF Upto

(* Of small numbers. *)
LEMMA Small ==
  ASSUME NEW a \in Nat, a > 0
  PROVE  (a > 1 \/ a = 1) /\ \A b \in Nat : a + b = 1 => a = 1 /\ b = 0
OBVIOUS

(* One word more. *)
LEMMA UptoNext ==
  ASSUME NEW call \in Calls, NEW args \in Seq(Values), NEW cost \in Nat \ {0},
         NEW i \in Nat, i > 0, i + 1 <= Len(call),
         NEW q, Upto(q, i, call, args, cost),
         NEW e, e = Expand(call, i + 1, args, cost)
  PROVE  Upto(q \o e, i + 1, call, args, cost)
<1> DEFINE p == q \o e
           n == i + 1
<1>1. n \in 1 .. Len(call) /\ n \in Nat /\ n - 1 = i /\ n > 1 /\ Len(call) > 1
  BY DEF Calls
<1>2. /\ e \in Seq(Values)
      /\ IsAll(call, n) =>
           /\ Len(e) = Len(args)
           /\ \A j \in 1 .. Len(e) : /\ e[j].text = args[j].text
                                     /\ e[j].hops = args[j].hops + cost
      /\ ~IsAll(call, n) =>
           /\ Len(e) = 1
           /\ \/ e[1].text = "?"
              \/ /\ call[n].exp = "none" /\ e[1].text = call[n].text
                 /\ (\E j \in 1 .. n - 1 : IsAll(call, j)) => e[1].hops = 2
  BY <1>1, ExpandTells
<1>3. q \in Seq(Values)
  BY DEF Upto
<1>4. /\ p \in Seq(Values) /\ Len(p) = Len(q) + Len(e)
      /\ \A k \in 1 .. Len(q) : p[k] = q[k]
      /\ \A k \in 1 .. Len(p) :
           k > Len(q) => k - Len(q) \in 1 .. Len(e) /\ p[k] = e[k - Len(q)]
  <2>1. p \in Seq(Values) /\ Len(p) = Len(q) + Len(e)
    BY <1>2, <1>3
  <2>2. \A k \in 1 .. Len(p) : p[k] = IF k <= Len(q) THEN q[k] ELSE e[k - Len(q)]
    BY <1>2, <1>3
  <2>3. Len(q) \in Nat /\ Len(e) \in Nat
    BY <1>2, <1>3
  <2> HIDE DEF p
  <2>4. ASSUME NEW k \in 1 .. Len(q) PROVE p[k] = q[k]
    <3>1. k \in 1 .. Len(p) /\ k <= Len(q)
      BY <2>1, <2>3
    <3> QED BY <2>2, <3>1
  <2>5. ASSUME NEW k \in 1 .. Len(p), k > Len(q)
        PROVE  k - Len(q) \in 1 .. Len(e) /\ p[k] = e[k - Len(q)]
    <3>1. k - Len(q) \in 1 .. Len(e) /\ ~(k <= Len(q))
      BY <2>1, <2>3, <2>5
    <3> QED BY <2>2, <3>1
  <2> QED BY <2>1, <2>4, <2>5
<1>5. Len(q) \in Nat /\ Len(e) \in Nat /\ Len(p) \in Nat
  BY <1>2, <1>3, <1>4
<1> HIDE DEF p, n
(* A value of the next word is unknown, or comes from args, or is late. *)
<1>6. ASSUME NEW k \in 1 .. Len(e), \E j \in 1 .. n - 1 : IsAll(call, j)
      PROVE  /\ e[k].text = "?" \/ e[k].hops > 0
             /\ args = <<>> => e[k].text = "?" \/ e[k].hops > 1
  <2>1. CASE IsAll(call, n)
    <3>1. k \in 1 .. Len(args) /\ args[k] \in Values /\ e[k].hops = args[k].hops + cost
      BY <1>2, <2>1
    <3>2. args[k].hops \in Nat
      BY <3>1 DEF Values
    <3>3. args # <<>>
      BY <3>1
    <3> QED BY <3>1, <3>2, <3>3
  <2>2. CASE ~IsAll(call, n)
    <3>1. Len(e) = 1 /\ k \in 1 .. Len(e)
      BY <1>2, <2>2
    <3>2. k = 1
      BY ONLY <3>1
    <3> QED BY <1>2, <1>6, <2>2, <3>2
  <2> QED BY <2>1, <2>2
<1>7. ASSUME ~IsAll(call, 1)
      PROVE  /\ Len(p) > 0
             /\ p[1].text = "?" \/ (call[1].exp = "none" /\ p[1].text = call[1].text)
             /\ Len(p) > 1 => \/ p[2].text = "?" \/ p[2].hops > 0
                              \/ Len(call) > 1 /\ p[2].text = call[2].text
             /\ Len(p) = 1 => IsAll(call, 2)
  <2>1. /\ Len(q) > 0 /\ 1 \in 1 .. Len(q) /\ Len(p) > 0
        /\ q[1].text = "?" \/ (call[1].exp = "none" /\ q[1].text = call[1].text)
        /\ Len(q) > 1 => \/ q[2].text = "?" \/ q[2].hops > 0
                         \/ Len(call) > 1 /\ q[2].text = call[2].text
        /\ i > 1 /\ Len(q) = 1 => IsAll(call, 2)
    BY <1>4, <1>5, <1>7 DEF Upto
  <2>2. p[1] = q[1]
    BY <1>4, <2>1
  <2>3. ASSUME Len(p) > 1
        PROVE  \/ p[2].text = "?" \/ p[2].hops > 0
               \/ Len(call) > 1 /\ p[2].text = call[2].text
    <3>1. CASE Len(q) > 1
      <4>1. 2 \in 1 .. Len(q)
        BY <1>5, <3>1
      <4>2. p[2] = q[2]
        BY <1>4, <4>1
      <4> QED BY <2>1, <3>1, <4>2
    <3>2. CASE Len(q) = 1
      <4>1. 2 \in 1 .. Len(p) /\ 2 > Len(q) /\ 2 - Len(q) = 1
        BY <1>5, <2>3, <3>2
      <4>2. 1 \in 1 .. Len(e) /\ p[2] = e[1]
        BY <1>4, <4>1
      <4>3. CASE i > 1
        <5>1. 2 \in 1 .. n - 1 /\ IsAll(call, 2)
          BY <1>1, <2>1, <3>2, <4>3
        <5> QED BY <1>6, <4>2, <5>1
      <4>4. CASE i = 1
        <5>1. n = 2
          BY <4>4 DEF n
        <5>2. CASE IsAll(call, n)
          <6>1. /\ 1 \in 1 .. Len(args) /\ args[1] \in Values
                /\ e[1].hops = args[1].hops + cost
            BY <1>2, <4>2, <5>2
          <6>2. args[1].hops \in Nat
            BY <6>1 DEF Values
          <6>3. e[1].hops > 0
            BY <6>1, <6>2
          <6> QED BY <4>2, <6>3
        <5>3. CASE ~IsAll(call, n)
          BY <1>1, <1>2, <4>2, <5>1, <5>3
        <5> QED BY <5>2, <5>3
      <4> QED BY <4>3, <4>4
    <3>3. Len(q) > 1 \/ Len(q) = 1
      <4>1. Len(q) > 0
        BY <2>1
      <4> QED BY ONLY <1>5, <4>1, Small
    <3> QED BY <3>1, <3>2, <3>3
  <2>4. ASSUME Len(p) = 1 PROVE IsAll(call, 2)
    <3>1. Len(q) = 1 /\ Len(e) = 0
      <4>1. Len(q) > 0 /\ Len(p) = Len(q) + Len(e)
        BY <1>4, <2>1
      <4> QED BY ONLY <1>5, <2>4, <4>1, Small
    <3>2. CASE i > 1
      BY <2>1, <3>1, <3>2
    <3>3. CASE i = 1
      <4>1. n = 2
        BY <3>3 DEF n
      <4> QED BY <1>2, <3>1, <4>1
    <3> QED BY <3>2, <3>3
  <2> QED BY <2>1, <2>2, <2>3, <2>4
<1>8. ASSUME IsAll(call, 1)
      PROVE  /\ \A k \in 1 .. Len(p) : p[k].text = "?" \/ p[k].hops > 0
             /\ args # <<>> => /\ Len(p) > 0 /\ p[1].text = args[1].text
                               /\ p[1].hops = args[1].hops + cost
             /\ args = <<>> => \A k \in 1 .. Len(p) : p[k].text = "?" \/ p[k].hops > 1
  <2>1. /\ \A k \in 1 .. Len(q) : q[k].text = "?" \/ q[k].hops > 0
        /\ args # <<>> => /\ Len(q) > 0 /\ q[1].text = args[1].text
                          /\ q[1].hops = args[1].hops + cost
        /\ args = <<>> => \A k \in 1 .. Len(q) : q[k].text = "?" \/ q[k].hops > 1
    BY <1>8 DEF Upto
  <2>2. \E j \in 1 .. n - 1 : IsAll(call, j)
    <3>1. 1 \in 1 .. n - 1
      BY <1>1
    <3> QED BY <1>8, <3>1
  <2>3. ASSUME NEW k \in 1 .. Len(p)
        PROVE  /\ p[k].text = "?" \/ p[k].hops > 0
               /\ args = <<>> => p[k].text = "?" \/ p[k].hops > 1
    <3>1. CASE k <= Len(q)
      <4>1. k \in 1 .. Len(q)
        BY <1>5, <3>1
      <4> QED BY <1>4, <2>1, <4>1
    <3>2. CASE k > Len(q)
      <4>1. k - Len(q) \in 1 .. Len(e) /\ p[k] = e[k - Len(q)]
        BY <1>4, <3>2
      <4> HIDE DEF n
      <4> DEFINE m == k - Len(q)
      <4>2. m \in 1 .. Len(e) /\ p[k] = e[m]
        BY <4>1
      <4> HIDE DEF m
      <4> QED BY <1>6, <2>2, <4>2
    <3>3. k <= Len(q) \/ k > Len(q)
      BY <1>5
    <3> QED BY <3>1, <3>2, <3>3
  <2>4. ASSUME args # <<>>
        PROVE  /\ Len(p) > 0 /\ p[1].text = args[1].text
               /\ p[1].hops = args[1].hops + cost
    <3>1. 1 \in 1 .. Len(q) /\ Len(p) > 0
      BY <1>4, <1>5, <2>1, <2>4
    <3> QED BY <1>4, <2>1, <2>4, <3>1
  <2> QED BY <2>3, <2>4
<1>9. Upto(p, n, call, args, cost)
  BY <1>4, <1>7, <1>8 DEF Upto
<1> QED BY <1>9 DEF p, n
(* The line that a call comes to. *)
LEMMA LineTells ==
  ASSUME NEW call \in Calls, NEW args \in Seq(Values), NEW cost \in Nat \ {0}
  PROVE  Upto(CommandLine(call, args, cost), Len(call), call, args, cost)
<1> DEFINE N == Len(call)
           X(k) == Expand(call, k, args, cost)
<1>1. PICK f : IsExpansion(f, call, args, cost)
  BY ExpansionSteps
<1>2. /\ f \in [0 .. N -> Seq(Values)] /\ f[0] = <<>>
      /\ CommandLine(call, args, cost) = f[N]
      /\ \A k \in 1 .. N : f[k] = f[k - 1] \o X(k)
  BY <1>1 DEF IsExpansion
<1>3. N \in Nat /\ 1 <= N
  BY DEF Calls
<1> DEFINE P(i) == Upto(f[i], i, call, args, cost)
           A == {i \in Nat : i + 1 <= N => P(i + 1)}
<1>4. P(1)
  <2>1. 1 \in 1 .. N /\ 1 - 1 = 0
    BY <1>3
  <2>2. f[1] = f[0] \o X(1)
    BY <1>2, <2>1
  <2>3. X(1) \in Seq(Values)
    BY <2>1, ExpandTells
  <2> HIDE DEF X
  <2>4. f[1] = X(1)
    BY <1>2, <2>2, <2>3
  <2> QED BY <2>4, UptoOne DEF X
<1>5. ASSUME NEW i \in Nat, i > 0, i + 1 <= N, P(i) PROVE P(i + 1)
  <2>1. i + 1 \in 1 .. N /\ (i + 1) - 1 = i
    BY <1>3, <1>5
  <2>2. f[i + 1] = f[i] \o X(i + 1)
    BY <1>2, <2>1
  <2> QED BY <1>5, <2>2, UptoNext
<1> HIDE DEF P
<1>6. 0 \in A
  BY <1>4
<1>7. ASSUME NEW i \in Nat, i \in A PROVE i + 1 \in A
  <2> SUFFICES ASSUME (i + 1) + 1 <= N PROVE P((i + 1) + 1)
    OBVIOUS
  <2>1. i + 1 \in Nat /\ i + 1 > 0 /\ i + 1 <= N
    BY <1>3
  <2>2. P(i + 1)
    BY <1>7, <2>1
  <2> DEFINE j == i + 1
  <2>3. j \in Nat /\ j > 0 /\ j + 1 <= N /\ P(j)
    BY <2>1, <2>2
  <2> HIDE DEF j, N
  <2>4. P(j + 1)
    BY <1>5, <2>3
  <2> QED BY <2>4 DEF j
<1>8. N - 1 \in Nat /\ (N - 1) + 1 = N
  BY <1>3
<1>9. N - 1 \in A
  <2> HIDE DEF A, N
  <2> QED BY <1>6, <1>7, <1>8, SetInduction
<1>10. P(N)
  <2> HIDE DEF N
  <2> QED BY <1>3, <1>8, <1>9
<1> QED BY <1>2, <1>10 DEF P

(* What the first value of a line says: it is a word of the call, or came  *)
(* with args.                                                              *)
LEMMA HeadTells ==
  ASSUME NEW call \in Calls, NEW args \in Seq(Values), NEW cost \in Nat \ {0},
         NEW l, l = CommandLine(call, args, cost), l # <<>>,
         l[1].hops <= 1, l[1].text # "?"
  PROVE  \/ l[1].text = call[1].text
         \/ /\ IsAll(call, 1) /\ args # <<>>
            /\ l[1].text = args[1].text /\ args[1].hops = 0 /\ cost = 1
<1>1. Upto(l, Len(call), call, args, cost)
  BY LineTells
<1>2. l \in Seq(Values) /\ 1 \in 1 .. Len(l)
  <2>1. l \in Seq(Values)
    BY <1>1 DEF Upto
  <2>2. Len(l) \in Nat /\ Len(l) # 0
    BY <2>1
  <2> QED BY <2>1, <2>2
<1>3. CASE ~IsAll(call, 1)
  BY <1>1, <1>3 DEF Upto
<1>4. CASE IsAll(call, 1) /\ args # <<>>
  <2>1. l[1].text = args[1].text /\ l[1].hops = args[1].hops + cost
    BY <1>1, <1>4 DEF Upto
  <2>2. 1 \in 1 .. Len(args)
    <3>1. Len(args) \in Nat /\ Len(args) # 0
      BY <1>4
    <3> QED BY <3>1
  <2>3. args[1].hops \in Nat
    <3>1. args[1] \in Values
      BY <2>2
    <3> QED BY <3>1 DEF Values
  <2>4. args[1].hops + cost <= 1
    BY <2>1
  <2>5. args[1].hops = 0 /\ cost = 1
    BY <2>3, <2>4
  <2> QED BY <1>4, <2>1, <2>5
<1>5. CASE IsAll(call, 1) /\ args = <<>>
  <2>1. l[1].hops > 1
    BY <1>1, <1>2, <1>5 DEF Upto
  <2>2. l[1] \in Values
    BY <1>2
  <2>3. l[1].hops \in Nat
    BY <2>2 DEF Values
  <2> QED BY <2>1, <2>3
<1> QED BY <1>3, <1>4, <1>5

(* And the second: a value that has come through nothing is the second     *)
(* word of the call, and stands where the call has it.                     *)
LEMMA SecondTells ==
  ASSUME NEW call \in Calls, NEW args \in Seq(Values), NEW cost \in Nat \ {0},
         NEW l, l = CommandLine(call, args, cost), Len(l) > 1,
         l[2].hops = 0, l[2].text # "?"
  PROVE  /\ Len(call) > 1 /\ l[2].text = call[2].text
         /\ l[1].text = "?" \/ l[1].text = call[1].text
<1>1. Upto(l, Len(call), call, args, cost)
  BY LineTells
<1>2. l \in Seq(Values) /\ 2 \in 1 .. Len(l)
  <2>1. l \in Seq(Values)
    BY <1>1 DEF Upto
  <2> QED BY <2>1
<1>3. ~IsAll(call, 1)
  BY <1>1, <1>2 DEF Upto
<1> QED BY <1>1, <1>3 DEF Upto
-----------------------------------------------------------------------------
(* The lines a shell comes to.                                             *)

(* The texts at which extractDeps looks. *)
Named(s) == UNION {Candidates(s, c) : c \in AllCalls(s)}

(* A line begins with a text that extractDeps looks at, unless nobody      *)
(* knows the value or it has come far; and so does what a function that    *)
(* executes its arguments is to execute.                                   *)
LineOK(s, l) ==
  /\ l \in Seq(Values) /\ l # <<>>
  /\ l[1].hops <= 1 /\ l[1].text # "?" => l[1].text \in Named(s)
  /\ Len(l) > 1 /\ l[2].hops = 0 /\ l[2].text # "?" /\ l[1].text \in Wrappers(s) =>
       l[2].text \in Named(s)

(* A line of a body comes from one of its calls, with the arguments that   *)
(* the shifts before it have left.                                         *)
LEMMA BodyLineFrom ==
  ASSUME NEW body \in Seq(Calls), NEW args \in Seq(Values),
         NEW l \in BodyLines(body, args)
  PROVE  /\ l # <<>>
         /\ \E i \in 1 .. Len(body), cost \in Nat \ {0} :
              l = CommandLine(body[i], SubSeq(args, cost, Len(args)), cost)
<1> DEFINE Before(i) == {j \in 1 .. i - 1 : Head1(body[j]) = "shift"}
           Sh(i) == Cardinality(Before(i))
<1>1. PICK i \in DOMAIN body :
        l = CommandLine(body[i], SubSeq(args, Sh(i) + 1, Len(args)), Sh(i) + 1)
  BY DEF BodyLines
<1>2. i \in 1 .. Len(body) /\ i \in Nat
  OBVIOUS
<1>3. Sh(i) \in Nat
  <2>1. IsFiniteSet(1 .. i - 1)
    BY <1>2, FS_Interval
  <2>2. Before(i) \subseteq 1 .. i - 1
    OBVIOUS
  <2> HIDE DEF Before
  <2> QED BY <2>1, <2>2, FS_Subset, FS_CardinalityType
<1> DEFINE cost == Sh(i) + 1
<1>4. cost \in Nat \ {0} /\ l = CommandLine(body[i], SubSeq(args, cost, Len(args)), cost)
  <2> HIDE DEF Sh
  <2> QED BY <1>1, <1>3
<1>5. l # <<>>
  BY DEF BodyLines
<1> HIDE DEF cost
<1> QED BY <1>2, <1>4, <1>5

LEMMA BodyLineOK ==
  ASSUME NEW s, IsScript(s), NEW body \in Seq(Calls), NEW args \in Seq(Values),
         \A i \in 1 .. Len(body) : body[i] \in AllCalls(s),
         (/\ args # <<>> /\ args[1].hops = 0 /\ args[1].text # "?"
          /\ ExecutesArguments(body)) => args[1].text \in Named(s),
         NEW l \in BodyLines(body, args)
  PROVE  LineOK(s, l)
<1>1. PICK i \in 1 .. Len(body), cost \in Nat \ {0} :
        l = CommandLine(body[i], SubSeq(args, cost, Len(args)), cost)
  BY BodyLineFrom
<1> DEFINE c == body[i]
           a == SubSeq(args, cost, Len(args))
<1>2. l # <<>> /\ c \in Calls /\ c \in AllCalls(s)
  BY BodyLineFrom
<1>3. a \in Seq(Values)
  OBVIOUS
<1>4. cost = 1 => a = args
  OBVIOUS
<1>5. l = CommandLine(c, a, cost)
  BY <1>1
<1>6. IsAll(c, 1) => ExecutesArguments(body)
  BY DEF IsAll, ExecutesArguments
<1> HIDE DEF c, a
<1>7. l \in Seq(Values)
  BY <1>2, <1>3, <1>5, LineTells DEF Upto
<1>8. Candidates(s, c) \subseteq Named(s)
  BY <1>2 DEF Named
<1>9. c[1].text \in Named(s)
  BY <1>8 DEF Candidates, Head1
<1>10. ASSUME l[1].hops <= 1, l[1].text # "?"
       PROVE  l[1].text \in Named(s)
  <2>1. \/ l[1].text = c[1].text
        \/ /\ IsAll(c, 1) /\ a # <<>>
           /\ l[1].text = a[1].text /\ a[1].hops = 0 /\ cost = 1
    BY <1>2, <1>3, <1>5, <1>10, HeadTells
  <2>2. ASSUME IsAll(c, 1), a # <<>>, l[1].text = a[1].text, a[1].hops = 0, cost = 1
        PROVE  l[1].text \in Named(s)
    <3>1. args # <<>> /\ args[1].hops = 0 /\ args[1].text = l[1].text
      BY <1>4, <2>2
    <3> QED BY <1>6, <1>10, <2>2, <3>1
  <2> QED BY <1>9, <2>1, <2>2
<1>11. ASSUME Len(l) > 1, l[2].hops = 0, l[2].text # "?", l[1].text \in Wrappers(s)
       PROVE  l[2].text \in Named(s)
  <2>1. /\ Len(c) > 1 /\ l[2].text = c[2].text
        /\ l[1].text = "?" \/ l[1].text = c[1].text
    BY <1>2, <1>3, <1>5, <1>11, SecondTells
  <2>2. l[1].text # "?"
    BY <1>11 DEF Wrappers, IsScript
  <2>3. c[2].text \in Candidates(s, c)
    BY <1>11, <2>1, <2>2 DEF Candidates, Head1
  <2> QED BY <1>8, <2>1, <2>3
<1> QED BY <1>2, <1>7, <1>10, <1>11 DEF LineOK

(* The script itself. *)
LEMMA TopLineOK ==
  ASSUME NEW s, IsScript(s), NEW l \in BodyLines(s.calls, <<>>)
  PROVE  LineOK(s, l)
<1> DEFINE body == s.calls
           args == <<>>
<1>1. body \in Seq(Calls)
  BY DEF IsScript
<1>2. \A i \in 1 .. Len(body) : body[i] \in AllCalls(s)
  BY <1>1 DEF AllCalls, ToSet
<1>3. args \in Seq(Values) /\ ~(args # <<>>) /\ l \in BodyLines(body, args)
  OBVIOUS
<1> HIDE DEF body, args
<1> QED BY <1>1, <1>2, <1>3, BodyLineOK

(* A function that a line calls. *)
LEMMA FunctionLineOK ==
  ASSUME NEW s, IsScript(s), NEW k, LineOK(s, k), k[1].text \in DOMAIN s.funs,
         NEW l \in BodyLines(s.funs[k[1].text], Tail(k))
  PROVE  LineOK(s, l)
<1> DEFINE body == s.funs[k[1].text]
           args == Tail(k)
<1>1. body \in Seq(Calls)
  BY DEF IsScript
<1>2. \A i \in 1 .. Len(body) : body[i] \in AllCalls(s)
  <2>1. body \in Range(s.funs)
    BY DEF Range
  <2> HIDE DEF body
  <2> QED BY <1>1, <2>1 DEF AllCalls, ToSet
<1>3. k \in Seq(Values) /\ k # <<>>
  BY DEF LineOK
<1>4. args \in Seq(Values)
  BY <1>3
<1>5. args # <<>> => Len(k) > 1 /\ args[1] = k[2]
  BY <1>3
<1>6. ExecutesArguments(body) => k[1].text \in Wrappers(s)
  BY DEF Wrappers
<1> HIDE DEF body, args
<1>7. (/\ args # <<>> /\ args[1].hops = 0 /\ args[1].text # "?"
       /\ ExecutesArguments(body)) => args[1].text \in Named(s)
  BY <1>5, <1>6 DEF LineOK
<1>8. l \in BodyLines(body, args)
  BY DEF body, args
<1> QED BY <1>1, <1>2, <1>4, <1>7, <1>8, BodyLineOK
(* The lines that functions within functions come to. *)
LEMMA LinesOK ==
  ASSUME NEW s, IsScript(s), NEW l \in CommandLines(s)
  PROVE  LineOK(s, l)
<1> DEFINE N == MaxDepth
           Good == {k \in Seq(Values) : LineOK(s, k)}
           T == SUBSET Good
           base == BodyLines(s.calls, <<>>)
           Called(k) == IF k[1].text \in DOMAIN s.funs
                        THEN BodyLines(s.funs[k[1].text], Tail(k)) ELSE {}
           More(L) == L \cup UNION {Called(k) : k \in L}
           g == [x \in (1 .. N) \X T |-> More(x[2])]
           Body(f, n) == IF n = 0 THEN base ELSE More(f[n - 1])
           Is(f) == f = [n \in 0 .. N |-> Body(f, n)]
<1>1. N \in Nat
  BY DepthAssumption
<1>2. base \in T
  BY TopLineOK DEF LineOK
<1>3. \A L \in T : More(L) \in T
  <2> SUFFICES ASSUME NEW L \in T, NEW k \in L, NEW m \in Called(k) PROVE m \in Good
    OBVIOUS
  <2>1. LineOK(s, k) /\ k[1].text \in DOMAIN s.funs
        /\ m \in BodyLines(s.funs[k[1].text], Tail(k))
    OBVIOUS
  <2>2. LineOK(s, m)
    BY <2>1, FunctionLineOK
  <2> QED BY <2>2 DEF LineOK
<1> HIDE DEF More, base
<1>4. g \in [(1 .. N) \X T -> T]
  <2> HIDE DEF T
  <2>1. \A x \in (1 .. N) \X T : More(x[2]) \in T
    BY <1>3
  <2> QED BY <2>1
<1>5. PICK e \in [0 .. N -> T] :
        e[0] = base /\ \A n \in 1 .. N : e[n] = g[<<n, e[n - 1]>>]
  <2> HIDE DEF g, N, T
  <2>1. \E e : IsRecursion(e, N, T, base, g)
    BY <1>1, <1>2, <1>4, RecursionExists
  <2> QED BY <2>1 DEF IsRecursion
<1> HIDE DEF T
<1>6. Is(e)
  <2>1. ASSUME NEW n \in 0 .. N PROVE e[n] = Body(e, n)
    <3>1. CASE n = 0
      BY <1>5, <3>1
    <3>2. CASE n # 0
      <4>1. n \in 1 .. N /\ n - 1 \in 0 .. N
        BY <1>1, <3>2
      <4>2. <<n, e[n - 1]>> \in (1 .. N) \X T
        BY <1>5, <4>1
      <4>3. e[n] = g[<<n, e[n - 1]>>]
        BY <1>5, <4>1
      <4>4. g[<<n, e[n - 1]>>] = More(e[n - 1])
        <5> HIDE DEF N
        <5> QED BY <4>2
      <4> QED BY <3>2, <4>3, <4>4
    <3> QED BY <3>1, <3>2
  <2>2. e = [n \in 0 .. N |-> e[n]]
    BY <1>5
  <2> HIDE DEF Body
  <2>3. [n \in 0 .. N |-> e[n]] = [n \in 0 .. N |-> Body(e, n)]
    BY <2>1
  <2> QED BY <2>2, <2>3
<1> DEFINE F == CHOOSE f : Is(f)
           A == {i \in Nat : i <= N => F[i] \in T}
<1>7. Is(F)
  <2> HIDE DEF Is
  <2> QED BY <1>6
<1>8. \A n \in 0 .. N : F[n] = Body(F, n)
  <2> HIDE DEF F, Body
  <2> QED BY <1>7
<1>9. 0 \in A
  <2>1. F[0] = base
    <3> HIDE DEF F
    <3> QED BY <1>1, <1>8
  <2> HIDE DEF F
  <2> QED BY <1>2, <2>1
<1>10. ASSUME NEW i \in Nat, i \in A PROVE i + 1 \in A
  <2> HIDE DEF F
  <2> SUFFICES ASSUME i + 1 <= N PROVE F[i + 1] \in T
    OBVIOUS
  <2>1. F[i] \in T /\ i + 1 \in 0 .. N /\ i + 1 # 0 /\ (i + 1) - 1 = i
    BY <1>1, <1>10
  <2>2. F[i + 1] = More(F[i])
    BY <1>8, <2>1
  <2> QED BY <1>3, <2>1, <2>2
<1>11. N \in A
  <2> HIDE DEF A, N
  <2> QED BY <1>1, <1>9, <1>10, SetInduction
<1>12. CommandLines(s) = F[N]
  BY DEF CommandLines, More, base
<1>13. l \in Good
  <2>1. F[N] \in T
    <3> HIDE DEF F
    <3> QED BY <1>1, <1>11
  <2> HIDE DEF F
  <2> QED BY <1>12, <2>1 DEF T
<1> QED BY <1>13

(* What a shell runs is a dependency. *)
LEMMA RunIsDependency ==
  ASSUME NEW s, IsScript(s)
  PROVE  ProgramsRun(s) \subseteq ExtractDeps(s)
<1> SUFFICES ASSUME NEW t \in ProgramsRun(s) PROVE t \in ExtractDeps(s)
  OBVIOUS
<1>1. PICK l \in CommandLines(s) : l[1].hops <= 1 /\ t = l[1].text
  BY DEF ProgramsRun
<1>2. t \notin Builtins \cup DOMAIN s.funs \cup Aliases(s) \cup Patterned \cup {"", "?"}
  BY DEF ProgramsRun
<1>3. LineOK(s, l)
  BY LinesOK
<1>4. t \in Named(s)
  BY <1>1, <1>2, <1>3 DEF LineOK
<1>5. LooksExternal(s, t)
  BY <1>2 DEF LooksExternal
<1> QED BY <1>4, <1>5 DEF ExtractDeps, Named
-----------------------------------------------------------------------------
(* The commands.                                                           *)

(* What becomes of a file, by the command. *)
ResultOf(f) ==
  IF Broken(f) THEN Failed(f)
  ELSE CASE cmd = "show" -> WithMissing(f)
         [] cmd = "scan" -> InTree(f)
         [] cmd = "check" -> ProcessScript(f)
         [] OTHER -> CheckScriptWithDeps(f)

Possible == {ResultOf(f) : f \in Range(given)}
Files == [i \in DOMAIN results |-> results[i].file]

(* Every chosen file has its result, or waits for it. *)
RunInv ==
  /\ given \in Givens
  /\ results \in Seq(Possible) /\ todo \in Seq(Range(given))
  /\ pc = "start" => results = <<>>
  /\ pc \in {"files", "output"} => Files \o todo = Chosen
  /\ pc = "files" => todo # <<>>
  /\ pc = "output" => todo = <<>>
  /\ pc # "ended" => shown = [verdict |-> "none", lists |-> <<>>]

(* Who returns 0 from a strict check has seen no issue in any chosen file. *)
EndInv ==
  pc = "ended" /\ exit = 0 /\ strict /\ cmd \in {"check", "package"} =>
    \/ Chosen = <<>>
    \/ Files = Chosen /\ \A r \in Range(results) : ~Issue(r)

IInv == TypeOK /\ RunInv /\ EndInv /\ ShownAgrees

(* What a result says of its file. *)
LEMMA ResultTells ==
  ASSUME NEW f, NEW r, r = ResultOf(f), cmd \in {"show", "scan", "check", "package"},
         searched \in BOOLEAN
  PROVE  /\ r.file = f /\ r.missing \subseteq r.deps
         /\ r.error \in BOOLEAN /\ (r.error \/ ~Broken(f))
         /\ ~Broken(f) => r.deps = ExtractDeps(f.script)
         /\ cmd \in {"check", "package"} /\ ~Broken(f) /\ searched =>
              r.missing = MissingInPath(r.deps)
         /\ cmd = "check" /\ ~Broken(f) => r.gnu = GnuWithPath(f.script)
         /\ cmd = "package" /\ ~Broken(f) =>
              r.gnu = IF NeedsCoreutils THEN GnuUses(f.script) ELSE {}
<1> DEFINE deps == ExtractDeps(f.script)
<1>1. CASE Broken(f)
  BY <1>1 DEF ResultOf, Failed
<1>2. /\ Listed(f).file = f /\ Listed(f).error = FALSE /\ Listed(f).deps = deps
      /\ Listed(f).missing = {} /\ Listed(f).gnu = {}
      /\ DOMAIN Listed(f) = {"file", "error", "deps", "missing", "gnu"}
  BY DEF Listed, Failed
<1>3. MissingInPath(deps) \subseteq deps /\ MissingInTree(deps) \subseteq deps
  BY DEF MissingInPath, MissingInTree
<1>4. /\ WithMissing(f).file = f /\ WithMissing(f).error = FALSE
      /\ WithMissing(f).deps = deps
      /\ WithMissing(f).missing = IF searched THEN MissingInPath(deps) ELSE {}
      /\ WithMissing(f).gnu = {}
  BY DEF WithMissing, Listed, Failed
<1>5. CASE ~Broken(f) /\ cmd = "show"
  BY <1>3, <1>4, <1>5 DEF ResultOf
<1>6. CASE ~Broken(f) /\ cmd = "scan"
  <2>1. r = InTree(f)
    BY <1>6 DEF ResultOf
  <2>2. /\ r.file = f /\ r.deps = deps /\ r.error \in BOOLEAN
        /\ r.missing \in {{}, MissingInTree(deps)}
    BY <2>1 DEF InTree, Listed, Failed
  <2> QED BY <1>3, <1>6, <2>2
<1>7. CASE ~Broken(f) /\ cmd = "check"
  <2>1. r = ProcessScript(f)
    BY <1>7 DEF ResultOf
  <2>2. /\ r.file = f /\ r.deps = deps /\ r.error = FALSE
        /\ r.missing = WithMissing(f).missing /\ r.gnu = GnuWithPath(f.script)
    BY <2>1 DEF ProcessScript, WithMissing, Listed, Failed
  <2> QED BY <1>3, <1>4, <1>7, <2>2
<1>8. CASE ~Broken(f) /\ cmd = "package"
  <2>1. r = CheckScriptWithDeps(f)
    BY <1>8 DEF ResultOf
  <2>2. /\ r.file = f /\ r.deps = deps /\ r.error = FALSE
        /\ r.missing = WithMissing(f).missing
        /\ r.gnu = IF NeedsCoreutils THEN GnuUses(f.script) ELSE {}
    BY <2>1 DEF CheckScriptWithDeps, WithMissing, Listed, Failed
  <2> QED BY <1>3, <1>4, <1>8, <2>2
<1> QED BY <1>1, <1>5, <1>6, <1>7, <1>8

(* The files of a run are typed. *)
LEMMA GivenFacts ==
  ASSUME given \in Givens
  PROVE  /\ given \in Seq(Range(given)) /\ Chosen \in Seq(Range(given))
         /\ \A f \in Range(given) : IsScript(f.script)
<1>1. given \in Seq(Range(given)) /\ \A i \in DOMAIN given : IsScript(given[i].script)
  BY ShellDepsAssumption
<1> QED BY <1>1, ChosenType DEF Range

(* Files follows the results. *)
LEMMA FilesFacts ==
  ASSUME NEW S, NEW q \in Seq(S)
  PROVE  LET files(p) == [i \in DOMAIN p |-> p[i].file] IN
         /\ Len(q) \in Nat /\ files(q) \in Seq({x.file : x \in S}) /\ Len(files(q)) = Len(q)
         /\ \A i \in 1 .. Len(q) : files(q)[i] = q[i].file
<1> DEFINE files(p) == [i \in DOMAIN p |-> p[i].file]
           U == {x.file : x \in S}
<1>1. Len(q) \in Nat /\ DOMAIN q = 1 .. Len(q) /\ \A i \in 1 .. Len(q) : q[i] \in S
  OBVIOUS
<1>2. files(q) \in [1 .. Len(q) -> U]
  BY <1>1
<1>3. files(q) \in Seq(U) /\ Len(files(q)) = Len(q)
  <2> HIDE DEF U, files
  <2> QED BY <1>1, <1>2
<1> QED BY <1>1, <1>3

(* The invariant holds at the start. *)
LEMMA InitInv == Init => IInv
<1> SUFFICES ASSUME Init PROVE IInv
  OBVIOUS
<1>1. /\ given \in Givens /\ tree \in Trees /\ results = <<>> /\ todo = <<>>
      /\ pc = "start" /\ exit = -1 /\ shown = [verdict |-> "none", lists |-> <<>>]
      /\ searched \in BOOLEAN /\ cmd \in {"show", "scan", "check", "package"}
  BY DEF Init
<1>2. strict \in BOOLEAN /\ executable \in BOOLEAN /\ apk \in ApkOutputs \cup {<<>>}
  BY DEF Init
<1>3. Range(results) = {} /\ results \in Seq(Possible) /\ todo \in Seq(Range(given))
  BY <1>1 DEF Range
<1>4. TypeOK
  BY <1>1, <1>2, <1>3 DEF TypeOK
<1>5. RunInv
  BY <1>1, <1>3 DEF RunInv
<1> QED BY <1>1, <1>4, <1>5 DEF IInv, EndInv, ShownAgrees

(* Nothing that the result of a file depends on changes. *)
Fixed == UNCHANGED <<cmd, strict, searched, executable, tree, apk, given>>

LEMMA FixedTells ==
  Fixed => Chosen' = Chosen /\ Possible' = Possible
<1> SUFFICES ASSUME Fixed PROVE Chosen' = Chosen /\ Possible' = Possible
  OBVIOUS
<1> USE DEF Fixed
<1>1. Chosen' = Chosen
  BY DEF Chosen, Selected, ScanSelects, PackageSelects
<1>2. \A t : EntriesOf(t)' = EntriesOf(t)
  BY DEF EntriesOf, EntryAt
<1>3. \A n : Provider(n)' = Provider(n)
  BY DEF Provider
<1>4. \A d : MissingInPath(d)' = MissingInPath(d) /\ MissingInTree(d)' = MissingInTree(d)
  BY <1>2 DEF MissingInPath, MissingInTree
<1>5. NeedsCoreutils' = NeedsCoreutils
  <2>1. FirstBlock' = FirstBlock
    BY DEF FirstBlock, SelectInSeq
  <2> QED BY <2>1 DEF NeedsCoreutils, Declared
<1>6. WalkFails' = WalkFails
  BY DEF WalkFails
<1>7. \A s : GnuWithPath(s)' = GnuWithPath(s)
  BY <1>3 DEF GnuWithPath, GnuUses
<1>8. \A f : ResultOf(f)' = ResultOf(f)
  BY <1>4, <1>5, <1>6, <1>7 DEF ResultOf, Failed, WithMissing, InTree, ProcessScript,
     CheckScriptWithDeps, Listed
<1> QED BY <1>1, <1>8 DEF Possible

(* Files are selected. *)
LEMMA SelectStep ==
  ASSUME IInv, Select
  PROVE  IInv'
<1>1. /\ pc = "start" /\ todo' = Chosen /\ Fixed
      /\ results' = results /\ shown' = shown
      /\ Chosen = <<>> => pc' = "ended" /\ exit' = 0
      /\ Chosen # <<>> => pc' = "files" /\ exit' = exit
  BY DEF Select, environment, Fixed, Return
<1>2. Chosen' = Chosen /\ Possible' = Possible /\ given' = given
  BY <1>1, FixedTells DEF Fixed
<1>3. results = <<>> /\ shown = [verdict |-> "none", lists |-> <<>>] /\ given \in Givens
  BY <1>1 DEF IInv, RunInv
<1>4. Chosen \in Seq(Range(given))
  BY <1>3, GivenFacts
<1>5. Files' \o todo' = Chosen'
  <2>1. Files' = <<>>
    BY <1>1, <1>3 DEF Files
  <2>2. <<>> \o Chosen = Chosen
    <3> DEFINE S == Range(given)
               q == Chosen
    <3>1. q \in Seq(S)
      BY <1>4
    <3> HIDE DEF q, S
    <3>2. <<>> \o q = q
      BY <3>1
    <3> QED BY <3>2 DEF q
  <2> QED BY <1>1, <1>2, <2>1, <2>2
<1>6. TypeOK'
  <2>1. Range(results') = {}
    BY <1>1, <1>3 DEF Range
  <2>2. exit = -1
    BY <1>1 DEF IInv, TypeOK
  <2>3. (pc' = "ended" <=> exit' # -1) /\ exit' \in {-1, 0, 1} /\ pc' \in {"files", "ended"}
    BY <1>1, <2>2
  <2>4. [i \in DOMAIN results' |-> results'[i].file] \o todo' = Chosen'
    BY <1>5 DEF Files
  <2> QED BY <1>1, <2>1, <2>3, <2>4 DEF IInv, TypeOK, Fixed
<1>7. RunInv'
  <2>1. results' \in Seq(Possible') /\ todo' \in Seq(Range(given'))
    BY <1>1, <1>2, <1>3, <1>4
  <2>2. pc' = "files" => todo' # <<>>
    BY <1>1
  <2>3. pc' # "start" /\ pc' # "output"
    BY <1>1
  <2> QED BY <1>1, <1>2, <1>3, <1>5, <2>1, <2>2, <2>3 DEF RunInv
<1>8. EndInv'
  BY <1>1, <1>2 DEF EndInv
<1>9. ShownAgrees'
  BY <1>1, <1>3 DEF ShownAgrees
<1> QED BY <1>6, <1>7, <1>8, <1>9 DEF IInv

(* The command gives up. *)
LEMMA RefuseStep ==
  ASSUME IInv, Refuse
  PROVE  IInv'
<1>1. /\ pc = "start" /\ pc' = "ended" /\ exit' = 1 /\ Fixed
      /\ results' = results /\ shown' = shown /\ todo' = todo
  BY DEF Refuse, Return, environment, Fixed
<1>2. Possible' = Possible /\ given' = given
  BY <1>1, FixedTells DEF Fixed
<1>3. TypeOK'
  <2>1. \A r : Broken(r)' = Broken(r)
    BY DEF Broken
  <2> QED BY <1>1 DEF IInv, TypeOK, Fixed, Broken
<1>4. RunInv'
  BY <1>1, <1>2 DEF IInv, RunInv
<1>5. shown'.verdict = "none"
  BY <1>1 DEF IInv, RunInv
<1> QED BY <1>1, <1>3, <1>4, <1>5 DEF IInv, EndInv, ShownAgrees

(* The tail of the last one is empty. *)
LEMMA TailEmpty ==
  ASSUME NEW S, NEW q \in Seq(S), q # <<>>
  PROVE  Len(q) = 1 <=> Tail(q) = <<>>
<1>1. Tail(q) \in Seq(S) /\ Len(Tail(q)) = Len(q) - 1 /\ Len(q) \in Nat
  BY HeadTailProperties
<1>2. Len(Tail(q)) = 0 <=> Tail(q) = <<>>
  BY <1>1, EmptySeq
<1> QED BY <1>1, <1>2

(* A file is processed: its result goes behind the others. *)
LEMMA ProcessStep ==
  ASSUME IInv, NEW result, Process(result),
         ~Broken(Head(todo)) => result = ResultOf(Head(todo))
  PROVE  IInv'
<1> DEFINE f == Head(todo)
           r == ResultOf(f)
<1>1. /\ pc = "files" /\ todo' = Tail(todo) /\ Fixed
      /\ results' = Append(results, r)
      /\ pc' = IF Len(todo) = 1 THEN "output" ELSE "files"
      /\ shown' = shown /\ exit' = exit
  BY DEF Process, environment, Fixed, ResultOf
<1>2. Chosen' = Chosen /\ Possible' = Possible /\ given' = given
  BY <1>1, FixedTells DEF Fixed
<1>3. /\ given \in Givens /\ results \in Seq(Possible) /\ todo \in Seq(Range(given))
      /\ todo # <<>> /\ Files \o todo = Chosen
      /\ shown = [verdict |-> "none", lists |-> <<>>]
  BY <1>1 DEF IInv, RunInv
<1>4. f \in Range(given) /\ r \in Possible
  BY <1>3 DEF Possible
<1>5. r.file = f /\ r.missing \subseteq r.deps /\ (r.error \/ ~Broken(r.file))
  BY ResultTells DEF IInv, TypeOK
<1> HIDE DEF r, f
<1>6. results' \in Seq(Possible) /\ todo' \in Seq(Range(given))
      /\ Range(results') = Range(results) \cup {r}
  <2>1. results' \in Seq(Possible) /\ todo' \in Seq(Range(given))
    BY <1>1, <1>3, <1>4
  <2>2. /\ Len(results') = Len(results) + 1 /\ Len(results) \in Nat
        /\ \A i \in 1 .. Len(results) : results'[i] = results[i]
        /\ results'[Len(results) + 1] = r
    BY <1>1, <1>3, <1>4
  <2>3. DOMAIN results' = 1 .. Len(results') /\ DOMAIN results = 1 .. Len(results)
    BY <1>3, <2>1
  <2>4. ASSUME NEW x \in Range(results') PROVE x \in Range(results) \cup {r}
    <3>1. PICK i \in 1 .. Len(results) + 1 : x = results'[i]
      BY <2>2, <2>3 DEF Range
    <3>2. i \in 1 .. Len(results) \/ i = Len(results) + 1
      BY <2>2
    <3> QED BY <2>2, <2>3, <3>1, <3>2 DEF Range
  <2>5. ASSUME NEW x \in Range(results) PROVE x \in Range(results')
    <3>1. PICK i \in 1 .. Len(results) : x = results[i]
      BY <2>3 DEF Range
    <3>2. i \in 1 .. Len(results')
      BY <2>2
    <3> QED BY <2>2, <2>3, <3>1, <3>2 DEF Range
  <2>6. r \in Range(results')
    <3>1. Len(results) + 1 \in 1 .. Len(results')
      BY <2>2
    <3> QED BY <2>2, <2>3, <3>1 DEF Range
  <2> QED BY <2>1, <2>4, <2>5, <2>6
<1>7. Files' \o todo' = Chosen'
  <2> DEFINE S == Range(given)
             U == {x.file : x \in Possible}
             W == U \cup S
             n == Len(results)
             p == Files
             u == Files'
  <2>1. /\ n \in Nat /\ p \in Seq(U) /\ Len(p) = n
        /\ \A i \in 1 .. n : p[i] = results[i].file
    BY <1>3, FilesFacts DEF Files
  <2>2. /\ Len(results') \in Nat /\ u \in Seq(U) /\ Len(u) = Len(results')
        /\ \A i \in 1 .. Len(results') : u[i] = results'[i].file
    BY <1>6, FilesFacts DEF Files
  <2>3. /\ Len(results') = n + 1 /\ results'[n + 1] = r
        /\ \A i \in 1 .. n : results'[i] = results[i]
    BY <1>1, <1>3, <1>4
  <2>4. f \in W /\ p \in Seq(W) /\ u \in Seq(W) /\ todo \in Seq(W)
    <3>1. U \subseteq W /\ S \subseteq W
      OBVIOUS
    <3> HIDE DEF W
    <3>2. Seq(U) \subseteq Seq(W) /\ Seq(S) \subseteq Seq(W)
      BY <3>1
    <3> QED BY <1>3, <1>4, <2>1, <2>2, <3>1, <3>2
  <2>5. todo = <<f>> \o Tail(todo) /\ Tail(todo) \in Seq(W)
    <3>1. f = Head(todo)
      BY DEF f
    <3> HIDE DEF W
    <3> QED BY <1>3, <2>4, <3>1
  <2> HIDE DEF U, W, S, p, u, n
  <2>6. u = Append(p, f)
    <3>1. Append(p, f) \in Seq(W) /\ Len(Append(p, f)) = n + 1
      BY <2>1, <2>4
    <3>2. ASSUME NEW i \in 1 .. n + 1 PROVE u[i] = Append(p, f)[i]
      <4>1. CASE i = n + 1
        <5>1. Append(p, f)[n + 1] = f
          BY <2>1, <2>4
        <5>2. u[n + 1] = f
          BY <1>5, <2>1, <2>2, <2>3
        <5> QED BY <4>1, <5>1, <5>2
      <4>2. CASE i \in 1 .. n
        <5>1. Append(p, f)[i] = p[i]
          BY <2>1, <2>4, <4>2
        <5>2. u[i] = p[i]
          BY <2>1, <2>2, <2>3, <4>2
        <5> QED BY <5>1, <5>2
      <4>3. i = n + 1 \/ i \in 1 .. n
        BY <2>1
      <4> QED BY <4>1, <4>2, <4>3
    <3>3. Len(u) = n + 1
      BY <2>2, <2>3
    <3> QED BY <2>4, <3>1, <3>2, <3>3, SeqEqual
  <2>7. Append(p, f) \o Tail(todo) = p \o (<<f>> \o Tail(todo))
    <3> DEFINE v == Tail(todo)
    <3>1. v \in Seq(W)
      BY <2>5
    <3> HIDE DEF v
    <3>2. Append(p, f) = p \o <<f>> /\ <<f>> \in Seq(W)
      BY <2>4, <3>1
    <3>3. (p \o <<f>>) \o v = p \o (<<f>> \o v)
      BY <2>4, <3>1, <3>2, ConcatAssociative
    <3> QED BY <3>2, <3>3 DEF v
  <2> QED BY <1>1, <1>2, <1>3, <2>5, <2>6, <2>7 DEF p, u
<1>8. pc' \in {"files", "output"} /\ (pc' = "files" => todo' # <<>>)
      /\ (pc' = "output" => todo' = <<>>)
  <2> DEFINE S == Range(given)
             q == todo
  <2>1. q \in Seq(S) /\ q # <<>>
    BY <1>3
  <2> HIDE DEF S, q
  <2>2. Len(q) = 1 <=> Tail(q) = <<>>
    BY <2>1, TailEmpty
  <2> QED BY <1>1, <2>2 DEF q
<1>9. TypeOK'
  <2>1. [i \in DOMAIN results' |-> results'[i].file] \o todo' = Chosen'
    BY <1>7 DEF Files
  <2>2. \A x \in Range(results') :
          x.missing \subseteq x.deps /\ (x.error \/ ~Broken(x.file))
    BY <1>5, <1>6 DEF IInv, TypeOK
  <2>3. exit' = -1 /\ pc' # "ended"
    BY <1>1, <1>8 DEF IInv, TypeOK
  <2> QED BY <1>1, <1>3, <1>8, <2>1, <2>2, <2>3 DEF IInv, TypeOK, Fixed, Broken
<1>10. RunInv'
  <2>1. results' \in Seq(Possible') /\ todo' \in Seq(Range(given')) /\ given' \in Givens
    BY <1>2, <1>3, <1>6
  <2> QED BY <1>1, <1>3, <1>7, <1>8, <2>1 DEF RunInv
<1> QED BY <1>8, <1>9, <1>10 DEF IInv, EndInv, ShownAgrees

(* What the details of check say of a file. *)
LEMMA DetailsTells ==
  ASSUME NEW f, NEW r, r = ResultOf(f), cmd = "check", searched \in BOOLEAN, ~r.error,
         NEW d, d = Details(r)
  PROVE  /\ d.available \cup d.gnu \cup d.missing = r.deps
         /\ d.available \cap d.gnu = {}
         /\ searched => /\ d.missing = r.missing
                        /\ ~Issue(r) => d.available = r.deps
<1> DEFINE located == {t \in r.deps :
                       /\ searched \/ t \in Absolute
                       /\ EntriesOf(t) \cap StatFinds # {}}
           gnu == {t \in located \ Absolute : \E u \in r.gnu : u[1] = t}
<1>1. /\ d.available = located \ gnu /\ d.gnu = gnu /\ d.missing = r.deps \ located
  BY DEF Details
<1>2. located \subseteq r.deps /\ gnu \subseteq located
  OBVIOUS
<1>3. ASSUME searched PROVE r.deps \ located = r.missing
  <2>1. r.missing = MissingInPath(r.deps)
    BY <1>3, ResultTells
  <2> QED BY <1>3, <2>1 DEF MissingInPath
<1>4. Issue(r) \/ (r.gnu = {} /\ r.missing = {})
  BY DEF Issue
<1>5. r.gnu = {} => gnu = {}
  OBVIOUS
<1> HIDE DEF located, gnu
<1>6. /\ d.available \cup d.gnu \cup d.missing = r.deps
      /\ d.available \cap d.gnu = {}
  BY <1>1, <1>2
<1>7. ASSUME searched, ~Issue(r) PROVE d.available = r.deps
  <2>1. gnu = {} /\ r.deps \ located = {}
    BY <1>3, <1>4, <1>5, <1>7
  <2> QED BY <1>1, <1>2, <2>1
<1> QED BY <1>1, <1>3, <1>6, <1>7

(* The results are printed. *)
LEMMA OutputStep ==
  ASSUME IInv, OutputResults \/ OutputCheck \/ OutputPackage
  PROVE  IInv'
<1> DEFINE anyIssue == \E r \in Range(results) : Issue(r)
<1>1. /\ pc = "output" /\ pc' = "ended" /\ Fixed /\ results' = results /\ todo' = todo
      /\ exit' \in {0, 1}
  BY DEF OutputResults, OutputCheck, OutputPackage, Report, Return, environment, Fixed, Code
<1>2. Chosen' = Chosen /\ Possible' = Possible /\ given' = given
  BY <1>1, FixedTells DEF Fixed
<1>3. /\ given \in Givens /\ results \in Seq(Possible) /\ todo \in Seq(Range(given))
      /\ todo = <<>> /\ Files \o todo = Chosen
  BY <1>1 DEF IInv, RunInv
<1>4. Files = Chosen
  <2>1. Files \in Seq({x.file : x \in Possible})
    BY <1>3, FilesFacts DEF Files
  <2> DEFINE U == {x.file : x \in Possible}
             p == Files
  <2>2. p \in Seq(U)
    BY <2>1
  <2> HIDE DEF U, p
  <2>3. p \o <<>> = p
    BY <2>2
  <2> QED BY <1>3, <2>3 DEF p
<1>5. Files' = Files
  BY <1>1 DEF Files
<1>6. /\ shown'.verdict \in {"none", "fine", "issues"}
      /\ shown'.verdict # "none" =>
           /\ cmd \in {"check", "package"}
           /\ shown'.verdict = IF anyIssue THEN "issues" ELSE "fine"
           /\ exit' = Code
           /\ shown'.lists = IF cmd = "check"
                             THEN [i \in DOMAIN results |-> Details(results[i])]
                             ELSE <<>>
      /\ cmd \in {"check", "package"} => exit' = Code
  <2>1. CASE OutputResults
    BY <2>1 DEF OutputResults, Report
  <2>2. CASE OutputCheck
    <3> DEFINE withIssues == {r \in Range(results) :
                                r.missing # {} \/ r.gnu # {} \/ r.error}
    <3>1. withIssues = {} <=> ~anyIssue
      BY DEF Issue
    <3>2. /\ cmd = "check" /\ exit' = Code
          /\ shown' = [verdict |-> IF withIssues = {} THEN "fine" ELSE "issues",
                       lists |-> [i \in DOMAIN results |-> Details(results[i])]]
      BY <2>2 DEF OutputCheck, Report, Return
    <3> HIDE DEF withIssues, anyIssue
    <3> QED BY <3>1, <3>2
  <2>3. CASE OutputPackage
    <3> DEFINE hasIssues == \E r \in Range(results) :
                              \/ r.error
                              \/ r.missing # {}
                              \/ r.gnu # {}
    <3>1. hasIssues <=> anyIssue
      BY DEF Issue
    <3>2. /\ cmd = "package" /\ exit' = Code
          /\ shown' = [verdict |-> IF hasIssues THEN "issues" ELSE "fine",
                       lists |-> <<>>]
      BY <2>3 DEF OutputPackage, Report, Return
    <3> HIDE DEF hasIssues, anyIssue
    <3> QED BY <3>1, <3>2
  <2> QED BY <2>1, <2>2, <2>3
<1>7. Code = IF strict /\ anyIssue THEN 1 ELSE 0
  BY DEF Code
<1>8. TypeOK'
  BY <1>1, <1>6 DEF IInv, TypeOK, Fixed, Broken
<1>9. RunInv'
  BY <1>1, <1>2, <1>3 DEF RunInv
<1>10. EndInv'
  <2>1. cmd' = cmd /\ strict' = strict
    BY <1>1 DEF Fixed
  <2>2. ASSUME exit' = 0, strict, cmd \in {"check", "package"} PROVE ~anyIssue
    <3> HIDE DEF anyIssue
    <3> QED BY <1>6, <1>7, <2>2
  <2>3. ~anyIssue => \A r \in Range(results) : ~Issue(r)
    OBVIOUS
  <2>4. \A r : Issue(r)' = Issue(r)
    BY DEF Issue
  <2> HIDE DEF anyIssue
  <2> QED BY <1>1, <1>2, <1>4, <1>5, <2>1, <2>2, <2>3, <2>4 DEF EndInv
<1>11. ShownAgrees'
  <2> SUFFICES ASSUME shown'.verdict # "none" PROVE ShownAgrees'
    BY DEF ShownAgrees
  <2>1. /\ strict' = strict /\ searched' = searched
        /\ strict \in BOOLEAN /\ searched \in BOOLEAN
    BY <1>1 DEF Fixed, IInv, TypeOK
  <2>2. exit' = 1 <=> strict /\ shown'.verdict = "issues"
    <3> HIDE DEF anyIssue
    <3> QED BY <1>6, <1>7, <2>1
  <2>3. ASSUME shown'.verdict = "fine", NEW r \in Range(results) PROVE ~Issue(r)
    BY <1>6, <2>3
  <2>4. \A r : ~Issue(r) => ~r.error
    BY DEF Issue
  <2>5. ASSUME NEW i \in DOMAIN shown'.lists, ~results[i].error
        PROVE  /\ shown'.lists[i].available \cup shown'.lists[i].gnu
                    \cup shown'.lists[i].missing = results[i].deps
               /\ shown'.lists[i].available \cap shown'.lists[i].gnu = {}
               /\ searched => /\ shown'.lists[i].missing = results[i].missing
                              /\ shown'.verdict = "fine" =>
                                   shown'.lists[i].available = results[i].deps
    <3>1. cmd = "check"
      <4>1. DOMAIN <<>> = {}
        OBVIOUS
      <4> QED BY <1>6, <2>5, <4>1
    <3>2. i \in DOMAIN results /\ shown'.lists[i] = Details(results[i])
      BY <1>6, <2>5, <3>1
    <3>3. results[i] \in Possible /\ results[i] \in Range(results)
      BY <1>3, <3>2 DEF Range
    <3>4. PICK f \in Range(given) : results[i] = ResultOf(f)
      BY <3>3 DEF Possible
    <3> DEFINE r == results[i]
               d == Details(r)
    <3>5. r = ResultOf(f) /\ ~r.error /\ shown'.lists[i] = d /\ r \in Range(results)
      BY <2>5, <3>2, <3>3, <3>4
    <3> HIDE DEF r
    <3>6. /\ d.available \cup d.gnu \cup d.missing = r.deps
          /\ d.available \cap d.gnu = {}
          /\ searched => /\ d.missing = r.missing
                         /\ ~Issue(r) => d.available = r.deps
      BY <2>1, <3>1, <3>5, DetailsTells
    <3> HIDE DEF d
    <3>7. shown'.verdict = "fine" => ~Issue(r)
      BY <2>3, <3>5
    <3> QED BY <3>5, <3>6, <3>7 DEF r
  <2>6. shown'.verdict = "fine" => \A r \in Range(results') : ~r.error
    BY <1>1, <2>3, <2>4
  <2> QED BY <1>1, <2>1, <2>2, <2>5, <2>6 DEF ShownAgrees
<1> QED BY <1>8, <1>9, <1>10, <1>11 DEF IInv

(* The invariant holds in every reachable state. *)
THEOREM Invariance == Spec => []IInv
<1>1. Init => IInv
  BY InitInv
<1>2. IInv /\ [Next]_vars => IInv'
  <2> SUFFICES ASSUME IInv, [Next]_vars PROVE IInv'
    OBVIOUS
  <2>1. cmd \in {"show", "scan", "check", "package"}
    BY DEF IInv, TypeOK
  <2>2. CASE Select
    BY <2>2, SelectStep
  <2>3. CASE RefuseCheck \/ RefuseScan \/ RefusePackage
    BY <2>3, RefuseStep DEF RefuseCheck, RefuseScan, RefusePackage
  <2>4. CASE Show
    BY <2>4, ProcessStep DEF Show, ResultOf
  <2>5. CASE Scan
    BY <2>5, ProcessStep DEF Scan, ResultOf
  <2>6. CASE Check
    BY <2>6, ProcessStep DEF Check, ResultOf
  <2>7. CASE CheckPackage
    BY <2>7, ProcessStep DEF CheckPackage, ResultOf
  <2>8. CASE OutputResults \/ OutputCheck \/ OutputPackage
    BY <2>8, OutputStep
  <2>9. CASE UNCHANGED vars
    <3>1. Fixed /\ UNCHANGED <<pc, todo, results, shown, exit>>
      <4>1. UNCHANGED environment /\ UNCHANGED <<pc, todo, results, shown, exit>>
        BY <2>9 DEF vars
      <4>2. Fixed
        BY <4>1 DEF environment, Fixed
      <4> QED BY <4>1, <4>2
    <3>2. Chosen' = Chosen /\ Possible' = Possible
      BY <3>1, FixedTells
    <3>3. Files' = Files
      BY <3>1 DEF Files
    <3>4. TypeOK'
      BY <3>1, <3>2 DEF IInv, TypeOK, Fixed, Broken
    <3>5. RunInv'
      BY <3>1, <3>2, <3>3 DEF IInv, RunInv, Fixed
    <3>6. EndInv'
      BY <3>1, <3>2, <3>3 DEF IInv, EndInv, Fixed, Issue
    <3>7. ShownAgrees'
      BY <3>1 DEF IInv, ShownAgrees, Fixed
    <3> QED BY <3>4, <3>5, <3>6, <3>7 DEF IInv
  <2> QED BY <2>2, <2>3, <2>4, <2>5, <2>6, <2>7, <2>8, <2>9 DEF Next
<1> QED BY <1>1, <1>2, PTL DEF Spec

(* Every variable keeps its type; the results and what is left to do are   *)
(* the chosen files.                                                       *)
THEOREM TypeCorrect == Spec => []TypeOK
<1>1. IInv => TypeOK
  BY DEF IInv
<1> QED BY <1>1, Invariance, PTL

(* The verdict, the exit code and the details of check and check-package   *)
(* agree.                                                                  *)
THEOREM PrintedAgrees == Spec => []ShownAgrees
<1>1. IInv => ShownAgrees
  BY DEF IInv
<1> QED BY <1>1, Invariance, PTL

(* Whatever a shell comes to run, however deep its functions call each     *)
(* other, is among the dependencies, if the script names it in a place of  *)
(* its own and hands it to at most one function, unshifted.                *)
THEOREM DependenciesComplete == Spec => []NothingMissed
<1>1. IInv => NothingMissed
  <2> SUFFICES ASSUME IInv, NEW r \in Range(results), ~Broken(r.file)
               PROVE  ProgramsRun(r.file.script) \subseteq r.deps
    BY DEF NothingMissed
  <2>1. given \in Givens /\ results \in Seq(Possible)
    BY DEF IInv, RunInv
  <2>2. r \in Possible
    BY <2>1 DEF Range
  <2>3. PICK f \in Range(given) : r = ResultOf(f)
    BY <2>2 DEF Possible
  <2>4. r.file = f /\ (~Broken(f) => r.deps = ExtractDeps(f.script))
    BY <2>3, ResultTells DEF IInv, TypeOK
  <2>5. IsScript(f.script)
    BY <2>1, GivenFacts
  <2> QED BY <2>4, <2>5, RunIsDependency
<1> QED BY <1>1, Invariance, PTL

(* The least of some numbers, and of some directories. *)
LEMMA LeastOf ==
  ASSUME NEW hits \in SUBSET Nat, hits # {}
  PROVE  Min(hits) \in hits /\ \A e \in hits : Min(hits) <= e
<1>1. hits \subseteq Nat
  OBVIOUS
<1> DEFINE A == {n \in Nat : \A e \in hits : n <= e}
<1>2. \E m \in hits : \A e \in hits : m <= e
  <2> SUFFICES ASSUME \A m \in hits : \E e \in hits : ~(m <= e) PROVE FALSE
    OBVIOUS
  <2>1. 0 \in A
    BY <1>1
  <2>2. ASSUME NEW n \in Nat, n \in A PROVE n + 1 \in A
    <3>1. n \notin hits
      BY <1>1, <2>2
    <3>2. ASSUME NEW e \in hits PROVE n + 1 <= e
      <4>1. n <= e /\ n # e /\ e \in Nat
        BY <1>1, <2>2, <3>1
      <4> QED BY ONLY <2>2, <4>1
    <3> QED BY <3>2
  <2>3. \A n \in Nat : n \in A
    <3> HIDE DEF A
    <3> QED BY <2>1, <2>2, SetInduction
  <2>4. PICK e \in hits : TRUE
    OBVIOUS
  <2>5. e + 1 \in A /\ e \in Nat
    BY <1>1, <2>3
  <2> QED BY <2>4, <2>5
<1> QED BY <1>2 DEF Min

LEMMA LeastDir ==
  ASSUME NEW hits \in SUBSET (1 .. Dirs), hits # {}
  PROVE  Min(hits) \in hits /\ \A e \in hits : Min(hits) <= e
<1>1. hits \in SUBSET Nat
  BY ShellDepsAssumption
<1> QED BY <1>1, LeastOf

(* coreutils, if DetectCommandProvider says so, is what a shell runs; or a *)
(* deceptive entry stands before what it runs.                             *)
LEMMA ProviderTells ==
  ASSUME NEW name, Provider(name) = "coreutils"
  PROVE  Runs(name) \notin {"busybox", "chain"} \/ Hides(name)
<1> DEFINE hits == {d \in 1 .. Dirs : tree[d][name] # "none"}
           m == Min(hits)
           runs == {d \in 1 .. Dirs : tree[d][name] \in Executables}
<1>1. hits # {} /\ tree[m][name] \in {"coreutils", "stale", "file", "plain"}
  <2> DEFINE entry == tree[m][name]
  <2>1. Provider(name) = IF hits = {} THEN "unknown"
                         ELSE CASE entry \in {"busybox", "chain"} -> "busybox"
                                [] entry \in {"coreutils", "stale", "file", "plain"} ->
                                     "coreutils"
                                [] OTHER -> "unknown"
    BY DEF Provider
  <2> HIDE DEF entry, hits
  <2> QED BY <2>1 DEF entry
<1>2. m \in hits /\ \A e \in hits : m <= e
  BY <1>1, LeastDir
<1>3. runs \subseteq hits
  BY DEF Executables
<1>4. m \in 1 .. Dirs /\ 1 .. Dirs \subseteq Int
  BY <1>2, ShellDepsAssumption
<1> HIDE DEF m
<1>5. CASE tree[m][name] \in {"coreutils", "file"}
  <2>1. m \in runs
    BY <1>4, <1>5 DEF Executables
  <2> DEFINE n == Min(runs)
  <2>2. n \in runs /\ \A e \in runs : n <= e
    BY <2>1, LeastDir
  <2> HIDE DEF n
  <2>3. n <= m /\ m <= n /\ n \in Int
    BY <1>2, <1>3, <1>4, <2>1, <2>2
  <2>4. n = m
    BY ONLY <1>4, <2>3
  <2>5. Runs(name) = tree[m][name]
    BY <2>1, <2>4 DEF Runs, n
  <2> QED BY <1>5, <2>5
<1>6. CASE tree[m][name] \in {"stale", "plain"}
  <2>1. ASSUME NEW e \in 1 .. m PROVE tree[e][name] \notin Executables
    <3>1. CASE e = m
      BY <1>6, <3>1 DEF Executables
    <3>2. CASE e # m
      <4>1. e \in 1 .. Dirs /\ ~(m <= e)
        BY <1>4, <3>2, ShellDepsAssumption
      <4> QED BY <1>2, <1>3, <4>1
    <3> QED BY <3>1, <3>2
  <2> QED BY <1>4, <1>6, <2>1 DEF Hides
<1> QED BY <1>1, <1>5, <1>6

(* And what stands at an absolute path, or an entry before it is taken for *)
(* coreutils.                                                              *)
LEMMA AbsoluteTells ==
  ASSUME NEW t \in Absolute, Provider(BaseName[t]) = "coreutils", OnBusybox(t)
  PROVE  Eclipsed(t)
<1> DEFINE name == BaseName[t]
           hits == {d \in 1 .. Dirs : tree[d][name] # "none"}
           m == Min(hits)
<1>1. hits # {} /\ tree[m][name] \in {"coreutils", "stale", "file", "plain"}
  <2> DEFINE entry == tree[m][name]
  <2>1. Provider(name) = IF hits = {} THEN "unknown"
                         ELSE CASE entry \in {"busybox", "chain"} -> "busybox"
                                [] entry \in {"coreutils", "stale", "file", "plain"} ->
                                     "coreutils"
                                [] OTHER -> "unknown"
    BY DEF Provider
  <2> HIDE DEF entry, hits
  <2> QED BY <2>1 DEF entry
<1>2. m \in hits /\ \A e \in hits : m <= e
  BY <1>1, LeastDir
<1> DEFINE d == Place[t].dir
<1>3. t \in DOMAIN Place /\ tree[d][name] \in {"busybox", "chain"} /\ d \in 1 .. Dirs
  BY ShellDepsAssumption DEF OnBusybox, EntryAt
<1>4. m <= d /\ m # d /\ m \in Int /\ 1 <= m /\ d \in Int
  BY <1>1, <1>2, <1>3, ShellDepsAssumption
<1> HIDE DEF m, d, name
<1>5. m \in 1 .. d - 1
  BY ONLY <1>4
<1> QED BY <1>1, <1>3, <1>5 DEF Eclipsed, d, name

(* getRuntimeDeps reads the lines before the first blank or header line.   *)
LEMMA DeclaredTells ==
  ASSUME apk \in Seq(STRING), NEW name
  PROVE  DependsOn(name) <=> name \in Declared
<1> DEFINE I == {i \in 1 .. Len(apk) : apk[i] \in {"blank", "header"}}
<1>1. FirstBlock = IF I # {} THEN Min(I) ELSE 0
  BY DEF FirstBlock, SelectInSeq
<1>2. Len(apk) \in Nat /\ DOMAIN apk = 1 .. Len(apk)
  OBVIOUS
<1>3. CASE I = {}
  <2>1. Declared = {apk[i] : i \in DOMAIN apk}
    BY <1>1, <1>3 DEF Declared, ToSet
  <2> QED BY <1>2, <1>3, <2>1 DEF DependsOn
<1>4. CASE I # {}
  <2> DEFINE m == Min(I)
  <2>1. m \in I /\ \A e \in I : m <= e
    <3>1. I \in SUBSET Nat
      BY <1>2
    <3> HIDE DEF I
    <3> QED BY <1>4, <3>1, LeastOf
  <2>2. m \in 1 .. Len(apk) /\ FirstBlock = m /\ m # 0
    BY <1>1, <1>2, <1>4, <2>1
  <2> HIDE DEF m
  <2>3. Declared = ToSet(SubSeq(apk, 1, m - 1))
    BY <2>2 DEF Declared
  <2>4. /\ DOMAIN SubSeq(apk, 1, m - 1) = 1 .. m - 1
        /\ \A i \in 1 .. m - 1 : SubSeq(apk, 1, m - 1)[i] = apk[i]
    BY <1>2, <2>2
  <2>5. Declared = {apk[i] : i \in 1 .. m - 1}
    BY <2>3, <2>4 DEF ToSet
  <2>6. ASSUME NEW i \in DOMAIN apk
        PROVE  (\A j \in 1 .. i : apk[j] \notin {"blank", "header"}) <=> i < m
    <3>1. ASSUME i < m, NEW j \in 1 .. i PROVE apk[j] \notin {"blank", "header"}
      <4>1. j \in 1 .. Len(apk) /\ ~(m <= j)
        BY <1>2, <2>2, <3>1
      <4> QED BY <2>1, <4>1
    <3>2. ASSUME ~(i < m) PROVE \E j \in 1 .. i : apk[j] \in {"blank", "header"}
      <4>1. m \in 1 .. i
        BY <1>2, <2>2, <3>2
      <4> QED BY <2>1, <4>1
    <3> QED BY <3>1, <3>2
  <2>7. \A i \in DOMAIN apk : i < m <=> i \in 1 .. m - 1
    BY <1>2, <2>2
  <2>8. 1 .. m - 1 \subseteq DOMAIN apk
    BY <1>2, <2>2
  <2> QED BY <2>5, <2>6, <2>7, <2>8 DEF DependsOn
<1> QED BY <1>3, <1>4

(* A strict check that passes promises a script that works, in so far as   *)
(* the path does not deceive it, calls name command and flag themselves,   *)
(* and apk tells what the package needs.                                   *)
THEOREM PassTold == Spec => []PassMeansUsable
<1>1. IInv => PassMeansUsable
  <2> SUFFICES ASSUME IInv, exit = 0, strict, searched, cmd \in {"check", "package"},
                      NEW f \in Range(Chosen)
               PROVE  /\ ~Broken(f)
                      /\ \A p \in ProgramsRun(f.script) \ DOMAIN Relative :
                           EntriesOf(p) \cap Executables # {} \/ Deceives(p)
                      /\ \A c \in AllCalls(f.script) : GivesGnuFlag(c) =>
                           IF cmd = "check"
                           THEN ~OnBusybox(Head1(c)) \/ Masked(Head1(c))
                           ELSE DependsOn("busybox") => DependsOn("coreutils")
    BY DEF PassMeansUsable
  <2>1. /\ given \in Givens /\ results \in Seq(Possible) /\ searched \in BOOLEAN
        /\ pc = "ended"
    BY DEF IInv, RunInv, TypeOK
  <2>2. Chosen # <<>>
    BY DEF Range
  <2>3. Files = Chosen /\ \A r \in Range(results) : ~Issue(r)
    BY <2>1, <2>2 DEF IInv, EndInv
  <2>4. PICK j \in DOMAIN results : f = results[j].file
    BY <2>3 DEF Files, Range
  <2> DEFINE r == results[j]
  <2>5. r \in Possible /\ r \in Range(results) /\ r.file = f
    BY <2>1, <2>4 DEF Range
  <2>6. PICK g \in Range(given) : r = ResultOf(g)
    BY <2>5 DEF Possible
  <2> HIDE DEF r
  <2>7. g = f
    BY <2>1, <2>5, <2>6, ResultTells
  <2>8. ~r.error /\ r.missing = {} /\ r.gnu = {}
    BY <2>3, <2>5 DEF Issue
  <2>9. /\ ~Broken(f) /\ r.deps = ExtractDeps(f.script)
        /\ r.missing = MissingInPath(r.deps)
        /\ cmd = "check" => r.gnu = GnuWithPath(f.script)
        /\ cmd = "package" => r.gnu = IF NeedsCoreutils THEN GnuUses(f.script) ELSE {}
    BY <2>1, <2>6, <2>7, <2>8, ResultTells
  <2>10. ASSUME NEW p \in ProgramsRun(f.script)
         PROVE  EntriesOf(p) \cap Executables # {} \/ Deceives(p)
    <3>1. IsScript(f.script)
      BY <2>1, <2>6, <2>7, GivenFacts
    <3>2. p \in r.deps
      BY <2>9, <3>1, RunIsDependency
    <3>3. EntriesOf(p) \cap StatFinds # {}
      BY <2>8, <2>9, <3>2 DEF MissingInPath
    <3> QED BY <3>3 DEF Deceives
  <2>11. ASSUME NEW c \in AllCalls(f.script), GivesGnuFlag(c)
         PROVE  IF cmd = "check" THEN ~OnBusybox(Head1(c)) \/ Masked(Head1(c))
                ELSE DependsOn("busybox") => DependsOn("coreutils")
    <3> DEFINE name == GnuName(c)
    <3>1. PICK i \in 2 .. Len(c), flag \in GnuFlags[name] :
            name \in DOMAIN GnuFlags /\ MatchesFlag(c[i].text, flag)
      BY <2>11 DEF GivesGnuFlag, GivesFlag
    <3> DEFINE use == <<name, flag>>
    <3>2. use \in GnuUses(f.script)
      <4> HIDE DEF name
      <4>1. flag \in {x \in GnuFlags[name] : \E k \in 2 .. Len(c) : MatchesFlag(c[k].text, x)}
        BY <3>1
      <4> QED BY <3>1, <4>1 DEF GnuUses, name
    <3>3. CASE cmd = "check"
      <4>1. Provider(name) = "coreutils"
        <5>1. use \notin GnuWithPath(f.script) /\ use[1] = name
          BY <2>8, <2>9, <3>3
        <5> HIDE DEF use
        <5> QED BY <3>2, <5>1 DEF GnuWithPath
      <4>2. CASE Head1(c) \in Absolute
        BY <3>3, <4>1, <4>2, AbsoluteTells DEF GnuName, Masked
      <4>3. CASE Head1(c) \notin Absolute
        BY <3>3, <4>1, <4>3, ProviderTells DEF GnuName, Masked, OnBusybox
      <4> QED BY <4>2, <4>3
    <3>4. CASE cmd = "package"
      <4>1. ~NeedsCoreutils
        BY <2>8, <2>9, <3>2, <3>4
      <4>2. apk \in Seq(STRING)
        <5>1. <<>> \in Seq(STRING)
          OBVIOUS
        <5> QED BY <5>1, ShellDepsAssumption DEF IInv, TypeOK
      <4> QED BY <3>4, <4>1, <4>2, DeclaredTells DEF NeedsCoreutils
    <3> QED BY <3>3, <3>4
  <2> QED BY <2>9, <2>10, <2>11
<1> QED BY <1>1, Invariance, PTL
=============================================================================
