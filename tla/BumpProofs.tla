----------------------------- MODULE BumpProofs -----------------------------
(***************************************************************************)
(* What bumpconstraints promises of the file, for any file, updates and    *)
(* number of runs: the old contents survive in one of the two files, a run *)
(* that fails without a second failure has changed nothing, and one that   *)
(* succeeds has applied every update, for good.  The first two go by where *)
(* the old contents are (IInv); the third by what the first updates have   *)
(* made of the lines in memory (FormInv, LineInv), what that makes of the  *)
(* pins once written, and what it leaves the next run to do (SettledInv).  *)
(***************************************************************************)
EXTENDS Bump, SequenceTheorems, WellFoundedInduction, TLAPS

(* The run has not begun to touch the file. *)
FileOld == {"backup", "copy", "parse", "update", "write"}
(* The backup is complete and still needed. *)
BakOld == {"parse", "update", "write", "writing", "restore", "restoring"}

(* Where the old contents are at each point of a run. *)
IInv ==
  /\ pc \in {"idle"} \cup FileOld \cup BakOld
  /\ pc \in FileOld => file = before
  /\ pc \in BakOld => bak = before
  /\ pc # "idle" => outcome = "none" /\ ~torn
  /\ Recoverable
  /\ AllOrNothing

(* At first the file is what the first run would start from. *)
LEMMA InitIInv == Init => IInv
  BY DEF Init, IInv, Recoverable, AllOrNothing, FileOld, BakOld

(* A run that starts finds the file as it is, whatever the last one left. *)
LEMMA StartIInv == ASSUME IInv, Start PROVE IInv'
  BY DEF IInv, Start, Recoverable, AllOrNothing, FileOld, BakOld, Return,
         disk, input

(* The backup is written while the file is untouched. *)
LEMMA BackupIInv ==
  ASSUME IInv, OpenBackup \/ WriteBackup \/ BackupFails
  PROVE  IInv'
<1>1. CASE OpenBackup
  BY <1>1 DEF IInv, OpenBackup, Recoverable, AllOrNothing, FileOld, BakOld,
              input, memory, past
<1>2. CASE WriteBackup
  BY <1>2 DEF IInv, WriteBackup, Recoverable, AllOrNothing, FileOld, BakOld,
              input, memory, past
<1>3. CASE BackupFails
  BY <1>3 DEF IInv, BackupFails, Recoverable, AllOrNothing, FileOld, BakOld,
              Return, input, memory, past
<1> QED BY <1>1, <1>2, <1>3

(* The updates are applied in memory. *)
LEMMA MemoryIInv ==
  ASSUME IInv, Parse \/ ParseFails \/ ApplyNext \/ AllApplied
  PROVE  IInv'
<1>1. CASE Parse
  BY <1>1 DEF IInv, Parse, Recoverable, AllOrNothing, FileOld, BakOld,
              input, disk, past
<1>2. CASE ParseFails
  BY <1>2 DEF IInv, ParseFails, Recoverable, AllOrNothing, FileOld, BakOld,
              input, disk, memory, past
<1>3. CASE ApplyNext
  BY <1>3 DEF IInv, ApplyNext, Recoverable, AllOrNothing, FileOld, BakOld,
              input, disk, past
<1>4. CASE AllApplied
  BY <1>4 DEF IInv, AllApplied, Recoverable, AllOrNothing, FileOld, BakOld,
              input, disk, memory, past
<1> QED BY <1>1, <1>2, <1>3, <1>4

(* The file is overwritten with a complete backup beside it. *)
LEMMA WriteIInv ==
  ASSUME IInv, OpenForWrite \/ Write \/ WriteFails
  PROVE  IInv'
<1>1. CASE OpenForWrite
  BY <1>1 DEF IInv, OpenForWrite, OpenFile, Recoverable, AllOrNothing,
              FileOld, BakOld, input, memory, past
<1>2. CASE Write
  BY <1>2 DEF IInv, Write, Recoverable, AllOrNothing, FileOld, BakOld,
              Return, input, memory, past
<1>3. CASE WriteFails
  BY <1>3 DEF IInv, WriteFails, Recoverable, AllOrNothing, FileOld, BakOld,
              input, memory, past
<1> QED BY <1>1, <1>2, <1>3

(* Restoring brings the old contents back, or leaves them in the backup. *)
LEMMA RestoreIInv ==
  ASSUME IInv, OpenForRestore \/ Restore \/ RestoreFails
  PROVE  IInv'
<1>1. CASE OpenForRestore
  BY <1>1 DEF IInv, OpenForRestore, OpenFile, Recoverable, AllOrNothing,
              FileOld, BakOld, input, memory, past
<1>2. CASE Restore
  BY <1>2 DEF IInv, Restore, Restored, Recoverable, AllOrNothing, FileOld,
              BakOld, Return, input, memory, past
<1>3. CASE RestoreFails
  BY <1>3 DEF IInv, RestoreFails, Recoverable, AllOrNothing, FileOld,
              BakOld, Return, input, memory, past
<1> QED BY <1>1, <1>2, <1>3

(* A crash cuts a write of one file short; the other one is complete. *)
LEMMA CrashIInv == ASSUME IInv, Crash PROVE IInv'
<1> USE DEF IInv, Crash, Recoverable, AllOrNothing, FileOld, BakOld, Return,
            input, disk, memory, past
<1>1. CASE pc = "copy"
  BY <1>1
<1>2. CASE pc \in {"writing", "restoring"}
  BY <1>2
<1>3. CASE pc \notin {"copy", "writing", "restoring"}
  BY <1>3
<1> QED BY <1>1, <1>2, <1>3

LEMMA NextIInv == IInv /\ [Next]_vars => IInv'
<1> SUFFICES ASSUME IInv, [Next]_vars PROVE IInv'
  OBVIOUS
<1>1. CASE UNCHANGED vars
  BY <1>1 DEF IInv, vars, input, disk, memory, past, Recoverable,
              AllOrNothing
<1> QED
  BY <1>1, StartIInv, BackupIInv, MemoryIInv, WriteIInv, RestoreIInv,
     CrashIInv DEF Next

(* Where the old contents are holds of every reachable state. *)
THEOREM Invariance == Spec => []IInv
  BY InitIInv, NextIInv, PTL DEF Spec

(* Wherever a run fails or crashes, the contents it started from are in    *)
(* the file or in the backup until the next run starts.                    *)
THEOREM NothingLost == Spec => []Recoverable
<1>1. IInv => Recoverable
  BY DEF IInv
<1> QED BY <1>1, Invariance, PTL

(* A run that reports an error, and whose restore has none, has left the   *)
(* file as it found it.                                                    *)
THEOREM FailureChangesNothing == Spec => []AllOrNothing
<1>1. IInv => AllOrNothing
  BY DEF IInv
<1> QED BY <1>1, Invariance, PTL
-----------------------------------------------------------------------------
(* Types.  The pin a package has last is one of the lines that were read.  *)

(* A bounded set of numbers that is not empty has a greatest one. *)
LEMMA MaxIsMember ==
  ASSUME NEW m \in Nat, NEW I \in SUBSET (1 .. m), I # {}
  PROVE  Max(I) \in I
<1> DEFINE T == {m - i : i \in I}
<1>1. \A i \in I : i \in Int /\ m - i \in Nat
  OBVIOUS
<1>2. T \subseteq Nat /\ T # {}
  BY <1>1
<1>3. PICK x \in T : \A y \in T : ~(<<y, x>> \in OpToRel(<, Nat))
  <2> HIDE DEF T
  <2> QED BY <1>2, NatLessThanWellFounded, WFMin
<1>4. ASSUME NEW y \in T PROVE x <= y
  <2>1. x \in Nat /\ y \in Nat
    BY <1>2
  <2>2. ~(y < x)
    BY <1>3, <2>1 DEF OpToRel
  <2> QED BY <2>1, <2>2
<1>5. PICK i \in I : x = m - i
  OBVIOUS
<1>6. ASSUME NEW j \in I PROVE i >= j
  <2>1. m - i <= m - j
    BY <1>4, <1>5
  <2>2. i \in Int /\ j \in Int /\ m \in Int
    BY <1>1
  <2> QED BY ONLY <2>1, <2>2
<1> QED BY <1>6 DEF Max

(* Contents of a file. *)
Lines == Seq(Pin \cup {Blank})

(* The last pin of a package is a line, and a pin. *)
LEMMA LastPinType ==
  ASSUME read \in Lines, NEW p \in Packages, LastPin(p) # 0
  PROVE  LastPin(p) \in DOMAIN read /\ read[LastPin(p)] \in Pin
<1> DEFINE I == {i \in 1 .. Len(read) : read[i].pkg = p}
<1>1. I # {} /\ LastPin(p) = Max(I)
  BY DEF LastPin, SelectLastInSeq
<1>2. Len(read) \in Nat /\ I \subseteq 1 .. Len(read)
  BY DEF Lines
<1>3. LastPin(p) \in I
  <2> HIDE DEF I
  <2> QED BY <1>1, <1>2, MaxIsMember
<1>4. LastPin(p) \in 1 .. Len(read) /\ read[LastPin(p)].pkg = p
  BY <1>3
<1>5. read[LastPin(p)] # Blank
  <2>1. Blank.pkg = ""
    BY DEF Blank
  <2>2. p # ""
    BY BumpAssumption
  <2> QED BY <1>4, <2>1, <2>2
<1> QED BY <1>4, <1>5 DEF Lines

(* The type invariant, with each file's contents by name. *)
Typed ==
  /\ updates \in Seq(Update) /\ onlyReplace \in BOOLEAN
  /\ file \in Lines /\ bak \in Lines /\ before \in Lines
  /\ read \in Lines /\ lines \in Lines
  /\ pc \in {"idle"} \cup FileOld \cup BakOld
  /\ outcome \in {"none", "ok", "failed", "crashed"}
  /\ n \in 1 .. Len(updates) + 1
  /\ errors \in BOOLEAN /\ torn \in BOOLEAN /\ settled \in BOOLEAN
  /\ runs \in 0 .. MaxRuns

(* What a cut-short write leaves, and what a whole one does, are lines. *)
LEMMA PrefixType == ASSUME NEW s \in Lines PROVE Prefixes(s) \subseteq Lines
  BY DEF Prefixes, Lines

LEMMA WrittenType == ASSUME NEW s \in Lines PROVE Written(s) \in Lines
  BY DEF Written, Front, Lines

LEMMA ReplacedType ==
  ASSUME NEW s \in Lines, NEW i, NEW v \in Pin
  PROVE  [s EXCEPT ![i] = v] \in Lines
<1>1. Len(s) \in Nat /\ s \in [1 .. Len(s) -> Pin \cup {Blank}]
  BY DEF Lines
<1>2. [s EXCEPT ![i] = v] \in [1 .. Len(s) -> Pin \cup {Blank}]
  BY <1>1
<1> QED BY <1>1, <1>2 DEF Lines

LEMMA NaturalBounds ==
  ASSUME updates \in Seq(Update)
  PROVE  Len(updates) \in Nat /\ MaxRuns \in Nat
<1>1. Len(updates) \in Nat
  OBVIOUS
<1>2. MaxRuns \in Nat
  BY BumpAssumption, Zenon
<1> QED BY <1>1, <1>2

(* An update replaces a line by a pin, or appends one. *)
LEMMA ApplyType ==
  ASSUME Typed, NEW u \in Update, Apply(u)
  PROVE  lines' \in Lines /\ errors' \in BOOLEAN
<1> DEFINE last == LastPin(u.pkg)
<1>1. u.pkg \in Packages /\ u.ver \in Versions
  BY DEF Update
<1>2. last # 0 => read[last].op \in Operators
  BY <1>1, LastPinType DEF Typed, Pin
<1>3. CASE UNCHANGED lines /\ errors' = TRUE
  BY <1>3 DEF Typed
<1>4. CASE /\ last # 0 /\ UNCHANGED errors
           /\ lines' = [lines EXCEPT ![FirstPin(u.pkg)] =
                          [pkg |-> u.pkg, op |-> read[last].op, ver |-> u.ver]]
  <2>1. [pkg |-> u.pkg, op |-> read[last].op, ver |-> u.ver] \in Pin
    BY <1>1, <1>2, <1>4 DEF Pin
  <2> QED BY <1>4, <2>1, ReplacedType DEF Typed
<1>5. CASE lines' = Append(lines, NewPin(u)) /\ UNCHANGED errors
  <2>1. NewPin(u) \in Pin
    BY <1>1 DEF NewPin, Pin, Operators
  <2> QED BY <1>5, <2>1 DEF Typed, Lines
<1>6. \/ UNCHANGED lines /\ errors' = TRUE
      \/ /\ last # 0 /\ UNCHANGED errors
         /\ lines' = [lines EXCEPT ![FirstPin(u.pkg)] =
                        [pkg |-> u.pkg, op |-> read[last].op, ver |-> u.ver]]
      \/ lines' = Append(lines, NewPin(u)) /\ UNCHANGED errors
  BY DEF Apply
<1> HIDE DEF last
<1> QED BY <1>3, <1>4, <1>5, <1>6

LEMMA InitTyped == Init => Typed
<1> SUFFICES ASSUME Init PROVE Typed
  OBVIOUS
<1>1. updates \in Seq(Update)
  <2>1. PICK k \in 0 .. MaxUpdates : updates \in [1 .. k -> Update]
    BY DEF Init, BoundedSeq, SeqOf
  <2> QED BY <2>1
<1>2. file \in Lines
  <2>1. PICK k \in 0 .. MaxLines : file \in [1 .. k -> Pin \cup {Blank}]
    BY DEF Init, BoundedSeq, SeqOf
  <2> QED BY <2>1 DEF Lines
<1>3. <<>> \in Lines
  BY DEF Lines
<1>4. 1 \in 1 .. Len(updates) + 1 /\ 0 \in 0 .. MaxRuns
  <2>1. Len(updates) \in Nat /\ MaxRuns \in Nat
    BY <1>1, NaturalBounds
  <2> QED BY ONLY <2>1
<1>5. /\ onlyReplace \in BOOLEAN /\ bak = <<>> /\ before = file
      /\ read = <<>> /\ lines = <<>> /\ pc = "idle" /\ outcome = "none"
      /\ n = 1 /\ errors = FALSE /\ torn = FALSE /\ settled = FALSE /\ runs = 0
  BY DEF Init
<1> QED BY <1>1, <1>2, <1>3, <1>4, <1>5 DEF Typed

LEMMA NextTyped == Typed /\ [Next]_vars => Typed'
<1> SUFFICES ASSUME Typed, [Next]_vars PROVE Typed'
  OBVIOUS
<1> USE DEF Typed, FileOld, BakOld, Return, input, disk, memory, past
<1>1. <<>> \in Lines
  BY DEF Lines
<1>2. CASE Start
  <2>1. n' \in 1 .. Len(updates) + 1 /\ runs' \in 0 .. MaxRuns
    <3>1. Len(updates) \in Nat /\ MaxRuns \in Nat
      BY NaturalBounds
    <3>2. n' = 1 /\ runs' = runs + 1 /\ runs < MaxRuns /\ updates' = updates
      BY <1>2 DEF Start
    <3>3. runs \in 0 .. MaxRuns
      OBVIOUS
    <3> QED BY ONLY <3>1, <3>2, <3>3
  <2>2. settled' \in BOOLEAN
    BY <1>2 DEF Start
  <2> QED BY <1>1, <1>2, <2>1, <2>2 DEF Start
<1>3. CASE OpenBackup \/ WriteBackup \/ BackupFails
  BY <1>1, <1>3, PrefixType DEF OpenBackup, WriteBackup, BackupFails
<1>4. CASE Parse \/ ParseFails \/ AllApplied
  BY <1>4 DEF Parse, ParseFails, AllApplied
<1>5. CASE ApplyNext
  <2>1. updates[n] \in Update /\ n' \in 1 .. Len(updates) + 1
    BY <1>5 DEF ApplyNext
  <2>2. lines' \in Lines /\ errors' \in BOOLEAN
    BY <1>5, <2>1, ApplyType DEF ApplyNext
  <2> QED BY <1>5, <2>1, <2>2 DEF ApplyNext
<1>6. CASE OpenForWrite \/ Write \/ WriteFails
  BY <1>1, <1>6, PrefixType, WrittenType DEF OpenForWrite, OpenFile, Write,
     WriteFails
<1>7. CASE OpenForRestore \/ Restore \/ RestoreFails
  BY <1>1, <1>7, PrefixType DEF OpenForRestore, OpenFile, Restore, Restored,
     RestoreFails
<1>8. CASE Crash
  <2>1. bak' \in Lines /\ file' \in Lines
    BY <1>8, PrefixType, WrittenType DEF Crash
  <2> QED BY <1>8, <2>1 DEF Crash
<1>9. CASE UNCHANGED vars
  BY <1>9 DEF vars
<1> QED
  BY <1>2, <1>3, <1>4, <1>5, <1>6, <1>7, <1>8, <1>9 DEF Next

(* Every variable keeps its type, whatever is cut short: files are lines,  *)
(* and an updated line is a pin with the operator it was read with.        *)
THEOREM TypeCorrect == Spec => []TypeOK
<1>1. Typed => TypeOK
  BY DEF Typed, TypeOK, Lines, FileOld, BakOld
<1> QED BY <1>1, InitTyped, NextTyped, PTL DEF Spec
-----------------------------------------------------------------------------
(* Picking from sequences.                                                 *)

(* Induction, for a set of numbers. *)
LEMMA SetInduction ==
  ASSUME NEW A, 0 \in A, \A N \in Nat : N \in A => N + 1 \in A
  PROVE  Nat \subseteq A
<1> SUFFICES ASSUME Nat \ A # {} PROVE FALSE
  OBVIOUS
<1> DEFINE T == Nat \ A
<1>1. T \subseteq Nat /\ T # {}
  OBVIOUS
<1>2. PICK x \in T : \A y \in T : ~(<<y, x>> \in OpToRel(<, Nat))
  <2> HIDE DEF T
  <2> QED BY <1>1, NatLessThanWellFounded, WFMin
<1>3. x \in Nat /\ x # 0 /\ x - 1 \in Nat /\ x - 1 < x
  OBVIOUS
<1>4. x - 1 \in A
  BY <1>2, <1>3 DEF OpToRel
<1>5. x - 1 + 1 \in A
  BY <1>3, <1>4
<1> QED BY <1>3, <1>5

(* A function may be defined by recursion on a number. *)
IsRecursion(f, N, T, base, g) ==
  /\ f \in [0 .. N -> T]
  /\ f[0] = base /\ \A k \in 1 .. N : f[k] = g[<<k, f[k - 1]>>]

LEMMA RecursionExists ==
  ASSUME NEW T, NEW base, base \in T, NEW N, N \in Nat,
         NEW g, g \in [(1 .. N) \X T -> T]
  PROVE  \E f : IsRecursion(f, N, T, base, g)
<1> DEFINE Upto(f, m) == f[0] = base /\ \A k \in 1 .. m : f[k] = g[<<k, f[k - 1]>>]
           A == {m \in Nat : m <= N => \E f \in [0 .. m -> T] : Upto(f, m)}
<1>1. 0 \in A
  <2> DEFINE h == [k \in 0 .. 0 |-> base]
  <2>1. h \in [0 .. 0 -> T] /\ h[0] = base /\ 1 .. 0 = {}
    OBVIOUS
  <2> HIDE DEF h
  <2>2. Upto(h, 0)
    BY <2>1
  <2>3. \E f \in [0 .. 0 -> T] : Upto(f, 0)
    BY <2>1, <2>2
  <2> HIDE DEF Upto
  <2> QED BY <2>3
<1>2. ASSUME NEW m \in Nat, m \in A PROVE m + 1 \in A
  <2> SUFFICES ASSUME m + 1 <= N PROVE \E f \in [0 .. m + 1 -> T] : Upto(f, m + 1)
    OBVIOUS
  <2>1. PICK f \in [0 .. m -> T] : Upto(f, m)
    BY <1>2
  <2> DEFINE last == g[<<m + 1, f[m]>>]
             h == [k \in 0 .. m + 1 |-> IF k = m + 1 THEN last ELSE f[k]]
  <2>2. <<m + 1, f[m]>> \in (1 .. N) \X T
    OBVIOUS
  <2>3. last \in T
    BY <2>2
  <2>4. h \in [0 .. m + 1 -> T]
    BY <2>3
  <2>5. h[0] = base
    BY <2>1
  <2>6. ASSUME NEW k \in 1 .. m + 1 PROVE h[k] = g[<<k, h[k - 1]>>]
    <3>1. h[k - 1] = f[k - 1]
      OBVIOUS
    <3>2. CASE k = m + 1
      <4>1. k - 1 = m /\ h[k] = last
        BY <3>2
      <4> HIDE DEF h
      <4> QED BY <3>1, <3>2, <4>1
    <3>3. CASE k # m + 1
      <4>1. k \in 1 .. m /\ h[k] = f[k]
        BY <3>3
      <4>2. f[k] = g[<<k, f[k - 1]>>]
        BY <2>1, <4>1
      <4> HIDE DEF h
      <4> QED BY <3>1, <4>1, <4>2
    <3> QED BY <3>2, <3>3
  <2> QED BY <2>4, <2>5, <2>6
<1>3. N \in A
  <2> HIDE DEF A
  <2> QED BY <1>1, <1>2, SetInduction
<1> QED BY <1>3 DEF IsRecursion

(* Picking from a sequence, one place after the other. *)
IsPicking(f, S, q, I) ==
  /\ f \in [0 .. Len(q) -> Seq(S)]
  /\ f[0] = <<>> /\ At(q, I) = f[Len(q)]
  /\ \A k \in 1 .. Len(q) : f[k] = IF k \in I THEN Append(f[k - 1], q[k]) ELSE f[k - 1]

LEMMA AtSteps ==
  ASSUME NEW S, NEW q \in Seq(S), NEW I
  PROVE  \E f : IsPicking(f, S, q, I)
<1> DEFINE N == Len(q)
           g == [x \in (1 .. N) \X Seq(S) |->
                   IF x[1] \in I THEN Append(x[2], q[x[1]]) ELSE x[2]]
           Body(f, k) == IF k = 0 THEN <<>>
                         ELSE IF k \in I THEN Append(f[k - 1], q[k]) ELSE f[k - 1]
           Is(f) == f = [k \in 0 .. N |-> Body(f, k)]
<1>1. N \in Nat /\ g \in [(1 .. N) \X Seq(S) -> Seq(S)] /\ <<>> \in Seq(S)
  OBVIOUS
<1>2. PICK e \in [0 .. N -> Seq(S)] :
        e[0] = <<>> /\ \A k \in 1 .. N : e[k] = g[<<k, e[k - 1]>>]
  <2> DEFINE T == Seq(S)
             base == <<>>
  <2>1. base \in T /\ N \in Nat /\ g \in [(1 .. N) \X T -> T]
    BY <1>1
  <2> HIDE DEF g, N, T, base
  <2>2. \E e : IsRecursion(e, N, T, base, g)
    BY <2>1, RecursionExists
  <2> QED BY <2>2 DEF T, base, IsRecursion
<1>3. Is(e)
  <2>1. ASSUME NEW k \in 0 .. N PROVE e[k] = Body(e, k)
    <3>1. CASE k = 0
      BY <1>2, <3>1
    <3>2. CASE k # 0
      <4>1. k \in 1 .. N /\ k - 1 \in 0 .. N /\ <<k, e[k - 1]>> \in (1 .. N) \X Seq(S)
        BY <1>2, <3>2
      <4>2. e[k] = g[<<k, e[k - 1]>>]
        BY <1>2, <4>1
      <4> QED BY <3>2, <4>1, <4>2
    <3> QED BY <3>1, <3>2
  <2>2. e = [k \in 0 .. N |-> e[k]]
    BY <1>2
  <2> HIDE DEF Body
  <2>3. [k \in 0 .. N |-> e[k]] = [k \in 0 .. N |-> Body(e, k)]
    BY <2>1
  <2> QED BY <2>2, <2>3
<1> DEFINE F == CHOOSE f : Is(f)
           A == {m \in Nat : m <= N => F[m] \in Seq(S)}
<1>4. Is(F)
  <2> HIDE DEF Is
  <2> QED BY <1>3
<1>5. \A k \in 0 .. N : F[k] = Body(F, k)
  <2> HIDE DEF F, Body
  <2> QED BY <1>4
<1>6. F[0] = <<>> /\ 0 \in A
  <2>1. F[0] = <<>>
    <3> HIDE DEF F
    <3> QED BY <1>1, <1>5
  <2> HIDE DEF F
  <2> QED BY <1>1, <2>1
<1>7. ASSUME NEW m \in Nat, m \in A PROVE m + 1 \in A
  <2> HIDE DEF F
  <2> SUFFICES ASSUME m + 1 <= N PROVE F[m + 1] \in Seq(S)
    OBVIOUS
  <2>1. F[m] \in Seq(S) /\ q[m + 1] \in S
    BY <1>7
  <2>2. F[m + 1] = IF m + 1 \in I THEN Append(F[m], q[m + 1]) ELSE F[m]
    BY <1>5
  <2> QED BY <2>1, <2>2
<1>8. \A m \in Nat : m \in A
  <2> HIDE DEF A
  <2> QED BY <1>1, <1>6, <1>7, SetInduction
<1>9. At(q, I) = F[N]
  BY DEF At
<1>10. F \in [0 .. N -> Seq(S)]
  <2>1. ASSUME NEW k \in 0 .. N PROVE F[k] \in Seq(S)
    <3>1. k \in A
      <4> HIDE DEF A
      <4> QED BY <1>1, <1>8
    <3> HIDE DEF F
    <3> QED BY <1>1, <3>1
  <2> HIDE DEF F, Body
  <2> QED BY <1>4, <2>1
<1>11. \A k \in 1 .. N : F[k] = IF k \in I THEN Append(F[k - 1], q[k]) ELSE F[k - 1]
  <2> HIDE DEF F
  <2> QED BY <1>1, <1>5
<1> HIDE DEF F
<1>12. IsPicking(F, S, q, I)
  BY <1>6, <1>9, <1>10, <1>11 DEF IsPicking
<1> QED BY <1>12

(* What is picked from the first k elements grows with k. *)
Grows(S, q, I) ==
  /\ At(q, I \cap (1 .. 0)) = <<>>
  /\ At(q, I \cap (1 .. Len(q))) = At(q, I)
  /\ \A k \in 0 .. Len(q) : At(q, I \cap (1 .. k)) \in Seq(S)
  /\ \A k \in 1 .. Len(q) :
       At(q, I \cap (1 .. k)) = IF k \in I THEN Append(At(q, I \cap (1 .. k - 1)), q[k])
                               ELSE At(q, I \cap (1 .. k - 1))

LEMMA AtUpTo ==
  ASSUME NEW S, NEW q \in Seq(S), NEW I
  PROVE  Grows(S, q, I)
<1> DEFINE N == Len(q)
<1>1. N \in Nat
  OBVIOUS
<1>2. PICK f : IsPicking(f, S, q, I)
  BY AtSteps
<1>3. /\ f \in [0 .. N -> Seq(S)] /\ f[0] = <<>> /\ At(q, I) = f[N]
      /\ \A k \in 1 .. N : f[k] = IF k \in I THEN Append(f[k - 1], q[k]) ELSE f[k - 1]
  BY <1>2 DEF IsPicking
<1>4. ASSUME NEW k \in 0 .. N PROVE At(q, I \cap (1 .. k)) = f[k]
  <2> DEFINE J == I \cap (1 .. k)
  <2>1. PICK h : IsPicking(h, S, q, J)
    BY AtSteps
  <2>2. /\ h \in [0 .. N -> Seq(S)] /\ h[0] = <<>> /\ At(q, J) = h[N]
        /\ \A m \in 1 .. N : h[m] = IF m \in J THEN Append(h[m - 1], q[m]) ELSE h[m - 1]
    BY <2>1 DEF IsPicking
  <2> DEFINE A == {m \in Nat : m <= N => h[m] = IF m <= k THEN f[m] ELSE f[k]}
  <2>3. 0 \in A
    BY <1>3, <2>2
  <2>4. ASSUME NEW m \in Nat, m \in A PROVE m + 1 \in A
    <3> SUFFICES ASSUME m + 1 <= N
                 PROVE  h[m + 1] = IF m + 1 <= k THEN f[m + 1] ELSE f[k]
      OBVIOUS
    <3>1. h[m] = IF m <= k THEN f[m] ELSE f[k]
      BY <2>4
    <3> DEFINE j == m + 1
    <3>2. j \in 1 .. N /\ j - 1 = m
      BY <1>1
    <3>3. h[j] = IF j \in J THEN Append(h[m], q[j]) ELSE h[m]
      BY <2>2, <3>2
    <3>4. f[j] = IF j \in I THEN Append(f[m], q[j]) ELSE f[m]
      BY <1>3, <3>2
    <3>5. CASE j <= k
      <4>1. (j \in J <=> j \in I) /\ h[m] = f[m]
        BY <3>1, <3>2, <3>5
      <4> HIDE DEF j
      <4>2. h[j] = f[j]
        BY <3>3, <3>4, <4>1
      <4> QED BY <3>5, <4>2 DEF j
    <3>6. CASE j > k
      <4>1. j \notin J /\ h[m] = f[k]
        BY <3>1, <3>2, <3>6
      <4> HIDE DEF j
      <4>2. h[j] = f[k]
        BY <3>3, <4>1
      <4> QED BY <3>6, <4>2 DEF j
    <3> QED BY <3>5, <3>6
  <2>5. N \in A
    <3> HIDE DEF A
    <3> QED BY <1>1, <2>3, <2>4, SetInduction
  <2>6. h[N] = f[k]
    BY <1>1, <2>5
  <2> QED BY <2>2, <2>6
<1>5. \A k \in 1 .. N : k \in 0 .. N /\ k - 1 \in 0 .. N
  OBVIOUS
<1>6. 0 \in 0 .. N /\ N \in 0 .. N
  OBVIOUS
<1> HIDE DEF N
<1>7. \A k \in 1 .. N :
        At(q, I \cap (1 .. k)) = IF k \in I THEN Append(At(q, I \cap (1 .. k - 1)), q[k])
                                ELSE At(q, I \cap (1 .. k - 1))
  BY <1>3, <1>4, <1>5
<1> QED BY <1>3, <1>4, <1>6, <1>7 DEF N, Grows

(* A function applied to each element. *)
LEMMA MapAppend ==
  ASSUME NEW X, NEW Y, NEW g \in [X -> Y], NEW q \in Seq(X), NEW e \in X
  PROVE  /\ [i \in DOMAIN q |-> g[q[i]]] \in Seq(Y)
         /\ Len([i \in DOMAIN q |-> g[q[i]]]) = Len(q)
         /\ [i \in DOMAIN Append(q, e) |-> g[Append(q, e)[i]]] =
              Append([i \in DOMAIN q |-> g[q[i]]], g[e])
<1> DEFINE m == [i \in DOMAIN q |-> g[q[i]]]
           r == Append(q, e)
           t == [i \in DOMAIN r |-> g[r[i]]]
<1>1. /\ r \in Seq(X) /\ Len(r) = Len(q) + 1
      /\ \A i \in 1 .. Len(q) : r[i] = q[i]
      /\ r[Len(q) + 1] = e /\ Len(q) \in Nat
      /\ DOMAIN q = 1 .. Len(q) /\ DOMAIN r = 1 .. Len(r)
  OBVIOUS
<1>2. m \in Seq(Y) /\ Len(m) = Len(q) /\ \A i \in 1 .. Len(q) : m[i] = g[q[i]]
  <2>1. \A i \in 1 .. Len(q) : q[i] \in X /\ g[q[i]] \in Y
    OBVIOUS
  <2> QED BY <1>1, <2>1
<1>3. t \in Seq(Y) /\ Len(t) = Len(r) /\ \A i \in 1 .. Len(r) : t[i] = g[r[i]]
  <2> HIDE DEF r
  <2>1. \A i \in 1 .. Len(r) : r[i] \in X /\ g[r[i]] \in Y
    BY <1>1
  <2> QED BY <1>1, <2>1
<1>4. g[e] \in Y
  OBVIOUS
<1> HIDE DEF m, r, t
<1>5. t = Append(m, g[e])
  <2> DEFINE w == Append(m, g[e])
  <2>1. /\ w \in Seq(Y) /\ Len(w) = Len(m) + 1
        /\ \A i \in 1 .. Len(m) : w[i] = m[i]
        /\ w[Len(m) + 1] = g[e]
    BY <1>2, <1>4
  <2>2. \A i \in 1 .. Len(t) : t[i] = w[i]
    <3> HIDE DEF w
    <3> QED BY <1>1, <1>2, <1>3, <2>1
  <2>3. Len(t) = Len(w)
    BY <1>1, <1>2, <1>3, <2>1
  <2> HIDE DEF w
  <2>4. t = w
    BY <1>3, <2>1, <2>2, <2>3, SeqEqual
  <2> QED BY <2>4 DEF w
<1>6. m \in Seq(Y) /\ Len(m) = Len(q)
  BY <1>2
<1> QED BY <1>5, <1>6 DEF m, r, t

(* Another element of the second sequence is one more at the end. *)
LEMMA JoinNext ==
  ASSUME NEW T, NEW r \in Seq(T), NEW o \in Seq(T), NEW N \in 1 .. Len(o)
  PROVE  r \o SubSeq(o, 1, N) = Append(r \o SubSeq(o, 1, N - 1), o[N])
<1>1. /\ SubSeq(o, 1, N - 1) \in Seq(T) /\ o[N] \in T
      /\ SubSeq(o, 1, N) = Append(SubSeq(o, 1, N - 1), o[N])
  <2>1. Len(o) \in Nat /\ N \in 1 .. N /\ 1 \in 1 .. Len(o) /\ N \in 1 .. Len(o) /\ N - 1 \in Int
    OBVIOUS
  <2>2. \A i \in 1 .. N - 1 : o[i] \in T
    BY <2>1
  <2>3. SubSeq(o, 1, N - 1) \in Seq(T) /\ o[N] \in T
    BY <2>1, <2>2, SubSeqProperties
  <2>4. SubSeq(o, 1, N) = SubSeq(o, 1, N - 1) \o <<o[N]>>
    BY <2>1, SubSeqRecursiveSecond
  <2>5. Append(SubSeq(o, 1, N - 1), o[N]) = SubSeq(o, 1, N - 1) \o <<o[N]>>
    <3> DEFINE p == SubSeq(o, 1, N - 1)
               x == o[N]
    <3> HIDE DEF p, x
    <3>1. p \in Seq(T) /\ x \in T
      BY <2>3 DEF p, x
    <3>2. Append(p, x) = p \o <<x>>
      BY <3>1, AppendIsConcat
    <3> QED BY <3>2 DEF p, x
  <2> QED BY <2>3, <2>4, <2>5
<1> DEFINE front == SubSeq(o, 1, N - 1)
           x == o[N]
<1> HIDE DEF front, x
<1>2. front \in Seq(T) /\ x \in T
  BY <1>1 DEF front, x
<1>3. r \o Append(front, x) = Append(r \o front, x)
  BY <1>2
<1> QED BY <1>1, <1>3 DEF front, x

-----------------------------------------------------------------------------
(* The pins of a file.                                                     *)

(* No pin is blank, and no package has the name of a blank line. *)
LEMMA PinsAreNotBlank ==
  /\ Blank \notin Pin /\ \A x \in Pin : IsPin(x) /\ x.pkg \in Packages
  /\ Blank.pkg = "" /\ "" \notin Packages
<1>1. Blank.pkg = "" /\ \A x \in Pin : x.pkg \in Packages
  BY DEF Blank, Pin
<1> QED BY <1>1, BumpAssumption DEF IsPin

PinPlaces(s) == {k \in DOMAIN s : IsPin(s[k])}

(* Lines that are changed in place, and followed by pins, have the pins    *)
(* that were there, changed, and those that follow.                        *)
LEMMA PinsMapped ==
  ASSUME NEW g \in [Pin \cup {Blank} -> Pin \cup {Blank}],
         \A x \in Pin \cup {Blank} : IsPin(g[x]) <=> IsPin(x),
         NEW s \in Lines, NEW a \in Seq(Pin), NEW t \in Lines,
         Len(t) = Len(s) + Len(a),
         \A i \in 1 .. Len(s) : t[i] = g[s[i]],
         \A i \in 1 .. Len(a) : t[Len(s) + i] = a[i]
  PROVE  Pins(t) = [i \in DOMAIN Pins(s) |-> g[Pins(s)[i]]] \o a
<1> DEFINE L == Pin \cup {Blank}
           Map(x) == [i \in DOMAIN x |-> g[x[i]]]
           N == Len(s)
           K == Len(a)
<1> HIDE DEF L
<1>1. s \in Seq(L) /\ t \in Seq(L) /\ g \in [L -> L] /\ N \in Nat /\ K \in Nat /\ Pin \subseteq L
  BY DEF L, Lines
<1>2. PICK f : IsPicking(f, L, s, PinPlaces(s))
  BY <1>1, AtSteps
<1>3. PICK h : IsPicking(h, L, t, PinPlaces(t))
  BY <1>1, AtSteps
<1>4. /\ f \in [0 .. N -> Seq(L)] /\ f[0] = <<>> /\ Pins(s) = f[N]
      /\ \A k \in 1 .. N :
           f[k] = IF k \in PinPlaces(s) THEN Append(f[k - 1], s[k]) ELSE f[k - 1]
  BY <1>2 DEF IsPicking, Pins, PinPlaces
<1>5. /\ h \in [0 .. Len(t) -> Seq(L)] /\ h[0] = <<>> /\ Pins(t) = h[Len(t)]
      /\ \A k \in 1 .. Len(t) :
           h[k] = IF k \in PinPlaces(t) THEN Append(h[k - 1], t[k]) ELSE h[k - 1]
  BY <1>3 DEF IsPicking, Pins, PinPlaces
<1>6. /\ \A k \in 1 .. N : k \in PinPlaces(t) <=> k \in PinPlaces(s)
      /\ \A k \in 1 .. K : N + k \in PinPlaces(t)
  <2>1. \A k \in 1 .. N : k \in PinPlaces(t) <=> k \in PinPlaces(s)
    <3> TAKE k \in 1 .. N
    <3>1. /\ k \in DOMAIN s /\ k \in DOMAIN t /\ s[k] \in L /\ t[k] = g[s[k]]
      BY <1>1
    <3> QED BY <3>1 DEF PinPlaces, L
  <2>2. \A k \in 1 .. K : N + k \in PinPlaces(t)
    <3> TAKE k \in 1 .. K
    <3>1. N + k \in DOMAIN t /\ t[N + k] = a[k] /\ a[k] \in Pin
      BY <1>1
    <3> QED BY <3>1, PinsAreNotBlank DEF PinPlaces
  <2> QED BY <2>1, <2>2
<1> DEFINE A == {m \in Nat : m <= N => h[m] = Map(f[m])}
           B == {m \in Nat : m <= K => h[N + m] = Map(f[N]) \o SubSeq(a, 1, m)}
<1>7. \A x \in Seq(L) : Map(x) \in Seq(L)
  <2> TAKE x \in Seq(L)
  <2>1. \A i \in 1 .. Len(x) : x[i] \in L /\ g[x[i]] \in L
    BY <1>1
  <2> QED BY <2>1
<1>8. N \in A
  <2>1. 0 \in A
    <3>1. Map(<<>>) = <<>>
      OBVIOUS
    <3> QED BY <1>4, <1>5, <3>1
  <2>2. ASSUME NEW m \in Nat, m \in A PROVE m + 1 \in A
    <3> DEFINE j == m + 1
    <3> SUFFICES ASSUME j <= N PROVE h[j] = Map(f[j])
      OBVIOUS
    <3>1. /\ j \in 1 .. N /\ j \in 1 .. Len(t) /\ j - 1 = m /\ m \in 0 .. N
      BY <1>1
    <3>2. h[m] = Map(f[m])
      BY <2>2, <1>1
    <3> HIDE DEF j, Map, N
    <3>3. f[m] \in Seq(L) /\ s[j] \in L /\ t[j] = g[s[j]]
      <4>1. f[m] \in Seq(L)
        BY <1>4, <3>1
      <4>2. s[j] \in L
        BY <1>1, <3>1, ElementOfSeq DEF N
      <4>3. t[j] = g[s[j]]
        BY <3>1 DEF N
      <4> QED BY <4>1, <4>2, <4>3
    <3>4. f[j] = IF j \in PinPlaces(s) THEN Append(f[m], s[j]) ELSE f[m]
      BY <1>4, <3>1
    <3>5. h[j] = IF j \in PinPlaces(s) THEN Append(h[m], t[j]) ELSE h[m]
      BY <1>5, <1>6, <3>1
    <3>6. Map(Append(f[m], s[j])) = Append(Map(f[m]), g[s[j]])
      <4> DEFINE q == f[m]
                 e == s[j]
      <4>1. q \in Seq(L) /\ e \in L /\ g \in [L -> L]
        BY <1>1, <3>3
      <4> HIDE DEF q, e
      <4>2. Map(Append(q, e)) = Append(Map(q), g[e])
        BY <4>1, MapAppend DEF Map
      <4> QED BY <4>2 DEF q, e
    <3> QED BY <3>2, <3>3, <3>4, <3>5, <3>6
  <2> HIDE DEF A
  <2> QED BY <1>1, <2>1, <2>2, SetInduction
<1>9. h[N] = Map(f[N]) /\ f[N] \in Seq(L)
  <2>1. N <= N => h[N] = Map(f[N])
    BY <1>8
  <2>2. N \in Nat /\ N <= N /\ N \in 0 .. N
    BY <1>1
  <2>3. f \in [0 .. N -> Seq(L)]
    BY <1>4
  <2> HIDE DEF Map, N
  <2>4. f[N] \in Seq(L)
    BY <2>2, <2>3, Zenon
  <2> QED BY <2>1, <2>2, <2>4
<1>10. K \in B
  <2> DEFINE r == Map(f[N])
  <2>0. r \in Seq(L) /\ h[N] = r
    BY <1>7, <1>9
  <2> HIDE DEF r
  <2>1. h[N + 0] = r \o SubSeq(a, 1, 0)
    <3>1. SubSeq(a, 1, 0) = <<>>
      BY SubSeqEmpty
    <3>2. r \o <<>> = r
      BY <2>0, ConcatEmptySeq
    <3>3. N + 0 = N
      BY <1>1
    <3> QED BY <2>0, <3>1, <3>2, <3>3
  <2>2. ASSUME NEW m \in Nat, m <= K => h[N + m] = r \o SubSeq(a, 1, m), m + 1 <= K
        PROVE  h[N + (m + 1)] = r \o SubSeq(a, 1, m + 1)
    <3> DEFINE j == m + 1
               i == N + j
    <3>1. j \in 1 .. K /\ j - 1 = m /\ i \in 1 .. Len(t) /\ i - 1 = N + m /\ m <= K
      BY <1>1, <2>2
    <3>2. h[N + m] = r \o SubSeq(a, 1, m)
      BY <2>2, <3>1
    <3>3. i \in PinPlaces(t) /\ t[i] = a[j]
      BY <1>6, <3>1
    <3>4. a \in Seq(L)
      BY <1>1, SeqMonotonic
    <3> HIDE DEF i, j
    <3>5. h[i] = Append(h[N + m], a[j])
      BY <1>5, <3>1, <3>3
    <3>6. r \o SubSeq(a, 1, j) = Append(r \o SubSeq(a, 1, j - 1), a[j])
      <4>1. j \in 1 .. Len(a)
        BY <3>1
      <4>2. r \in Seq(L)
        BY <2>0
      <4> QED BY ONLY <3>4, <4>1, <4>2, JoinNext
    <3>7. h[i] = r \o SubSeq(a, 1, j)
      BY <3>1, <3>2, <3>5, <3>6
    <3> QED BY <3>7 DEF i, j
  <2>3. 0 \in B
    BY <2>1 DEF r
  <2>4. ASSUME NEW m \in Nat, m \in B PROVE m + 1 \in B
    <3> HIDE DEF Map, N, K
    <3>1. m <= K => h[N + m] = r \o SubSeq(a, 1, m)
      BY <2>4 DEF r
    <3>2. m + 1 <= K => h[N + (m + 1)] = r \o SubSeq(a, 1, m + 1)
      BY <2>2, <3>1
    <3> QED BY <3>2 DEF r
  <2> HIDE DEF B
  <2> QED BY <1>1, <2>3, <2>4, SetInduction
<1>11. SubSeq(a, 1, K) = a
  BY SubSeqFull
<1>12. h[N + K] = Map(f[N]) \o a
  <2> HIDE DEF Map, N, K
  <2> QED BY <1>1, <1>10, <1>11
<1> QED BY <1>4, <1>5, <1>12

(* Every pin of a file is a line of it. *)
LEMMA PinsAreLines ==
  ASSUME NEW s \in Lines, NEW i \in DOMAIN Pins(s)
  PROVE  /\ Pins(s) \in Seq(Pin \cup {Blank})
         /\ \E k \in DOMAIN s : IsPin(s[k]) /\ Pins(s)[i] = s[k]
<1> DEFINE L == Pin \cup {Blank}
           N == Len(s)
           P == PinPlaces(s)
           E == {s[k] : k \in P}
           q == [k \in DOMAIN s |-> s[k]]
<1> HIDE DEF L
<1>1. s \in Seq(L) /\ N \in Nat /\ DOMAIN s = 1 .. N
  BY DEF L, Lines
<1>2. PICK f : IsPicking(f, L, s, P)
  BY <1>1, AtSteps
<1>3. /\ f \in [0 .. N -> Seq(L)] /\ f[0] = <<>> /\ Pins(s) = f[N]
      /\ \A k \in 1 .. N : f[k] = IF k \in P THEN Append(f[k - 1], s[k]) ELSE f[k - 1]
  BY <1>2 DEF IsPicking, Pins, PinPlaces
<1> DEFINE A == {m \in Nat : m <= N => f[m] \in Seq(E)}
<1>4. N \in A
  <2>1. 0 \in A
    BY <1>3
  <2>2. ASSUME NEW m \in Nat, m \in A PROVE m + 1 \in A
    <3> DEFINE j == m + 1
    <3> SUFFICES ASSUME j <= N PROVE f[j] \in Seq(E)
      OBVIOUS
    <3>1. j \in 1 .. N /\ j - 1 = m /\ f[m] \in Seq(E)
      BY <1>1, <2>2
    <3> HIDE DEF j
    <3>2. f[j] = IF j \in P THEN Append(f[m], s[j]) ELSE f[m]
      BY <1>3, <3>1
    <3>3. j \in P => s[j] \in E
      OBVIOUS
    <3> HIDE DEF E
    <3> QED BY <3>1, <3>2, <3>3
  <2> HIDE DEF A
  <2> QED BY <1>1, <2>1, <2>2, SetInduction
<1>5. Pins(s) \in Seq(E) /\ Pins(s) \in Seq(L)
  <2>1. N \in 0 .. N /\ f[N] \in Seq(E)
    BY <1>1, <1>4
  <2> QED BY <1>3, <2>1
<1>6. Pins(s)[i] \in E
  <2> HIDE DEF E
  <2> QED BY <1>5
<1> QED BY <1>5, <1>6 DEF L, PinPlaces

(* A blank line that is lost, or an empty file's one, is no pin. *)
LEMMA PinsWritten ==
  ASSUME NEW s \in Lines
  PROVE  Pins(Written(s)) = Pins(s)
<1> DEFINE L == Pin \cup {Blank}
           N == Len(s)
           P == PinPlaces(s)
           t == Written(s)
           K == Len(t)
           Q == PinPlaces(t)
<1> HIDE DEF L, t
<1>1. s \in Seq(L) /\ t \in Seq(L) /\ N \in Nat /\ K \in Nat
  BY WrittenType DEF L, Lines, t
<1>2. PICK f : IsPicking(f, L, s, P)
  BY <1>1, AtSteps
<1>3. /\ f \in [0 .. N -> Seq(L)] /\ f[0] = <<>> /\ Pins(s) = f[N]
      /\ \A k \in 1 .. N : f[k] = IF k \in P THEN Append(f[k - 1], s[k]) ELSE f[k - 1]
  BY <1>2 DEF IsPicking, Pins, PinPlaces
<1>4. PICK h : IsPicking(h, L, t, Q)
  BY <1>1, AtSteps
<1>5. /\ h \in [0 .. K -> Seq(L)] /\ h[0] = <<>> /\ Pins(t) = h[K]
      /\ \A k \in 1 .. K : h[k] = IF k \in Q THEN Append(h[k - 1], t[k]) ELSE h[k - 1]
  BY <1>4 DEF IsPicking, Pins, PinPlaces
<1>6. CASE s = <<>>
  <2>1. t = <<Blank>> /\ N = 0 /\ K = 1 /\ t[1] = Blank
    BY <1>6 DEF Written, t
  <2>2. 1 \notin Q
    BY <2>1 DEF PinPlaces, IsPin
  <2>3. h[1] = h[0]
    BY <1>5, <2>1, <2>2
  <2> QED BY <1>3, <1>5, <2>1, <2>3 DEF t
<1>7. CASE N > 1 /\ s[N] = Blank
  <2>1. t = SubSeq(s, 1, N - 1)
    BY <1>7 DEF Written, t, Last, Front
  <2>2. K = N - 1 /\ \A k \in 1 .. K : t[k] = s[k]
    BY <1>1, <1>7, <2>1
  <2>3. \A k \in 1 .. K : k \in Q <=> k \in P
    BY <1>1, <2>2 DEF PinPlaces
  <2> DEFINE A == {m \in Nat : m <= K => h[m] = f[m]}
  <2>4. 0 \in A
    BY <1>3, <1>5
  <2>5. ASSUME NEW m \in Nat, m \in A PROVE m + 1 \in A
    <3> DEFINE j == m + 1
    <3> SUFFICES ASSUME j <= K PROVE h[j] = f[j]
      OBVIOUS
    <3>1. j \in 1 .. K /\ j \in 1 .. N /\ j - 1 = m /\ h[m] = f[m]
      BY <1>1, <2>2, <2>5
    <3> HIDE DEF j
    <3> QED BY <1>3, <1>5, <2>2, <2>3, <3>1
  <2>6. K \in A
    <3> HIDE DEF A
    <3> QED BY <1>1, <2>4, <2>5, SetInduction
  <2>7. h[K] = f[K]
    BY <1>1, <2>6
  <2>8. f[N] = f[N - 1]
    <3>1. N \in 1 .. N /\ N \notin P
      BY <1>1, <1>7 DEF PinPlaces, IsPin
    <3> QED BY <1>3, <3>1
  <2> QED BY <1>3, <1>5, <2>2, <2>7, <2>8 DEF t
<1>8. CASE s # <<>> /\ ~(N > 1 /\ s[N] = Blank)
  BY <1>8 DEF Written, Last
<1> QED BY <1>6, <1>7, <1>8
-----------------------------------------------------------------------------
(* The places of a package, and the new packages.                          *)

(* A set of numbers that is not empty has a least one. *)
LEMMA MinIsMember ==
  ASSUME NEW I \in SUBSET Nat, I # {}
  PROVE  Min(I) \in I /\ \A j \in I : Min(I) <= j
<1>1. PICK x \in I : \A y \in I : ~(<<y, x>> \in OpToRel(<, Nat))
  BY NatLessThanWellFounded, WFMin
<1>2. ASSUME NEW y \in I PROVE x <= y
  <2>1. x \in Nat /\ y \in Nat
    OBVIOUS
  <2>2. ~(y < x)
    BY <1>1, <2>1 DEF OpToRel
  <2> QED BY <2>1, <2>2
<1> QED BY <1>2 DEF Min

(* Max, of a bounded set, is not below any of it. *)
LEMMA MaxIsUpper ==
  ASSUME NEW m \in Nat, NEW I \in SUBSET (1 .. m), I # {}
  PROVE  \A j \in I : j <= Max(I)
<1> DEFINE T == {m - i : i \in I}
<1>1. \A i \in I : i \in Int /\ m - i \in Nat
  OBVIOUS
<1>2. T \subseteq Nat /\ T # {}
  BY <1>1
<1>3. PICK x \in T : \A y \in T : x <= y
  <2> HIDE DEF T
  <2> QED BY <1>2, MinIsMember
<1>4. PICK i \in I : x = m - i
  OBVIOUS
<1>5. ASSUME NEW j \in I PROVE i >= j
  <2>1. m - i <= m - j
    BY <1>3, <1>4
  <2>2. i \in Int /\ j \in Int /\ m \in Int
    BY <1>1
  <2> QED BY ONLY <2>1, <2>2
<1>6. Max(I) \in I /\ \A j \in I : Max(I) >= j
  BY <1>5 DEF Max
<1> QED
  BY <1>1, <1>6

(* The first k updates, applied to the lines that were read: no line has   *)
(* moved, what follows them is new, and each update stands where the next  *)
(* run would look for it.                                                  *)
Stands(s, u) ==
  \E f, l \in DOMAIN s :
    /\ s[f].pkg = u.pkg /\ s[l].pkg = u.pkg
    /\ \A i \in DOMAIN s : s[i].pkg = u.pkg => f <= i /\ i <= l
    /\ s[f] = [pkg |-> u.pkg, op |-> s[l].op, ver |-> u.ver]
Standing(s) == \A j \in DOMAIN updates : Stands(s, updates[j])

Unread(p) == \A i \in DOMAIN read : read[i].pkg # p

FormInv(ls, k) ==
  /\ Len(read) <= Len(ls)
  /\ \A i \in DOMAIN read : ls[i].pkg = read[i].pkg
  /\ \A i \in DOMAIN read :
       (\A j \in 1 .. k : updates[j].pkg # read[i].pkg) => ls[i] = read[i]
  /\ \A i \in Len(read) + 1 .. Len(ls) :
       \E j \in 1 .. k : ls[i].pkg = updates[j].pkg /\ Unread(updates[j].pkg)
  /\ \A j \in 1 .. k : Stands(ls, updates[j])

(* Where each package has one line, the lines are the old ones, updated,   *)
(* and the new ones in their order.                                        *)
AddedUpTo(k) ==
  LET new == At(updates, New(read) \cap (1 .. k))
  IN [i \in DOMAIN new |-> AsPin(new[i])]
LineInv(ls, k) ==
  /\ Len(ls) = Len(read) + Len(AddedUpTo(k))
  /\ \A i \in 1 .. Len(AddedUpTo(k)) : ls[Len(read) + i] = AddedUpTo(k)[i]
  /\ onlyReplace => AddedUpTo(k) = <<>>
  /\ PinnedOnce(read) => \A i \in DOMAIN read : \A j \in 1 .. k :
       updates[j].pkg = read[i].pkg =>
         /\ ls[i] = [read[i] EXCEPT !.ver = updates[j].ver]
         /\ ~Refused(read[i].ver, updates[j].ver)

Working == {"update", "write", "writing"}
WorkInv ==
  /\ pc # "idle" => ~Duplicates
  /\ pc \in {"backup", "copy", "parse"} => n = 1
  /\ pc = "update" => read = before
  /\ pc = "update" /\ ~errors => FormInv(lines, n - 1) /\ LineInv(lines, n - 1)
  /\ pc \in {"write", "writing"} =>
       /\ ~errors /\ read = before
       /\ FormInv(lines, Len(updates)) /\ LineInv(lines, Len(updates))

(* After a success every update stands, and so it does for the runs that   *)
(* follow, which change no line in memory.                                 *)
SettledInv ==
  /\ pc = "idle" /\ (outcome = "ok" \/ settled) /\ ~torn => Standing(file)
  /\ outcome = "ok" => ~torn
  /\ pc # "idle" /\ settled => Standing(before)
  /\ pc \in Working /\ settled => lines = before

(* LastPin and FirstPin are the last and the first line of a package. *)
LEMMA Places ==
  ASSUME read \in Lines, NEW p
  PROVE  /\ LastPin(p) = 0 <=> Unread(p)
         /\ LastPin(p) # 0 =>
              /\ LastPin(p) \in DOMAIN read /\ read[LastPin(p)].pkg = p
              /\ FirstPin(p) \in DOMAIN read /\ read[FirstPin(p)].pkg = p
              /\ \A i \in DOMAIN read :
                   read[i].pkg = p => FirstPin(p) <= i /\ i <= LastPin(p)
<1> DEFINE I == {i \in 1 .. Len(read) : read[i].pkg = p}
<1>1. DOMAIN read = 1 .. Len(read) /\ Len(read) \in Nat /\ I \subseteq 1 .. Len(read)
  BY DEF Lines
<1>2. I = {} <=> Unread(p)
  BY <1>1 DEF Unread
<1>3. CASE I = {}
  BY <1>2, <1>3 DEF LastPin, SelectLastInSeq
<1>4. CASE I # {}
  <2>1. LastPin(p) = Max(I) /\ FirstPin(p) = Min(I)
    BY <1>4 DEF LastPin, SelectLastInSeq, FirstPin, SelectInSeq
  <2>2. Max(I) \in I /\ \A j \in I : j <= Max(I)
    <3> HIDE DEF I
    <3> QED BY <1>1, <1>4, MaxIsMember, MaxIsUpper
  <2>3. Min(I) \in I /\ \A j \in I : Min(I) <= j
    <3>1. I \in SUBSET Nat
      BY <1>1
    <3> HIDE DEF I
    <3> QED BY <1>4, <3>1, MinIsMember
  <2>4. LastPin(p) # 0
    BY <2>1, <2>2
  <2> QED BY <1>1, <1>2, <1>4, <2>1, <2>2, <2>3, <2>4
<1> QED BY <1>3, <1>4

(* Each update of a package that has no line adds one pin. *)
LEMMA AddedSteps ==
  ASSUME updates \in Seq(Update)
  PROVE  /\ AddedUpTo(0) = <<>> /\ AddedUpTo(Len(updates)) = Added(read)
         /\ \A k \in 0 .. Len(updates) : AddedUpTo(k) \in Seq(Pin)
         /\ \A k \in 1 .. Len(updates) :
              AddedUpTo(k) = IF k \in New(read)
                             THEN Append(AddedUpTo(k - 1), AsPin(updates[k]))
                             ELSE AddedUpTo(k - 1)
<1> DEFINE I == New(read)
           g == [u \in Update |-> AsPin(u)]
           Upto(k) == At(updates, I \cap (1 .. k))
<1>1. g \in [Update -> Pin]
  <2>1. \A u \in Update : AsPin(u) \in Pin
    BY DEF AsPin, Update, Pin, Operators
  <2> QED BY <2>1
<1> HIDE DEF I
<1>2. /\ Upto(0) = <<>> /\ Upto(Len(updates)) = At(updates, I)
      /\ \A k \in 0 .. Len(updates) : Upto(k) \in Seq(Update)
      /\ \A k \in 1 .. Len(updates) :
           Upto(k) = IF k \in I THEN Append(Upto(k - 1), updates[k]) ELSE Upto(k - 1)
  <2>1. Grows(Update, updates, I)
    BY AtUpTo
  <2> QED BY <2>1 DEF Grows
<1> HIDE DEF Upto
<1>3. \A x \in Seq(Update) : [i \in DOMAIN x |-> AsPin(x[i])] = [i \in DOMAIN x |-> g[x[i]]]
  <2> TAKE x \in Seq(Update)
  <2>1. \A i \in DOMAIN x : g[x[i]] = AsPin(x[i])
    OBVIOUS
  <2> QED BY <2>1
<1>4. \A k \in 0 .. Len(updates) : AddedUpTo(k) = [i \in DOMAIN Upto(k) |-> g[Upto(k)[i]]]
  <2> TAKE k \in 0 .. Len(updates)
  <2>1. AddedUpTo(k) = [i \in DOMAIN Upto(k) |-> AsPin(Upto(k)[i])]
    BY DEF AddedUpTo, Upto, I
  <2> HIDE DEF g
  <2> QED BY <1>2, <1>3, <2>1
<1>5. Len(updates) \in Nat
  OBVIOUS
<1>6. AddedUpTo(0) = <<>>
  <2>1. AddedUpTo(0) = [i \in DOMAIN <<>> |-> AsPin(<<>>[i])]
    BY <1>2 DEF AddedUpTo, Upto, I
  <2> QED BY <2>1
<1>7. AddedUpTo(Len(updates)) = Added(read)
  BY <1>2 DEF AddedUpTo, Added, Upto, I
<1> HIDE DEF g
<1>8. ASSUME NEW k \in 0 .. Len(updates) PROVE AddedUpTo(k) \in Seq(Pin)
  <2>1. Upto(k) \in Seq(Update)
    BY <1>2
  <2> DEFINE q == Upto(k)
  <2> HIDE DEF q
  <2>2. q \in Seq(Update)
    BY <2>1 DEF q
  <2>3. [i \in DOMAIN q |-> g[q[i]]] \in Seq(Pin)
    <3>1. \A i \in 1 .. Len(q) : q[i] \in Update /\ g[q[i]] \in Pin
      BY <1>1, <2>2
    <3>2. DOMAIN q = 1 .. Len(q) /\ Len(q) \in Nat
      BY <2>2
    <3> QED BY <3>1, <3>2
  <2> QED BY <1>4, <2>3 DEF q
<1>9. ASSUME NEW k \in 1 .. Len(updates)
      PROVE  AddedUpTo(k) = IF k \in I THEN Append(AddedUpTo(k - 1), AsPin(updates[k]))
                            ELSE AddedUpTo(k - 1)
  <2> DEFINE q == Upto(k - 1)
             u == updates[k]
  <2>1. k \in 0 .. Len(updates) /\ k - 1 \in 0 .. Len(updates)
    BY <1>5
  <2>2. q \in Seq(Update) /\ u \in Update
    BY <1>2, <2>1
  <2>3. Upto(k) = IF k \in I THEN Append(q, u) ELSE q
    BY <1>2
  <2>4. AddedUpTo(k - 1) = [i \in DOMAIN q |-> g[q[i]]]
    BY <1>4, <2>1
  <2>5. AddedUpTo(k) = [i \in DOMAIN Upto(k) |-> g[Upto(k)[i]]]
    BY <1>4, <2>1
  <2>6. g[u] = AsPin(u)
    BY <2>2 DEF g
  <2> HIDE DEF q, u
  <2>7. [i \in DOMAIN Append(q, u) |-> g[Append(q, u)[i]]] = Append([i \in DOMAIN q |-> g[q[i]]], g[u])
    BY <1>1, <2>2, MapAppend
  <2>8. AddedUpTo(k) = IF k \in I THEN Append(AddedUpTo(k - 1), AsPin(u)) ELSE AddedUpTo(k - 1)
    BY <2>3, <2>4, <2>5, <2>6, <2>7
  <2> QED BY <2>8 DEF u
<1> QED BY <1>6, <1>7, <1>8, <1>9 DEF I

(* One update that is not refused.  No other one is of its package, so it  *)
(* touches no line that another update has.                                *)
LEMMA OtherPackages ==
  ASSUME updates \in Seq(Update), ~Duplicates, NEW k \in 1 .. Len(updates)
  PROVE  /\ updates[k] \in Update /\ updates[k].pkg \in Packages /\ updates[k].pkg # ""
         /\ \A j \in 1 .. Len(updates) : j # k => updates[j].pkg # updates[k].pkg
         /\ k - 1 \in 0 .. Len(updates) /\ k \in 0 .. Len(updates)
         /\ 1 .. k = (1 .. k - 1) \cup {k} /\ k \notin 1 .. k - 1
         /\ 1 .. k \subseteq 1 .. Len(updates)
<1>1. updates[k] \in Update /\ updates[k].pkg \in Packages
  <2>1. updates[k] \in Update
    OBVIOUS
  <2> QED BY <2>1 DEF Update
<1>2. Len(updates) \in Nat /\ DOMAIN updates = 1 .. Len(updates)
  OBVIOUS
<1>3. \A j \in 1 .. Len(updates) : j # k => updates[j].pkg # updates[k].pkg
  BY <1>2 DEF Duplicates
<1>4. /\ k - 1 \in 0 .. Len(updates) /\ k \in 0 .. Len(updates)
      /\ 1 .. k = (1 .. k - 1) \cup {k} /\ k \notin 1 .. k - 1
      /\ 1 .. k \subseteq 1 .. Len(updates)
  BY <1>2
<1> QED BY <1>1, <1>3, <1>4, BumpAssumption

LEMMA ReplaceForm ==
  ASSUME Typed, ~Duplicates, NEW k \in 1 .. Len(updates), FormInv(lines, k - 1),
         NEW u, u = updates[k], LastPin(u.pkg) # 0,
         lines' = [lines EXCEPT ![FirstPin(u.pkg)] =
                     [pkg |-> u.pkg, op |-> read[LastPin(u.pkg)].op, ver |-> u.ver]]
  PROVE  FormInv(lines', k)
<1> DEFINE p == u.pkg
           F == FirstPin(p)
           L == LastPin(p)
           R == [pkg |-> p, op |-> read[L].op, ver |-> u.ver]
           s == lines'
<1>1. /\ u \in Update /\ p \in Packages
      /\ \A j \in 1 .. k - 1 : updates[j].pkg # p
      /\ 1 .. k = (1 .. k - 1) \cup {k}
  <2>1. updates \in Seq(Update)
    BY DEF Typed
  <2> HIDE DEF p
  <2>2. /\ updates[k] \in Update /\ updates[k].pkg \in Packages
        /\ \A j \in 1 .. Len(updates) : j # k => updates[j].pkg # updates[k].pkg
        /\ 1 .. k = (1 .. k - 1) \cup {k} /\ k \notin 1 .. k - 1
        /\ 1 .. k \subseteq 1 .. Len(updates)
    BY <2>1, OtherPackages
  <2>3. \A j \in 1 .. k - 1 : updates[j].pkg # u.pkg
    BY <2>2
  <2> QED BY <2>2, <2>3 DEF p
<1>2. /\ L \in DOMAIN read /\ F \in DOMAIN read /\ read[L].pkg = p /\ read[F].pkg = p
      /\ \A i \in DOMAIN read : read[i].pkg = p => F <= i /\ i <= L
  BY Places DEF Typed
<1>3. /\ DOMAIN read = 1 .. Len(read) /\ Len(read) \in Nat
      /\ DOMAIN lines = 1 .. Len(lines) /\ Len(lines) \in Nat
  BY DEF Typed, Lines
<1>4. /\ Len(read) <= Len(lines)
      /\ \A i \in DOMAIN read : lines[i].pkg = read[i].pkg
      /\ \A i \in DOMAIN read :
           (\A j \in 1 .. k - 1 : updates[j].pkg # read[i].pkg) => lines[i] = read[i]
      /\ \A i \in Len(read) + 1 .. Len(lines) :
           \E j \in 1 .. k - 1 : lines[i].pkg = updates[j].pkg /\ Unread(updates[j].pkg)
      /\ \A j \in 1 .. k - 1 : Stands(lines, updates[j])
  BY DEF FormInv
<1>5. R.pkg = p /\ R.op = read[L].op /\ R.ver = u.ver
  OBVIOUS
<1>6. /\ DOMAIN s = 1 .. Len(lines) /\ Len(s) = Len(lines)
      /\ \A i \in 1 .. Len(lines) : s[i] = IF i = F THEN R ELSE lines[i]
      /\ F \in 1 .. Len(lines) /\ L \in 1 .. Len(lines)
  <2>1. F \in 1 .. Len(lines) /\ L \in 1 .. Len(lines)
    BY <1>2, <1>3, <1>4
  <2>2. s = [lines EXCEPT ![F] = R]
    OBVIOUS
  <2> HIDE DEF R, F, L, s
  <2> QED BY <1>3, <2>1, <2>2 DEF Typed, Lines
<1> HIDE DEF p, F, L, R, s
<1>7. \A i \in 1 .. Len(lines) : s[i].pkg = lines[i].pkg
  BY <1>2, <1>4, <1>5, <1>6
<1>8. \A i \in DOMAIN read : (\A j \in 1 .. k : updates[j].pkg # read[i].pkg) => s[i] = read[i]
  <2>1. \A i \in DOMAIN read : i \in 1 .. Len(lines)
    BY <1>3, <1>4
  <2>2. k \in 1 .. k /\ updates[k].pkg = p
    BY DEF p
  <2> QED BY <1>1, <1>2, <1>4, <1>6, <2>1, <2>2
<1>9. \A i \in Len(read) + 1 .. Len(s) :
        \E j \in 1 .. k : s[i].pkg = updates[j].pkg /\ Unread(updates[j].pkg)
  <2> TAKE i \in Len(read) + 1 .. Len(s)
  <2>1. i \in Len(read) + 1 .. Len(lines) /\ i \in 1 .. Len(lines)
    BY <1>3, <1>6
  <2> QED BY <1>1, <1>4, <1>7, <2>1
<1>10. \A j \in 1 .. k - 1 : Stands(s, updates[j])
  <2> TAKE j \in 1 .. k - 1
  <2>1. updates[j].pkg # p
    BY <1>1
  <2>2. PICK f, l \in DOMAIN lines :
          /\ lines[f].pkg = updates[j].pkg /\ lines[l].pkg = updates[j].pkg
          /\ \A i \in DOMAIN lines : lines[i].pkg = updates[j].pkg => f <= i /\ i <= l
          /\ lines[f] = [pkg |-> updates[j].pkg, op |-> lines[l].op, ver |-> updates[j].ver]
    BY <1>4 DEF Stands
  <2>3. lines[F].pkg = p
    BY <1>2, <1>4
  <2>4. s[f] = lines[f] /\ s[l] = lines[l]
    BY <1>3, <1>6, <2>1, <2>2, <2>3
  <2>5. f \in DOMAIN s /\ l \in DOMAIN s
    BY <1>3, <1>6, <2>2
  <2>6. \A i \in DOMAIN s : s[i].pkg = updates[j].pkg => f <= i /\ i <= l
    BY <1>3, <1>6, <1>7, <2>2
  <2> QED BY <2>2, <2>4, <2>5, <2>6 DEF Stands
<1>11. Stands(s, u)
  <2>1. F \in DOMAIN s /\ L \in DOMAIN s /\ s[F].pkg = p /\ s[L].pkg = p
    BY <1>2, <1>4, <1>6, <1>7
  <2>2. ASSUME NEW i \in DOMAIN s, s[i].pkg = p PROVE F <= i /\ i <= L
    <3>1. lines[i].pkg = p /\ i \in 1 .. Len(lines)
      BY <1>6, <1>7, <2>2
    <3>2. CASE i \in DOMAIN read
      BY <1>2, <1>4, <3>1, <3>2
    <3>3. CASE i \notin DOMAIN read
      <4>1. i \in Len(read) + 1 .. Len(lines)
        BY <1>3, <3>1, <3>3
      <4> QED BY <1>1, <1>4, <3>1, <4>1
    <3> QED BY <3>2, <3>3
  <2>3. s[L].op = read[L].op
    <3>1. lines[L] = read[L]
      BY <1>1, <1>2, <1>4
    <3> QED BY <1>5, <1>6, <3>1
  <2>4. s[F] = [pkg |-> p, op |-> s[L].op, ver |-> u.ver]
    <3>1. s[F] = R
      BY <1>6
    <3> QED BY <2>3, <3>1 DEF R
  <2> QED BY <2>1, <2>2, <2>4 DEF Stands, p
<1>12. Len(read) <= Len(s) /\ \A i \in DOMAIN read : s[i].pkg = read[i].pkg
  <2>1. \A i \in DOMAIN read : i \in 1 .. Len(lines)
    BY <1>3, <1>4
  <2> QED BY <1>4, <1>6, <1>7, <2>1
<1>13. \A j \in 1 .. k : Stands(s, updates[j])
  BY <1>1, <1>10, <1>11
<1> QED BY <1>8, <1>9, <1>12, <1>13 DEF FormInv, s

(* A pin that is appended is the only line of its package. *)
LEMMA AppendForm ==
  ASSUME Typed, ~Duplicates, NEW k \in 1 .. Len(updates), FormInv(lines, k - 1),
         NEW u, u = updates[k], LastPin(u.pkg) = 0, lines' = Append(lines, NewPin(u))
  PROVE  FormInv(lines', k)
<1> DEFINE p == u.pkg
           R == NewPin(u)
           s == lines'
           N == Len(lines)
<1>1. /\ u \in Update /\ p \in Packages
      /\ \A j \in 1 .. k - 1 : updates[j].pkg # p
      /\ 1 .. k = (1 .. k - 1) \cup {k}
  <2>1. updates \in Seq(Update)
    BY DEF Typed
  <2> HIDE DEF p
  <2>2. /\ updates[k] \in Update /\ updates[k].pkg \in Packages
        /\ \A j \in 1 .. Len(updates) : j # k => updates[j].pkg # updates[k].pkg
        /\ 1 .. k = (1 .. k - 1) \cup {k} /\ k \notin 1 .. k - 1
        /\ 1 .. k \subseteq 1 .. Len(updates)
    BY <2>1, OtherPackages
  <2>3. \A j \in 1 .. k - 1 : updates[j].pkg # u.pkg
    BY <2>2
  <2> QED BY <2>2, <2>3 DEF p
<1>2. Unread(p) /\ \A i \in DOMAIN read : read[i].pkg # p
  BY Places DEF Typed, Unread
<1>3. /\ DOMAIN read = 1 .. Len(read) /\ Len(read) \in Nat
      /\ DOMAIN lines = 1 .. N /\ N \in Nat
  BY DEF Typed, Lines
<1>4. /\ Len(read) <= N
      /\ \A i \in DOMAIN read : lines[i].pkg = read[i].pkg
      /\ \A i \in DOMAIN read :
           (\A j \in 1 .. k - 1 : updates[j].pkg # read[i].pkg) => lines[i] = read[i]
      /\ \A i \in Len(read) + 1 .. N :
           \E j \in 1 .. k - 1 : lines[i].pkg = updates[j].pkg /\ Unread(updates[j].pkg)
      /\ \A j \in 1 .. k - 1 : Stands(lines, updates[j])
  BY DEF FormInv
<1>5. R = [pkg |-> p, op |-> "==", ver |-> u.ver] /\ R \in Pin
  BY <1>1 DEF NewPin, Update, Pin, Operators
<1>6. /\ DOMAIN s = 1 .. N + 1 /\ Len(s) = N + 1
      /\ \A i \in 1 .. N : s[i] = lines[i]
      /\ s[N + 1] = R
  <2>1. s = Append(lines, R) /\ lines \in Seq(Pin \cup {Blank})
    BY DEF Typed, Lines
  <2> HIDE DEF R, s
  <2> QED BY <1>5, <2>1
<1>7. R.pkg = p /\ R.op = "==" /\ R.ver = u.ver
  BY <1>5
<1> HIDE DEF p, R, s
<1>8. \A i \in DOMAIN read : i \in 1 .. N /\ s[i] = lines[i]
  BY <1>3, <1>4, <1>6
<1>9. \A i \in 1 .. N : lines[i].pkg # p
  <2> TAKE i \in 1 .. N
  <2>1. CASE i \in DOMAIN read
    BY <1>2, <1>4, <2>1
  <2>2. CASE i \notin DOMAIN read
    <3>1. i \in Len(read) + 1 .. N
      BY <1>3, <2>2
    <3> QED BY <1>1, <1>4, <3>1
  <2> QED BY <2>1, <2>2
<1>10. \A i \in Len(read) + 1 .. Len(s) :
         \E j \in 1 .. k : s[i].pkg = updates[j].pkg /\ Unread(updates[j].pkg)
  <2> TAKE i \in Len(read) + 1 .. Len(s)
  <2>1. CASE i = N + 1
    BY <1>1, <1>2, <1>6, <1>7, <2>1 DEF p
  <2>2. CASE i # N + 1
    <3>1. i \in Len(read) + 1 .. N /\ i \in 1 .. N
      BY <1>3, <1>6, <2>2
    <3> QED BY <1>1, <1>4, <1>6, <3>1
  <2> QED BY <2>1, <2>2
<1>11. \A j \in 1 .. k - 1 : Stands(s, updates[j])
  <2> TAKE j \in 1 .. k - 1
  <2>1. updates[j].pkg # p
    BY <1>1
  <2>2. PICK f, l \in DOMAIN lines :
          /\ lines[f].pkg = updates[j].pkg /\ lines[l].pkg = updates[j].pkg
          /\ \A i \in DOMAIN lines : lines[i].pkg = updates[j].pkg => f <= i /\ i <= l
          /\ lines[f] = [pkg |-> updates[j].pkg, op |-> lines[l].op, ver |-> updates[j].ver]
    BY <1>4 DEF Stands
  <2>3. s[f] = lines[f] /\ s[l] = lines[l] /\ f \in DOMAIN s /\ l \in DOMAIN s
    BY <1>3, <1>6, <2>2
  <2>4. ASSUME NEW i \in DOMAIN s, s[i].pkg = updates[j].pkg PROVE f <= i /\ i <= l
    <3>1. i # N + 1
      BY <1>6, <1>7, <2>1, <2>4
    <3>2. i \in 1 .. N
      BY <1>3, <1>6, <3>1
    <3> QED BY <1>3, <1>6, <2>2, <2>4, <3>2
  <2> QED BY <2>2, <2>3, <2>4 DEF Stands
<1>12. Stands(s, u)
  <2>1. N + 1 \in DOMAIN s /\ s[N + 1].pkg = p
    BY <1>3, <1>6, <1>7
  <2>2. ASSUME NEW i \in DOMAIN s, s[i].pkg = p PROVE N + 1 <= i /\ i <= N + 1
    BY <1>3, <1>6, <1>9, <2>2
  <2>3. s[N + 1] = [pkg |-> p, op |-> s[N + 1].op, ver |-> u.ver]
    BY <1>5, <1>6, <1>7
  <2> QED BY <2>1, <2>2, <2>3 DEF Stands, p
<1>13. /\ Len(read) <= Len(s) /\ \A i \in DOMAIN read : s[i].pkg = read[i].pkg
       /\ \A i \in DOMAIN read : (\A j \in 1 .. k : updates[j].pkg # read[i].pkg) => s[i] = read[i]
  BY <1>1, <1>3, <1>4, <1>6, <1>8
<1>14. \A j \in 1 .. k : Stands(s, updates[j])
  BY <1>1, <1>11, <1>12
<1> QED BY <1>10, <1>13, <1>14 DEF FormInv, s

(* An updated pin, where its package has one line, is that line. *)
LEMMA ReplaceLine ==
  ASSUME Typed, ~Duplicates, NEW k \in 1 .. Len(updates),
         FormInv(lines, k - 1), LineInv(lines, k - 1),
         NEW u, u = updates[k], LastPin(u.pkg) # 0, ~Refused(read[LastPin(u.pkg)].ver, u.ver),
         lines' = [lines EXCEPT ![FirstPin(u.pkg)] =
                     [pkg |-> u.pkg, op |-> read[LastPin(u.pkg)].op, ver |-> u.ver]]
  PROVE  LineInv(lines', k)
<1> DEFINE p == u.pkg
           F == FirstPin(p)
           L == LastPin(p)
           R == [pkg |-> p, op |-> read[L].op, ver |-> u.ver]
           s == lines'
           a == AddedUpTo(k)
<1>1. updates \in Seq(Update) /\ read \in Lines
  BY DEF Typed
<1>2. /\ u \in Update /\ p \in Packages /\ p # ""
      /\ \A j \in 1 .. k - 1 : updates[j].pkg # p
      /\ 1 .. k = (1 .. k - 1) \cup {k}
  <2> HIDE DEF p
  <2>1. /\ updates[k] \in Update /\ updates[k].pkg \in Packages /\ updates[k].pkg # ""
        /\ \A j \in 1 .. Len(updates) : j # k => updates[j].pkg # updates[k].pkg
        /\ 1 .. k = (1 .. k - 1) \cup {k} /\ k \notin 1 .. k - 1
        /\ 1 .. k \subseteq 1 .. Len(updates)
    BY <1>1, OtherPackages
  <2>2. \A j \in 1 .. k - 1 : updates[j].pkg # u.pkg
    BY <2>1
  <2> QED BY <2>1, <2>2 DEF p
<1>3. /\ L \in DOMAIN read /\ F \in DOMAIN read /\ read[L].pkg = p /\ read[F].pkg = p
  BY <1>1, Places
<1>4. a = AddedUpTo(k - 1)
  <2>1. read[F] \in ToSet(read)
    BY <1>3 DEF ToSet
  <2>2. k \notin New(read)
    BY <1>3, <2>1 DEF New
  <2> QED BY <1>1, <2>2, AddedSteps
<1>5. /\ DOMAIN read = 1 .. Len(read) /\ Len(read) \in Nat
      /\ DOMAIN lines = 1 .. Len(lines) /\ Len(lines) \in Nat
      /\ Len(read) <= Len(lines)
  BY DEF Typed, Lines, FormInv
<1>6. a \in Seq(Pin) /\ Len(a) \in Nat
  <2>1. k \in 0 .. Len(updates)
    BY <1>1
  <2>2. a \in Seq(Pin)
    BY <1>1, <2>1, AddedSteps
  <2> HIDE DEF a
  <2> QED BY <2>2
<1>7. /\ Len(lines) = Len(read) + Len(a)
      /\ \A i \in 1 .. Len(a) : lines[Len(read) + i] = a[i]
      /\ onlyReplace => a = <<>>
      /\ PinnedOnce(read) => \A i \in DOMAIN read : \A j \in 1 .. k - 1 :
           updates[j].pkg = read[i].pkg =>
             /\ lines[i] = [read[i] EXCEPT !.ver = updates[j].ver]
             /\ ~Refused(read[i].ver, updates[j].ver)
  BY <1>4 DEF LineInv
<1>8. /\ Len(s) = Len(lines)
      /\ \A i \in 1 .. Len(lines) : s[i] = IF i = F THEN R ELSE lines[i]
      /\ F \in 1 .. Len(read) /\ L \in 1 .. Len(read)
  <2>1. F \in 1 .. Len(read) /\ L \in 1 .. Len(read) /\ F \in 1 .. Len(lines)
    BY <1>3, <1>5
  <2>2. s = [lines EXCEPT ![F] = R]
    OBVIOUS
  <2> HIDE DEF R, F, L, s
  <2> QED BY <1>5, <2>1, <2>2 DEF Typed, Lines
<1>9. PinnedOnce(read) => /\ F = L /\ R = [read[F] EXCEPT !.ver = u.ver]
                          /\ \A i \in DOMAIN read : read[i].pkg = p => i = F
  <2> SUFFICES ASSUME PinnedOnce(read)
               PROVE  /\ F = L /\ R = [read[F] EXCEPT !.ver = u.ver]
                      /\ \A i \in DOMAIN read : read[i].pkg = p => i = F
    OBVIOUS
  <2>1. IsPin(read[F])
    <3>1. Blank.pkg = ""
      BY PinsAreNotBlank
    <3> QED BY <1>2, <1>3, <3>1 DEF IsPin
  <2>2. \A i \in DOMAIN read : read[i].pkg = p => i = F
    BY <1>3, <2>1 DEF PinnedOnce
  <2>3. F = L
    BY <1>3, <2>2
  <2>4. read[F] \in Pin
    BY <1>1, <1>3, <2>1 DEF Lines, IsPin
  <2>5. R = [read[F] EXCEPT !.ver = u.ver]
    <3>1. R = [pkg |-> read[F].pkg, op |-> read[F].op, ver |-> u.ver]
      BY <1>3, <2>3
    <3> DEFINE x == read[F]
    <3>2. x \in Pin
      BY <2>4
    <3> HIDE DEF x, R
    <3>3. [x EXCEPT !.ver = u.ver] = [pkg |-> x.pkg, op |-> x.op, ver |-> u.ver]
      BY <3>2 DEF Pin
    <3> QED BY <3>1, <3>3 DEF x
  <2> QED BY <2>2, <2>3, <2>5
<1>10. ~Refused(read[L].ver, u.ver) /\ u = updates[k]
  OBVIOUS
<1>11. \A i \in 1 .. Len(a) : Len(read) + i \in 1 .. Len(lines) /\ Len(read) + i # F
  BY <1>5, <1>6, <1>7, <1>8
<1>12. u.pkg = p
  OBVIOUS
<1> HIDE DEF p, F, L, R, s, a
<1>13. \A i \in 1 .. Len(a) : s[Len(read) + i] = a[i]
  BY <1>7, <1>8, <1>11
<1>14. ASSUME PinnedOnce(read), NEW i \in DOMAIN read, NEW j \in 1 .. k,
              updates[j].pkg = read[i].pkg
       PROVE  /\ s[i] = [read[i] EXCEPT !.ver = updates[j].ver]
              /\ ~Refused(read[i].ver, updates[j].ver)
  <2>1. i \in 1 .. Len(lines)
    BY <1>5
  <2>2. CASE j = k
    <3>1. i = F
      BY <1>9, <1>10, <1>12, <1>14, <2>2
    <3>2. s[i] = R
      BY <1>8, <2>1, <3>1
    <3> QED BY <1>9, <1>10, <1>14, <2>2, <3>1, <3>2
  <2>3. CASE j # k
    <3>1. j \in 1 .. k - 1
      BY <1>2, <2>3
    <3>2. i # F
      BY <1>2, <1>3, <1>14, <3>1
    <3> QED BY <1>7, <1>8, <1>14, <2>1, <3>1, <3>2
  <2> QED BY <2>2, <2>3
<1> QED BY <1>7, <1>8, <1>13, <1>14 DEF LineInv, a, s

(* An appended pin follows those of the updates before it. *)
LEMMA AppendLine ==
  ASSUME Typed, ~Duplicates, NEW k \in 1 .. Len(updates),
         FormInv(lines, k - 1), LineInv(lines, k - 1),
         NEW u, u = updates[k], LastPin(u.pkg) = 0, ~onlyReplace,
         lines' = Append(lines, NewPin(u))
  PROVE  LineInv(lines', k)
<1> DEFINE p == u.pkg
           R == NewPin(u)
           s == lines'
           N == Len(lines)
           a == AddedUpTo(k)
           b == AddedUpTo(k - 1)
<1>1. updates \in Seq(Update) /\ read \in Lines /\ lines \in Seq(Pin \cup {Blank})
  BY DEF Typed, Lines
<1>2. u \in Update /\ 1 .. k = (1 .. k - 1) \cup {k}
  <2>1. updates[k] \in Update /\ 1 .. k = (1 .. k - 1) \cup {k}
    BY <1>1, OtherPackages
  <2> QED BY <2>1
<1>3. \A i \in DOMAIN read : read[i].pkg # p
  BY <1>1, Places DEF Unread
<1>4. R = AsPin(u) /\ R \in Pin
  BY <1>2 DEF NewPin, AsPin, Update, Pin, Operators
<1>5. b \in Seq(Pin) /\ a = Append(b, R)
  <2>1. k - 1 \in 0 .. Len(updates)
    BY <1>1
  <2>2. k \in New(read)
    <3>1. \A line \in ToSet(read) : line.pkg # p
      BY <1>3 DEF ToSet
    <3>2. k \in DOMAIN updates
      BY <1>1
    <3> QED BY <3>1, <3>2 DEF New
  <2>3. b \in Seq(Pin)
    BY <1>1, <2>1, AddedSteps
  <2>4. a = Append(b, AsPin(updates[k]))
    BY <1>1, <2>2, AddedSteps
  <2> QED BY <1>4, <2>3, <2>4
<1>6. /\ DOMAIN read = 1 .. Len(read) /\ Len(read) \in Nat /\ N \in Nat
      /\ Len(read) <= N
  BY <1>1 DEF Lines, FormInv
<1>7. /\ N = Len(read) + Len(b)
      /\ \A i \in 1 .. Len(b) : lines[Len(read) + i] = b[i]
      /\ PinnedOnce(read) => \A i \in DOMAIN read : \A j \in 1 .. k - 1 :
           updates[j].pkg = read[i].pkg =>
             /\ lines[i] = [read[i] EXCEPT !.ver = updates[j].ver]
             /\ ~Refused(read[i].ver, updates[j].ver)
  BY DEF LineInv
<1>8. s = Append(lines, R) /\ u = updates[k] /\ u.pkg = p /\ ~onlyReplace
  OBVIOUS
<1> HIDE DEF p, R, s, a, b
<1>9. Len(s) = N + 1 /\ s[N + 1] = R /\ \A i \in 1 .. N : s[i] = lines[i]
  BY <1>1, <1>4, <1>8
<1>10. Len(a) = Len(b) + 1 /\ a[Len(b) + 1] = R /\ Len(b) \in Nat /\ \A i \in 1 .. Len(b) : a[i] = b[i]
  BY <1>4, <1>5
<1>11. \A i \in 1 .. Len(a) : s[Len(read) + i] = a[i]
  <2> TAKE i \in 1 .. Len(a)
  <2>1. CASE i = Len(b) + 1
    <3>1. Len(read) + i = N + 1
      BY <1>6, <1>7, <1>10, <2>1
    <3> QED BY <1>9, <1>10, <2>1, <3>1
  <2>2. CASE i # Len(b) + 1
    <3>1. i \in 1 .. Len(b) /\ Len(read) + i \in 1 .. N
      BY <1>6, <1>7, <1>10, <2>2
    <3> QED BY <1>7, <1>9, <1>10, <3>1
  <2> QED BY <2>1, <2>2
<1>12. Len(s) = Len(read) + Len(a)
  BY <1>6, <1>7, <1>9, <1>10
<1>13. ASSUME PinnedOnce(read), NEW i \in DOMAIN read, NEW j \in 1 .. k,
              updates[j].pkg = read[i].pkg
       PROVE  /\ s[i] = [read[i] EXCEPT !.ver = updates[j].ver]
              /\ ~Refused(read[i].ver, updates[j].ver)
  <2>1. j \in 1 .. k - 1
    BY <1>2, <1>3, <1>8, <1>13
  <2>2. i \in 1 .. N
    BY <1>6
  <2> QED BY <1>7, <1>9, <1>13, <2>1, <2>2
<1> QED BY <1>8, <1>11, <1>12, <1>13 DEF LineInv, a, s

(* An update that stands already changes no line. *)
LEMMA NothingToDo ==
  ASSUME Typed, lines = read, NEW u \in Update, Stands(read, u), Apply(u)
  PROVE  lines' = lines
<1> DEFINE p == u.pkg
           L == LastPin(p)
           F == FirstPin(p)
<1>1. read \in Lines /\ DOMAIN read = 1 .. Len(read) /\ Len(read) \in Nat
  BY DEF Typed, Lines
<1>2. PICK f, l \in DOMAIN read :
        /\ read[f].pkg = p /\ read[l].pkg = p
        /\ \A i \in DOMAIN read : read[i].pkg = p => f <= i /\ i <= l
        /\ read[f] = [pkg |-> p, op |-> read[l].op, ver |-> u.ver]
  BY DEF Stands
<1>3. /\ L = 0 <=> Unread(p)
      /\ L # 0 => /\ L \in DOMAIN read /\ read[L].pkg = p
                  /\ F \in DOMAIN read /\ read[F].pkg = p
                  /\ \A i \in DOMAIN read : read[i].pkg = p => F <= i /\ i <= L
  BY <1>1, Places
<1>4. L # 0
  BY <1>2, <1>3 DEF Unread
<1>5. F = f /\ L = l
  <2> HIDE DEF F, L, p
  <2>1. F <= f /\ f <= F /\ l <= L /\ L <= l
    BY <1>2, <1>3, <1>4
  <2>2. F \in Int /\ f \in Int /\ L \in Int /\ l \in Int
    BY <1>1, <1>2, <1>3, <1>4
  <2> QED BY ONLY <2>1, <2>2
<1>6. \/ lines' = lines
      \/ lines' = [lines EXCEPT ![F] = [pkg |-> p, op |-> read[L].op, ver |-> u.ver]]
  BY <1>4 DEF Apply
<1>7. [lines EXCEPT ![F] = [pkg |-> p, op |-> read[L].op, ver |-> u.ver]] = lines
  <2> DEFINE x == [pkg |-> p, op |-> read[L].op, ver |-> u.ver]
  <2>1. F \in 1 .. Len(read) /\ read[F] = x
    BY <1>1, <1>2, <1>5
  <2>2. read \in [1 .. Len(read) -> Pin \cup {Blank}]
    BY <1>1 DEF Lines
  <2> HIDE DEF x, F
  <2>3. [read EXCEPT ![F] = x] = read
    BY <2>1, <2>2
  <2> QED BY <2>3 DEF x
<1> QED BY <1>6, <1>7

(* Losing a blank line at the end makes no difference to an update. *)
LEMMA StandsWritten ==
  ASSUME NEW s \in Lines, NEW u \in Update, Stands(s, u)
  PROVE  Stands(Written(s), u)
<1> DEFINE t == Written(s)
           N == Len(s)
<1>1. s \in Seq(Pin \cup {Blank}) /\ N \in Nat /\ DOMAIN s = 1 .. N
  BY DEF Lines
<1>2. PICK f, l \in DOMAIN s :
        /\ s[f].pkg = u.pkg /\ s[l].pkg = u.pkg
        /\ \A i \in DOMAIN s : s[i].pkg = u.pkg => f <= i /\ i <= l
        /\ s[f] = [pkg |-> u.pkg, op |-> s[l].op, ver |-> u.ver]
  BY DEF Stands
<1>3. s # <<>>
  BY <1>1, <1>2
<1>4. CASE N > 1 /\ s[N] = Blank
  <2>1. t = SubSeq(s, 1, N - 1)
    BY <1>3, <1>4 DEF Written, Last, Front
  <2> HIDE DEF t
  <2>2. DOMAIN t = 1 .. N - 1 /\ \A i \in 1 .. N - 1 : t[i] = s[i]
    BY <1>1, <1>4, <2>1
  <2>3. u.pkg # Blank.pkg
    BY PinsAreNotBlank DEF Update
  <2>4. f # N /\ l # N
    BY <1>2, <1>4, <2>3
  <2>5. f \in DOMAIN t /\ l \in DOMAIN t /\ t[f] = s[f] /\ t[l] = s[l]
    BY <1>1, <1>2, <2>2, <2>4
  <2>6. \A i \in DOMAIN t : t[i].pkg = u.pkg => f <= i /\ i <= l
    BY <1>1, <1>2, <2>2
  <2>7. Stands(t, u)
    BY <1>2, <2>5, <2>6 DEF Stands
  <2> QED BY <2>7 DEF t
<1>5. CASE ~(N > 1 /\ s[N] = Blank)
  <2>1. t = s
    BY <1>3, <1>5 DEF Written, Last
  <2> QED BY <2>1
<1> QED BY <1>4, <1>5

-----------------------------------------------------------------------------
(* A run that succeeds has applied every update.                           *)

(* One update keeps what is true of the lines, if it is not refused. *)
LEMMA OneUpdate ==
  ASSUME Typed, ~Duplicates, NEW k \in 1 .. Len(updates),
         FormInv(lines, k - 1), LineInv(lines, k - 1),
         ~errors, Apply(updates[k]), ~errors'
  PROVE  FormInv(lines', k) /\ LineInv(lines', k)
<1> DEFINE u == updates[k]
           last == LastPin(u.pkg)
<1>1. CASE /\ last # 0 /\ ~Refused(read[last].ver, u.ver)
           /\ lines' = [lines EXCEPT ![FirstPin(u.pkg)] =
                          [pkg |-> u.pkg, op |-> read[last].op, ver |-> u.ver]]
  <2>1. FormInv(lines', k)
    BY <1>1, ReplaceForm
  <2>2. LineInv(lines', k)
    BY <1>1, ReplaceLine
  <2> QED BY <2>1, <2>2
<1>2. CASE last = 0 /\ ~onlyReplace /\ lines' = Append(lines, NewPin(u))
  <2>1. FormInv(lines', k)
    BY <1>2, AppendForm
  <2>2. LineInv(lines', k)
    BY <1>2, AppendLine
  <2> QED BY <2>1, <2>2
<1> QED BY <1>1, <1>2 DEF Apply

(* Before the first update the lines are those of the file. *)
LEMMA NoUpdateYet ==
  updates \in Seq(Update) /\ read \in Lines =>
    FormInv(read, 0) /\ LineInv(read, 0)
<1> SUFFICES ASSUME updates \in Seq(Update), read \in Lines
             PROVE  FormInv(read, 0) /\ LineInv(read, 0)
  OBVIOUS
<1>1. AddedUpTo(0) = <<>>
  BY AddedSteps
<1>2. Len(read) \in Nat /\ DOMAIN read = 1 .. Len(read)
  BY DEF Lines
<1>3. FormInv(read, 0)
  BY <1>2 DEF FormInv
<1>4. Len(AddedUpTo(0)) = 0 /\ 1 .. 0 = {}
  BY <1>1
<1>5. /\ Len(read) = Len(read) + Len(AddedUpTo(0))
      /\ 1 .. Len(AddedUpTo(0)) = {}
  <2>1. Len(read) = Len(read) + 0
    BY <1>2
  <2> QED BY <1>4, <2>1, Zenon
<1>6. LineInv(read, 0)
  BY <1>1, <1>4, <1>5, Zenon DEF LineInv
<1> QED BY <1>3, <1>6

(* The same, of the next state. *)
LEMMA NoUpdateYetNext ==
  (updates \in Seq(Update) /\ read \in Lines)' =>
    (FormInv(read, 0) /\ LineInv(read, 0))'
  BY NoUpdateYet, PTL

(* No package is updated twice: a pin has one new version, or none. *)
LEMMA BumpedOnce ==
  ASSUME updates \in Seq(Update), ~Duplicates, NEW pin \in Pin \cup {Blank}
  PROVE  /\ \A j \in DOMAIN updates : updates[j].pkg = pin.pkg =>
              Bumped(pin) = [pin EXCEPT !.ver = updates[j].ver]
         /\ (\A j \in DOMAIN updates : updates[j].pkg # pin.pkg) => Bumped(pin) = pin
<1> DEFINE U == {u \in ToSet(updates) : u.pkg = pin.pkg}
<1>1. Bumped(pin) = IF U = {} THEN pin ELSE [pin EXCEPT !.ver = (CHOOSE u \in U : TRUE).ver]
  BY DEF Bumped
<1>2. ASSUME NEW j \in DOMAIN updates, updates[j].pkg = pin.pkg
      PROVE  Bumped(pin) = [pin EXCEPT !.ver = updates[j].ver]
  <2>1. updates[j] \in U
    BY <1>2 DEF ToSet
  <2>2. \A u \in U : u = updates[j]
    BY <1>2 DEF ToSet, Duplicates
  <2> HIDE DEF U
  <2>3. (CHOOSE u \in U : TRUE) \in U /\ U # {}
    BY <2>1
  <2>4. (CHOOSE u \in U : TRUE) = updates[j]
    BY <2>2, <2>3
  <2> QED BY <1>1, <2>3, <2>4
<1>3. ASSUME \A j \in DOMAIN updates : updates[j].pkg # pin.pkg PROVE Bumped(pin) = pin
  <2>1. U = {}
    BY <1>3 DEF ToSet
  <2> HIDE DEF U
  <2> QED BY <1>1, <2>1
<1> QED BY <1>2, <1>3

(* A pin that is updated is still a pin, and a blank line a blank one. *)
LEMMA BumpedType ==
  ASSUME updates \in Seq(Update), ~Duplicates, NEW x \in Pin \cup {Blank}
  PROVE  Bumped(x) \in Pin \cup {Blank} /\ (IsPin(Bumped(x)) <=> IsPin(x))
<1>1. /\ Blank \notin Pin /\ Blank.pkg = "" /\ "" \notin Packages
      /\ \A y \in Pin : IsPin(y)
  BY PinsAreNotBlank
<1>2. CASE \E j \in DOMAIN updates : updates[j].pkg = x.pkg
  <2>1. PICK j \in DOMAIN updates : updates[j].pkg = x.pkg
    BY <1>2
  <2>2. updates[j] \in Update
    OBVIOUS
  <2>3. updates[j].pkg \in Packages /\ updates[j].ver \in Versions
    BY <2>2 DEF Update
  <2>4. x \in Pin
    BY <1>1, <2>1, <2>3
  <2>5. Bumped(x) = [x EXCEPT !.ver = updates[j].ver]
    BY <2>1, BumpedOnce
  <2>6. [x EXCEPT !.ver = updates[j].ver] \in Pin
    BY <2>3, <2>4 DEF Pin
  <2> QED BY <1>1, <2>4, <2>5, <2>6
<1>3. CASE ~ \E j \in DOMAIN updates : updates[j].pkg = x.pkg
  BY <1>3, BumpedOnce
<1> QED BY <1>2, <1>3

(* What the file holds once all updates are applied and written. *)
LEMMA AllUpdated ==
  ASSUME Typed, ~Duplicates, NEW N, N = Len(updates),
         FormInv(lines, N), LineInv(lines, N), PinnedOnce(read)
  PROVE  /\ Pins(Written(lines)) =
              [i \in DOMAIN Pins(read) |-> Bumped(Pins(read)[i])] \o Added(read)
         /\ onlyReplace => Added(read) = <<>>
         /\ \A i \in DOMAIN Pins(read) :
              ~Lowered(Pins(read)[i].ver, Pins(Written(lines))[i].ver)
<1> DEFINE X == Pin \cup {Blank}
           g == [x \in X |-> Bumped(x)]
           a == Added(read)
           P == Pins(read)
<1>1. /\ updates \in Seq(Update) /\ read \in Lines /\ lines \in Lines
      /\ DOMAIN updates = 1 .. N
  BY DEF Typed
<1>2. /\ AddedUpTo(N) = a /\ a \in Seq(Pin)
  <2>1. AddedUpTo(N) = a /\ N \in 0 .. Len(updates)
    BY <1>1, AddedSteps
  <2>2. AddedUpTo(N) \in Seq(Pin)
    BY <1>1, <2>1, AddedSteps
  <2> QED BY <2>1, <2>2
<1>3. g \in [X -> X] /\ \A x \in X : g[x] = Bumped(x) /\ (IsPin(g[x]) <=> IsPin(x))
  BY <1>1, BumpedType
<1>4. /\ Len(lines) = Len(read) + Len(a)
      /\ \A i \in 1 .. Len(a) : lines[Len(read) + i] = a[i]
      /\ onlyReplace => a = <<>>
  BY <1>2 DEF LineInv
<1>5. \A i \in DOMAIN read : \A j \in DOMAIN updates :
        updates[j].pkg = read[i].pkg =>
          /\ lines[i] = [read[i] EXCEPT !.ver = updates[j].ver]
          /\ ~Refused(read[i].ver, updates[j].ver)
  BY <1>1 DEF LineInv
<1>6. \A i \in DOMAIN read :
        (\A j \in DOMAIN updates : updates[j].pkg # read[i].pkg) => lines[i] = read[i]
  BY <1>1 DEF FormInv
<1>7. DOMAIN read = 1 .. Len(read) /\ \A i \in DOMAIN read : read[i] \in X
  BY <1>1 DEF Lines
<1>8. \A i \in DOMAIN read : lines[i] = Bumped(read[i])
  <2> TAKE i \in DOMAIN read
  <2>1. CASE \E j \in DOMAIN updates : updates[j].pkg = read[i].pkg
    <3>1. PICK j \in DOMAIN updates : updates[j].pkg = read[i].pkg
      BY <2>1
    <3>2. Bumped(read[i]) = [read[i] EXCEPT !.ver = updates[j].ver]
      BY <1>1, <1>7, <3>1, BumpedOnce
    <3> QED BY <1>5, <3>1, <3>2
  <2>2. CASE ~ \E j \in DOMAIN updates : updates[j].pkg = read[i].pkg
    BY <1>1, <1>6, <1>7, <2>2, BumpedOnce
  <2> QED BY <2>1, <2>2
<1>9. \A i \in 1 .. Len(read) : lines[i] = g[read[i]]
  BY <1>3, <1>7, <1>8
<1>10. Pins(lines) = [i \in DOMAIN P |-> g[P[i]]] \o a
  <2> HIDE DEF g, a, X
  <2>1. g \in [Pin \cup {Blank} -> Pin \cup {Blank}] /\ \A x \in Pin \cup {Blank} : IsPin(g[x]) <=> IsPin(x)
    BY <1>3 DEF X
  <2> QED BY <1>1, <1>2, <1>4, <1>9, <2>1, PinsMapped
<1>11. \A i \in DOMAIN P : \E k \in DOMAIN read : P[i] = read[k]
  BY <1>1, PinsAreLines
<1>12. \A i \in DOMAIN P : P[i] \in X
  BY <1>7, <1>11
<1> HIDE DEF a, P, X
<1>13. [i \in DOMAIN P |-> g[P[i]]] = [i \in DOMAIN P |-> Bumped(P[i])]
  BY <1>3, <1>12
<1>14. Pins(Written(lines)) = Pins(lines)
  BY <1>1, PinsWritten
<1> HIDE DEF g
<1>15. Versions \subseteq Nat
  BY BumpAssumption, Zenon
<1>16. ASSUME NEW i \in DOMAIN P PROVE ~Lowered(P[i].ver, Pins(lines)[i].ver)
  <2>1. PICK k \in DOMAIN read : P[i] = read[k]
    BY <1>11
  <2>2. Pins(lines)[i] = Bumped(P[i])
    <3> DEFINE q == [m \in DOMAIN P |-> g[P[m]]]
    <3>1. P \in Seq(X)
      BY <1>1, PinsAreLines DEF P, X
    <3>2. DOMAIN q = 1 .. Len(P) /\ DOMAIN P = 1 .. Len(P) /\ Len(P) \in Nat
      BY <3>1
    <3>3. \A m \in 1 .. Len(P) : P[m] \in X /\ g[P[m]] \in X
      BY <1>3, <3>1
    <3>4. q \in Seq(X) /\ Len(q) = Len(P)
      BY <3>2, <3>3
    <3>5. a \in Seq(X) /\ q[i] = Bumped(P[i]) /\ i \in 1 .. Len(q)
      <4>1. a \in Seq(X)
        BY <1>2 DEF X
      <4>2. q[i] = g[P[i]]
        OBVIOUS
      <4> QED BY <1>3, <1>12, <3>2, <3>4, <4>1, <4>2
    <3>6. Pins(lines) = q \o a
      BY <1>10
    <3> HIDE DEF q
    <3> QED BY <3>4, <3>5, <3>6, ConcatProperties
  <2>3. CASE \E j \in DOMAIN updates : updates[j].pkg = read[k].pkg
    <3>1. PICK j \in DOMAIN updates : updates[j].pkg = read[k].pkg
      BY <2>3
    <3>2. /\ Bumped(read[k]) = [read[k] EXCEPT !.ver = updates[j].ver]
          /\ ~Refused(read[k].ver, updates[j].ver)
      BY <1>1, <1>5, <1>7, <3>1, BumpedOnce DEF X
    <3>3. read[k] \in Pin
      <4>1. updates[j] \in Update
        BY <1>1
      <4>2. updates[j].pkg \in Packages
        BY <4>1 DEF Update
      <4> QED BY <1>7, <3>1, <4>2, PinsAreNotBlank DEF X
    <3>4. Bumped(read[k]).ver = updates[j].ver
      BY <3>2, <3>3 DEF Pin
    <3>5. read[k].ver \in Nat /\ updates[j].ver \in Nat
      <4>1. updates[j] \in Update
        BY <1>1
      <4>2. updates[j].ver \in Versions /\ read[k].ver \in Versions
        BY <3>3, <4>1 DEF Pin, Update
      <4> QED BY <1>15, <4>2
    <3> QED BY <2>1, <2>2, <3>2, <3>4, <3>5 DEF Lowered, Refused
  <2>4. CASE ~ \E j \in DOMAIN updates : updates[j].pkg = read[k].pkg
    <3>1. Bumped(read[k]) = read[k]
      BY <1>1, <1>7, <2>4, BumpedOnce DEF X
    <3>2. read[k].ver \in Nat
      <4>1. read[k] \in Pin => read[k].ver \in Versions
        BY DEF Pin
      <4>2. Blank.ver = 0
        BY DEF Blank
      <4>3. read[k] \in Pin \/ read[k] = Blank
        BY <1>7 DEF X
      <4>4. 0 \in Nat
        OBVIOUS
      <4> QED BY <1>15, <4>1, <4>2, <4>3, <4>4, Zenon
    <3> QED BY <2>1, <2>2, <3>1, <3>2 DEF Lowered
  <2> QED BY <2>3, <2>4
<1> QED BY <1>4, <1>10, <1>13, <1>14, <1>16 DEF P, a

(* The step that makes a run succeed writes what all updates made. *)
LEMMA AppliedByWrite ==
  ASSUME Typed, ~Duplicates, read = before,
         FormInv(lines, Len(updates)), LineInv(lines, Len(updates)), Write
  PROVE  Applied'
<1>1. /\ file' = Written(lines) /\ before' = before
      /\ updates' = updates /\ onlyReplace' = onlyReplace
  BY DEF Write, input, past
<1>2. /\ Added(before)' = Added(before)
      /\ \A x : Bumped(x)' = Bumped(x)
  BY <1>1 DEF Added, New, Bumped
<1>3. ASSUME PinnedOnce(before)
      PROVE  /\ Pins(file') =
                  [i \in DOMAIN Pins(before) |-> Bumped(Pins(before)[i])] \o Added(before)
             /\ onlyReplace => Added(before) = <<>>
             /\ \A i \in DOMAIN Pins(before) :
                  ~Lowered(Pins(before)[i].ver, Pins(file')[i].ver)
  <2> HIDE DEF Write
  <2> DEFINE N == Len(updates)
  <2>1. FormInv(lines, N) /\ LineInv(lines, N) /\ N = Len(updates) /\ PinnedOnce(read)
    BY <1>3
  <2> HIDE DEF N
  <2> QED BY <1>1, <2>1, AllUpdated
<1> QED BY <1>1, <1>2, <1>3 DEF Applied

(* The updates that are done with at this point of a run. *)
LEMMA NextForm ==
  ASSUME UNCHANGED <<updates, onlyReplace, read>>, NEW k,
         FormInv(lines', k), LineInv(lines', k)
  PROVE  /\ n' - 1 = k => FormInv(lines, n - 1)' /\ LineInv(lines, n - 1)'
         /\ Len(updates) = k =>
              FormInv(lines, Len(updates))' /\ LineInv(lines, Len(updates))'
<1>1. \A p : Unread(p)' <=> Unread(p)
  BY DEF Unread
<1>2. New(read)' = New(read) /\ updates' = updates
  BY DEF New
<1>3. AddedUpTo(n - 1)' = AddedUpTo(n' - 1)
  BY <1>2 DEF AddedUpTo
<1>4. AddedUpTo(Len(updates))' = AddedUpTo(Len(updates))
  BY <1>2 DEF AddedUpTo
<1>5. ASSUME n' - 1 = k PROVE FormInv(lines, n - 1)' /\ LineInv(lines, n - 1)'
  <2>1. FormInv(lines, n - 1)'
    BY <1>1, <1>5, Zenon DEF FormInv
  <2>2. AddedUpTo(n - 1)' = AddedUpTo(k)
    BY <1>3, <1>5
  <2>3. LineInv(lines, n - 1)'
    BY <1>5, <2>2, Zenon DEF LineInv
  <2> QED BY <2>1, <2>3
<1>6. ASSUME Len(updates) = k
      PROVE  FormInv(lines, Len(updates))' /\ LineInv(lines, Len(updates))'
  <2>1. /\ updates' = updates /\ read' = read /\ onlyReplace' = onlyReplace
        /\ Len(updates') = k
    BY <1>6
  <2>2. FormInv(lines, Len(updates))'
    BY <1>1, <2>1, SMT DEF FormInv
  <2>3. AddedUpTo(Len(updates))' = AddedUpTo(k)
    BY <1>4, <1>6
  <2>4. LineInv(lines, Len(updates))'
    BY <2>1, <2>3, SMT DEF LineInv
  <2> QED BY <2>2, <2>4
<1> QED BY <1>5, <1>6

(* The memory of a run is right at every step of it. *)
LEMMA NextWorkInv ==
  ASSUME Typed, IInv, WorkInv, [Next]_vars
  PROVE  WorkInv'
<1> USE DEF Return, input, disk, memory, past
<1>1. UNCHANGED <<updates, onlyReplace>>
  BY DEF Next, vars, Start, OpenBackup, WriteBackup, BackupFails, Parse,
     ParseFails, ApplyNext, AllApplied, OpenForWrite, OpenForRestore, OpenFile,
     Write, WriteFails, Restore, RestoreFails, Crash
<1>2. Duplicates' <=> Duplicates
  BY <1>1 DEF Duplicates
<1> USE DEF WorkInv
<1>3. CASE Start
  BY <1>2, <1>3 DEF Start
<1>4. CASE OpenBackup \/ WriteBackup \/ BackupFails
  BY <1>2, <1>4 DEF OpenBackup, WriteBackup, BackupFails
<1>5. CASE Parse
  <2>1. /\ pc' = "update" /\ read' = file /\ lines' = file /\ before' = before
        /\ n' = 1 /\ file = before /\ ~Duplicates
    BY <1>5 DEF Parse, IInv, FileOld
  <2>2. file \in Lines /\ updates \in Seq(Update)
    BY DEF Typed
  <2>3. read' \in Lines /\ updates' \in Seq(Update)
    BY <1>1, <2>1, <2>2
  <2>4. FormInv(read, 0)' /\ LineInv(read, 0)'
    BY <2>3, NoUpdateYetNext
  <2>5. lines' = read' /\ n' - 1 = 0
    BY <2>1
  <2>6. FormInv(lines, n - 1)'
    BY <2>4, <2>5, Zenon DEF FormInv
  <2>7. AddedUpTo(n - 1)' = AddedUpTo(0)'
    BY <2>5 DEF AddedUpTo
  <2>8. LineInv(lines, n - 1)'
    BY <2>4, <2>5, <2>7, Zenon DEF LineInv
  <2> QED BY <1>2, <2>1, <2>6, <2>8
<1>6. CASE ParseFails
  BY <1>2, <1>6 DEF ParseFails
<1>7. CASE ApplyNext
  <2>1. /\ pc = "update" /\ pc' = "update" /\ n' = n + 1 /\ n \in 1 .. Len(updates)
        /\ read' = read /\ before' = before /\ read = before /\ ~Duplicates
        /\ Apply(updates[n])
    BY <1>7 DEF ApplyNext, Typed
  <2>2. ASSUME ~errors' PROVE FormInv(lines, n - 1)' /\ LineInv(lines, n - 1)'
    <3>1. ~errors
      BY <2>1, <2>2 DEF Apply
    <3>2. FormInv(lines', n) /\ LineInv(lines', n)
      BY <2>1, <2>2, <3>1, OneUpdate
    <3>3. n' - 1 = n
      BY <2>1
    <3> QED BY <1>1, <2>1, <3>2, <3>3, NextForm
  <2> QED BY <1>2, <2>1, <2>2
<1>8. CASE AllApplied
  <2>1. /\ pc = "update" /\ pc' = (IF errors THEN "restore" ELSE "write")
        /\ n' = n /\ read' = read /\ lines' = lines /\ before' = before
        /\ errors' = errors /\ read = before /\ ~Duplicates
    BY <1>8 DEF AllApplied, Rejected
  <2>2. ASSUME ~errors
        PROVE  FormInv(lines, Len(updates))' /\ LineInv(lines, Len(updates))'
    <3>1. n - 1 = Len(updates)
      <4>1. Len(updates) \in Nat
        BY NaturalBounds DEF Typed
      <4>2. n \in 1 .. Len(updates) + 1 /\ n > Len(updates)
        BY <1>8 DEF AllApplied, Typed
      <4> QED BY ONLY <4>1, <4>2
    <3>2. FormInv(lines', Len(updates)) /\ LineInv(lines', Len(updates))
      BY <2>1, <2>2, <3>1
    <3> QED BY <1>1, <2>1, <3>2, NextForm
  <2> QED BY <1>2, <2>1, <2>2
<1>9. CASE OpenForWrite
  <2>1. /\ pc = "write" /\ pc' = "writing" /\ read' = read /\ lines' = lines
        /\ errors' = errors /\ before' = before
    BY <1>9 DEF OpenForWrite, OpenFile
  <2>2. FormInv(lines', Len(updates)) /\ LineInv(lines', Len(updates))
    BY <2>1
  <2>3. FormInv(lines, Len(updates))' /\ LineInv(lines, Len(updates))'
    BY <1>1, <2>1, <2>2, NextForm
  <2> QED BY <1>2, <2>1, <2>3
<1>10. CASE Write \/ WriteFails
  BY <1>2, <1>10 DEF Write, WriteFails
<1>11. CASE OpenForRestore \/ Restore \/ RestoreFails
  BY <1>2, <1>11 DEF OpenForRestore, OpenFile, Restore, RestoreFails
<1>12. CASE Crash
  BY <1>2, <1>12 DEF Crash
<1>13. CASE UNCHANGED vars
  <2>1. /\ pc' = pc /\ n' = n /\ read' = read /\ lines' = lines
        /\ errors' = errors /\ before' = before
    BY <1>13 DEF vars
  <2>2. FormInv(lines, n - 1) /\ LineInv(lines, n - 1) =>
          FormInv(lines, n - 1)' /\ LineInv(lines, n - 1)'
    BY <1>1, <2>1, NextForm
  <2>3. FormInv(lines, Len(updates)) /\ LineInv(lines, Len(updates)) =>
          FormInv(lines, Len(updates))' /\ LineInv(lines, Len(updates))'
    BY <1>1, <2>1, NextForm
  <2> QED BY <1>2, <2>1, <2>2, <2>3
<1> QED
  BY <1>3, <1>4, <1>5, <1>6, <1>7, <1>8, <1>9, <1>10, <1>11, <1>12, <1>13
     DEF Next

(* What is settled stays so: each update still stands in the file when a   *)
(* run ends, and has left the pins of the earlier success alone.           *)
LEMMA NextSettledInv ==
  ASSUME Typed, IInv, WorkInv, SettledInv, RerunChangesNothing, [Next]_vars
  PROVE  SettledInv' /\ RerunChangesNothing'
<1> USE DEF Return, input, disk, memory, past
<1>1. updates' = updates
  BY DEF Next, vars, Start, OpenBackup, WriteBackup, BackupFails, Parse,
     ParseFails, ApplyNext, AllApplied, OpenForWrite, OpenForRestore, OpenFile,
     Write, WriteFails, Restore, RestoreFails, Crash
<1>2. /\ file' = file => Standing(file)' = Standing(file)
      /\ file' = before => Standing(file)' = Standing(before)
      /\ before' = before => Standing(before)' = Standing(before)
      /\ before' = file => Standing(before)' = Standing(file)
  BY <1>1 DEF Standing
<1> USE DEF SettledInv, RerunChangesNothing, Working
<1>3. CASE Start
  BY <1>2, <1>3 DEF Start
<1>4. CASE OpenBackup \/ WriteBackup
  BY <1>2, <1>4 DEF OpenBackup, WriteBackup, IInv
<1>5. CASE BackupFails
  BY <1>2, <1>5 DEF BackupFails, IInv, FileOld
<1>6. CASE Parse \/ ParseFails \/ AllApplied
  BY <1>2, <1>6 DEF Parse, ParseFails, AllApplied, IInv, FileOld
<1>7. CASE ApplyNext
  <2>1. /\ pc = "update" /\ pc' = pc /\ outcome' = outcome /\ torn' = torn
        /\ before' = before /\ settled' = settled /\ Apply(updates[n])
        /\ read = before /\ updates[n] \in Update /\ n \in DOMAIN updates
        /\ outcome = "none"
    BY <1>7 DEF ApplyNext, Typed, WorkInv, IInv
  <2>2. ASSUME settled PROVE lines' = lines
    <3>1. lines = read /\ Stands(read, updates[n])
      BY <2>1, <2>2 DEF Standing
    <3> QED BY <2>1, <3>1, NothingToDo
  <2> QED BY <1>2, <2>1, <2>2
<1>8. CASE OpenForWrite \/ WriteFails
  BY <1>2, <1>8 DEF OpenForWrite, OpenFile, WriteFails, IInv
<1>9. CASE Write
  <2>1. /\ pc = "writing" /\ file' = Written(lines) /\ pc' = "idle"
        /\ before' = before /\ settled' = settled /\ torn' = torn /\ ~torn
        /\ lines \in Lines /\ updates \in Seq(Update) /\ before \in Lines
    BY <1>9 DEF Write, IInv, Typed
  <2>2. \A j \in DOMAIN updates : Stands(lines, updates[j]) /\ updates[j] \in Update
    BY <2>1 DEF WorkInv, FormInv
  <2>3. Standing(file)'
    BY <1>1, <2>1, <2>2, StandsWritten DEF Standing
  <2>4. ASSUME settled PROVE Pins(file') = Pins(before')
    BY <2>1, <2>4, PinsWritten
  <2> QED BY <2>1, <2>3, <2>4
<1>10. CASE OpenForRestore
  BY <1>2, <1>10 DEF OpenForRestore, OpenFile, IInv
<1>11. CASE Restore
  BY <1>2, <1>11 DEF Restore, Restored, IInv, BakOld
<1>12. CASE RestoreFails \/ Crash
  BY <1>12 DEF RestoreFails, Crash
<1>13. CASE UNCHANGED vars
  BY <1>2, <1>13 DEF vars
<1> QED
  BY <1>3, <1>4, <1>5, <1>6, <1>7, <1>8, <1>9, <1>10, <1>11, <1>12, <1>13
     DEF Next

(* Only a whole write makes a run succeed. *)
LEMMA NextApplied ==
  ASSUME Typed, IInv, WorkInv, Applied, [Next]_vars
  PROVE  Applied'
<1>1. CASE Write
  BY <1>1, AppliedByWrite DEF Write, WorkInv
<1>2. CASE UNCHANGED vars
  <2>1. Added(before)' = Added(before) /\ \A x : Bumped(x)' = Bumped(x)
    BY <1>2 DEF vars, input, past, Added, New, Bumped
  <2> QED BY <1>2, <2>1 DEF Applied, vars, input, disk, past
<1>3. ASSUME Next, ~Write PROVE outcome' # "ok"
  BY <1>3 DEF Next, Start, OpenBackup, WriteBackup, BackupFails, Parse,
     ParseFails, ApplyNext, AllApplied, OpenForWrite, OpenForRestore, OpenFile,
     WriteFails, Restore, RestoreFails, Crash, Return, IInv
<1> QED BY <1>1, <1>2, <1>3 DEF Applied

(* A run that succeeds, whatever failures and crashes came before, has     *)
(* given every pin that was to be updated its new version, lowered none,   *)
(* added the new packages in order and changed nothing else; running the   *)
(* same updates again changes no pin.                                      *)
THEOREM UpdatesHeld == Spec => []UpdatesHold
<1> DEFINE Inv == Typed /\ IInv /\ WorkInv /\ SettledInv /\ UpdatesHold
<1>1. Init => Inv
  <2> SUFFICES ASSUME Init PROVE Inv
    OBVIOUS
  <2>1. WorkInv /\ SettledInv /\ UpdatesHold
    BY DEF Init, WorkInv, SettledInv, UpdatesHold, Applied,
           RerunChangesNothing, Working
  <2> QED BY <2>1, InitTyped, InitIInv
<1>2. Inv /\ [Next]_vars => Inv'
  <2> SUFFICES ASSUME Inv, [Next]_vars PROVE Inv'
    OBVIOUS
  <2>1. Typed' /\ IInv'
    BY NextTyped, NextIInv
  <2>2. WorkInv'
    BY NextWorkInv
  <2>3. SettledInv' /\ RerunChangesNothing'
    BY NextSettledInv DEF UpdatesHold
  <2>4. Applied'
    BY NextApplied DEF UpdatesHold
  <2> QED BY <2>1, <2>2, <2>3, <2>4 DEF UpdatesHold
<1>3. Inv => UpdatesHold
  OBVIOUS
<1> HIDE DEF Inv
<1> QED BY <1>1, <1>2, <1>3, PTL DEF Spec
=============================================================================
