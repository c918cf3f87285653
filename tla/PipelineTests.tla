--------------------------- MODULE PipelineTests ----------------------------
(***************************************************************************)
(* The test runner reads suites of test cases, writes a melange config for *)
(* each case, lets melange test the case's package by it, and compares     *)
(* what melange says with what the case expects.  melange builds an        *)
(* environment of packages and runs the case's pipelines in it, most of    *)
(* which are checks of package-type-check; two of those change the         *)
(* environment.  Every command that is run may fail.                       *)
(***************************************************************************)
EXTENDS Integers, FiniteSets, SequencesExt, Functions

CONSTANTS
  DB,           \* function: the packages of the repository by name
  Beside,       \* pairs of a name and a package whose name begins with it and "-"
  Sanitize,     \* function: the directory name of each suite name
  Base, Extra,  \* wolfi-base and --append-packages
  Suites,       \* what the test directory may hold
  MaxFaults     \* bound: commands that fail, and files that cannot be written

(* The files of a package by what the checks make of them: of "man",       *)
(* "info" and "doc" the page can be shown; "spdx" is a file of that suffix *)
(* anywhere, "header" one below a path that begins with the prefix.        *)
FileKinds == {"man", "info", "doc", "badman", "mandb", "sbom", "spdx",
              "static", "header", "debug", "tool", "other"}
Package == [files : SUBSET FileKinds, suffix : {"dev", "dbg", "none"},
            desc : {"meta", "plain", "short"}, deps : BOOLEAN,
            provides : SUBSET STRING]

(* What a test directory holds.  contains-files is given files to look for; *)
(* its other mode, a find, is not modelled.                                *)
Types == {"debug", "dev", "docs", "empty", "meta", "static"}
CheckStep ==
  {st \in [check : Types \cup {"contains", "byproduct", "virtual"},
           names : Seq(STRING), files : SUBSET FileKinds] :
     st.check = "contains" => st.files # {}}
TestCase == [package : STRING, steps : Seq(CheckStep), expect : BOOLEAN,
             deps : SUBSET STRING, valid : BOOLEAN]
SuiteFile == [name : STRING, parses : BOOLEAN, cases : Seq(TestCase)]

ASSUME PipelineAssumption ==
  /\ IsFiniteSet(DOMAIN DB) /\ \A n \in DOMAIN DB : DB[n] \in Package
  /\ Base \in DOMAIN DB /\ Extra \subseteq DOMAIN DB
  /\ Suites \subseteq Seq(SuiteFile)
  /\ MaxFaults \in Nat

VARIABLES
  dir,          \* the files of the test directory
  only,         \* --test-suite: the file named, 0 if none is, -1 if it is not there
  generateOnly,
  pc,           \* "start", "load", "case", "melange", "step", "virtual", "ended"
  suites, s, i, \* suites to run, the current one and its next case
  out,          \* the configs in the output directory: <<case>>, or <<>> if torn
  env,          \* melange's environment: the packages that are installed
  step, count, vp,  \* its next step; of a virtual check the first count, the next name
  blurred,      \* a command failed, and the check went on
  passed, failed, failures, exit,
  faults,
  log           \* what became of each case (history)

input == <<dir, only, generateOnly>>
melange == <<env, step, count, vp, blurred>>
totals == <<passed, failed, failures, log>>
vars == <<input, pc, suites, s, i, out, melange, totals, exit, faults>>

Return(code) == pc' = "ended" /\ exit' = code
Fault == faults < MaxFaults /\ faults' = faults + 1

(* The elements of q that stand at the places I, in their order. *)
At(q, I) ==
  LET f[k \in 0 .. Len(q)] ==
        IF k = 0 THEN <<>>
        ELSE IF k \in I THEN Append(f[k - 1], q[k]) ELSE f[k - 1]
  IN f[Len(q)]

(* Positive cases come first. *)
Ordered(suite) ==
  LET positive == {k \in DOMAIN suite.cases : suite.cases[k].expect}
  IN At(suite.cases, positive) \o At(suite.cases, DOMAIN suite.cases \ positive)
Case == Ordered(suites[s])[i]

(* "pass-" or "fail-" and the name; the length of the prefix is fixed. *)
Dir(name, expect) == <<IF expect THEN "pass" ELSE "fail", Sanitize[name]>>
Path(name, c) == <<Dir(name, c.expect), c.package>>
Slot == Path(suites[s].name, Case)

Init ==
  /\ dir \in Suites
  /\ only \in -1 .. Len(dir) /\ generateOnly \in BOOLEAN
  /\ pc = "start" /\ suites = <<>> /\ s = 1 /\ i = 1
  /\ out = <<>>
  /\ env = {} /\ step = 1 /\ count = 0 /\ vp = 1 /\ blurred = FALSE
  /\ passed = 0 /\ failed = 0 /\ failures = <<>> /\ exit = -1
  /\ faults = 0 /\ log = <<>>
-----------------------------------------------------------------------------
(* The runner.                                                             *)

(* A file that cannot be parsed, or holds no cases, is passed over. *)
HoldsCases(f) == f.parses /\ f.cases # <<>>

Discover ==
  /\ pc = "start"
  /\ suites' = CASE only = 0 -> At(dir, {k \in DOMAIN dir : HoldsCases(dir[k])})
                 [] only > 0 -> <<dir[only]>>
                 [] OTHER -> <<>>
  /\ IF suites' = <<>> THEN Return(1) ELSE pc' = "load" /\ UNCHANGED exit
  /\ UNCHANGED <<input, s, i, out, melange, totals, faults>>

Loads(f) == HoldsCases(f) /\ f.name # "" /\ \A c \in ToSet(f.cases) : c.valid

LoadTestSuite ==
  /\ pc = "load" /\ s <= Len(suites)
  /\ IF Loads(suites[s]) THEN pc' = "case" /\ UNCHANGED exit ELSE Return(1)
  /\ i' = 1
  /\ UNCHANGED <<input, suites, s, out, melange, totals, faults>>

Written(config) ==
  [p \in DOMAIN out \cup {Slot} |-> IF p = Slot THEN config ELSE out[p]]

(* The directory or the file cannot be made or opened; or the file is, and *)
(* what it held is gone, when the write fails.                             *)
WriteFails ==
  /\ pc = "case" /\ i <= Len(Ordered(suites[s]))
  /\ Fault /\ Return(1)
  /\ out' \in {out, Written(<<>>)}
  /\ UNCHANGED <<input, suites, s, i, melange, totals>>

Entry(result, faulty) ==
  [suite |-> suites[s].name, case |-> Case, result |-> result,
   faulty |-> faulty, env |-> env]

Generate ==
  /\ pc = "case" /\ i <= Len(Ordered(suites[s]))
  /\ out' = Written(<<Case>>)
  /\ IF generateOnly
     THEN /\ passed' = passed + 1 /\ i' = i + 1
          /\ log' = Append(log, Entry("generated", FALSE))
          /\ UNCHANGED pc
     ELSE pc' = "melange" /\ UNCHANGED <<i, passed, log>>
  /\ UNCHANGED <<input, suites, s, melange, failed, failures, exit, faults>>

NextSuite ==
  /\ pc = "case" /\ i > Len(Ordered(suites[s]))
  /\ s' = s + 1 /\ pc' = "load"
  /\ UNCHANGED <<input, suites, i, out, melange, totals, exit, faults>>

Results ==
  /\ pc = "load" /\ s > Len(suites)
  /\ Return(IF ~generateOnly /\ failed > 0 THEN 1 ELSE 0)
  /\ UNCHANGED <<input, suites, s, i, out, melange, totals, faults>>

TestPassed_Negative(accepted) == ~Case.expect \/ accepted  \* fault: fails may pass
TestPassed(accepted) == accepted = Case.expect

Failures_All(passes) == TRUE           \* fault: a failure is kept for each case
Failures(passes) == ~passes

(* runMelangeTest returns. *)
Judge(accepted, faulty) ==
  /\ pc' = "case" /\ i' = i + 1
  /\ IF TestPassed(accepted)
     THEN passed' = passed + 1 /\ UNCHANGED failed
     ELSE failed' = failed + 1 /\ UNCHANGED passed
  /\ failures' = IF Failures(TestPassed(accepted))
                 THEN Append(failures, Slot) ELSE failures
  /\ log' = Append(log, Entry(IF accepted THEN "accepted" ELSE "rejected", faulty))
  /\ UNCHANGED <<input, suites, s, out, exit>>
-----------------------------------------------------------------------------
(* melange and apk.                                                        *)

Satisfied(e, n) == n \in e \/ \E m \in e : n \in DB[m].provides

(* A name is that of a package, or else it is one a package provides. *)
Candidates(n) ==
  IF n \in DOMAIN DB THEN {n} ELSE {m \in DOMAIN DB : n \in DB[m].provides}

(* What may be installed after apk add: nothing new if the name is         *)
(* satisfied, but apk may also prefer the package of that name.            *)
Added(e, n) ==
  {e \cup {m} : m \in IF Satisfied(e, n) /\ n \notin DOMAIN DB THEN {} ELSE Candidates(n)}
    \cup IF Satisfied(e, n) THEN {e} ELSE {}

Asked(c) == {c.package, Base} \cup Extra \cup c.deps
Environments(c) ==
  {Range(f) : f \in {g \in [Asked(c) -> DOMAIN DB] :
                       \A n \in Asked(c) : g[n] \in Candidates(n)}}

(* melange reads the config that was written. *)
Config == out[Slot][1]

BuildEnvironment ==
  /\ pc = "melange"
  /\ env' \in Environments(Config)
  /\ step' = 1 /\ blurred' = FALSE /\ pc' = "step"
  /\ UNCHANGED <<input, suites, s, i, out, count, vp, totals, exit, faults>>

MelangeFails ==
  /\ pc = "melange"
  /\ \/ Environments(Config) = {} /\ Judge(FALSE, FALSE) /\ UNCHANGED faults
     \/ Fault /\ Judge(FALSE, TRUE)
  /\ UNCHANGED melange

StepsDone ==
  /\ pc = "step" /\ step > Len(Config.steps)
  /\ Judge(TRUE, blurred)
  /\ UNCHANGED <<melange, faults>>
-----------------------------------------------------------------------------
(* package-type-check and contains-files.                                  *)

NonSBOM(p) == DB[p].files \ {"sbom", "spdx"}

DebugPackage(p) == DB[p].suffix = "dbg" /\ "debug" \in DB[p].files
DevPackage(p) == DB[p].suffix = "dev" /\ "header" \in DB[p].files
DocsPackage(p) == DB[p].files \cap {"man", "info", "doc"} # {}
EmptyPackage(p) == NonSBOM(p) = {}
MetaPackage(p) == EmptyPackage(p) /\ DB[p].desc = "meta" /\ DB[p].deps
StaticPackage(p) == NonSBOM(p) = {"static"}

HasType(check, p) ==
  CASE check = "debug" -> DebugPackage(p)
    [] check = "dev" -> DevPackage(p)
    [] check = "docs" -> DocsPackage(p)
    [] check = "empty" -> EmptyPackage(p)
    [] check = "meta" -> MetaPackage(p)
    [] check = "static" -> StaticPackage(p)

(* The files are looked for in the environment, whoever installed them. *)
ContainsFiles(files) == files \subseteq UNION {DB[n].files : n \in env}

Current == Config.steps[step]
AtStep(checks) ==
  pc = "step" /\ step <= Len(Config.steps) /\ Current.check \in checks

Proceed(ok) ==
  IF ok THEN /\ step' = step + 1 /\ pc' = "step"
             /\ UNCHANGED <<input, suites, s, i, out, totals, exit>>
  ELSE Judge(FALSE, blurred') /\ UNCHANGED step

CheckType ==
  /\ AtStep(Types)
  /\ UNCHANGED <<env, count, vp, blurred, faults>>
  /\ Proceed(Config.package \in env /\ HasType(Current.check, Config.package))

CheckContains ==
  /\ AtStep({"contains"})
  /\ UNCHANGED <<env, count, vp, blurred, faults>>
  /\ Proceed(ContainsFiles(Current.files))

(* Any command that fails fails its check, but for the two below. *)
CommandFails ==
  /\ AtStep(Types \cup {"contains", "byproduct", "virtual"}) \/ pc = "virtual"
  /\ Fault
  /\ Judge(FALSE, TRUE)
  /\ UNCHANGED melange

(* apk list prints who has the name or provides it; a line counts if it    *)
(* begins with the name and "-".                                           *)
Listed(e, n) ==
  \E m \in e : m = n \/ (n \in DB[m].provides /\ <<n, m>> \in Beside)

(* That apk add fails is reported, and accepted. *)
CheckByProduct ==
  /\ AtStep({"byproduct"})
  /\ \/ /\ env' \in Added(env, Config.package)
        /\ UNCHANGED <<blurred, faults>>
        /\ Proceed(~Listed(env', Config.package))
     \/ Fault /\ blurred' = TRUE /\ UNCHANGED env /\ Proceed(TRUE)
  /\ UNCHANGED <<count, vp>>

(* A line for each file a package has installed; 0 if apk fails. *)
TotalApkCount(e) ==
  Cardinality({line \in e \X FileKinds : line[2] \in DB[line[1]].files})

Counted(e, n) ==
  \/ n = TotalApkCount(e) /\ UNCHANGED <<blurred, faults>>
  \/ n = 0 /\ Fault /\ blurred' = TRUE

Provides(names) ==
  Config.package \in env /\ names # <<>> /\ ToSet(names) \subseteq DB[Config.package].provides

CheckVirtual ==
  /\ AtStep({"virtual"})
  /\ IF Provides(Current.names)
     THEN /\ \E n \in {0, TotalApkCount(env)} : Counted(env, n) /\ count' = n
          /\ vp' = 1 /\ pc' = "virtual"
          /\ UNCHANGED <<input, suites, s, i, out, env, step, totals, exit>>
     ELSE /\ UNCHANGED <<env, count, vp, blurred, faults>>
          /\ Proceed(FALSE)

TestVirtual ==
  /\ pc = "virtual" /\ vp <= Len(Current.names)
  /\ env' \in Added(env, Current.names[vp])
  /\ \E n \in {0, TotalApkCount(env')} :
       /\ Counted(env', n)
       /\ IF n > count THEN Judge(FALSE, blurred') /\ UNCHANGED vp
          ELSE vp' = vp + 1 /\ UNCHANGED <<input, pc, suites, s, i, out, totals, exit>>
  /\ UNCHANGED <<step, count>>

VirtualDone ==
  /\ pc = "virtual" /\ vp > Len(Current.names)
  /\ UNCHANGED <<env, count, vp, blurred, faults>>
  /\ Proceed(TRUE)

Run ==
  \/ Discover \/ LoadTestSuite \/ WriteFails \/ Generate \/ NextSuite \/ Results
Melange ==
  \/ BuildEnvironment \/ MelangeFails \/ StepsDone
  \/ CheckType \/ CheckContains \/ CommandFails
  \/ CheckByProduct \/ CheckVirtual \/ TestVirtual \/ VirtualDone
Next == Run \/ Melange

Spec == Init /\ [][Next]_vars
-----------------------------------------------------------------------------
(* Properties.                                                             *)

(* Every variable keeps its type, and the totals count each case once.     *)
TypeOK ==
  /\ dir \in Suites /\ only \in -1 .. Len(dir) /\ generateOnly \in BOOLEAN
  /\ pc \in {"start", "load", "case", "melange", "step", "virtual", "ended"}
  /\ ToSet(suites) \subseteq ToSet(dir) /\ s \in 1 .. Len(suites) + 1 /\ i \in Nat
  /\ env \subseteq DOMAIN DB /\ step \in Nat /\ count \in Nat /\ vp \in Nat
  /\ blurred \in BOOLEAN /\ faults \in 0 .. MaxFaults
  /\ passed + failed = Len(log) /\ Len(failures) = failed
  /\ exit \in {-1, 0, 1} /\ (pc = "ended" <=> exit # -1)

(* What a step says of a package, whatever else is installed, whatever was *)
(* installed before and in what order: nothing bears the name of a         *)
(* by-product; adding what a package provides adds no files, but those of  *)
(* packages that were asked for; the package itself has the files.         *)
Holds(st, c, e) ==
  IF st.check = "byproduct" THEN c.package \notin DOMAIN DB
  ELSE /\ c.package \in DOMAIN DB
       /\ CASE st.check = "virtual" ->
                 /\ st.names # <<>> /\ ToSet(st.names) \subseteq DB[c.package].provides
                 /\ \A n \in ToSet(st.names) \cap e :
                      DB[n].files = {} \/ \E k \in Asked(c) : n \in Candidates(k)
            [] st.check = "contains" -> st.files \subseteq DB[c.package].files
            [] OTHER -> HasType(st.check, c.package)

(* Where a check is known to be misled: a file may be another package's;   *)
(* a provider's name may begin like the by-product's, and apk may prefer   *)
(* the package that has the name.                                          *)
FoundElsewhere(st, c, e) ==
  st.check = "contains" /\ \E n \in e \ {c.package} : st.files \cap DB[n].files # {}
Suspected(st, c) ==
  \/ st.check = "byproduct" /\ \E m \in DOMAIN DB : <<c.package, m>> \in Beside
  \/ st.check = "virtual" /\ ToSet(st.names) \cap DOMAIN DB # {}

Right(entry) ==
  LET c == entry.case IN
  IF entry.result = "accepted"
  THEN \A st \in ToSet(c.steps) : Holds(st, c, entry.env) \/ FoundElsewhere(st, c, entry.env)
  ELSE \/ Environments(c) = {}
       \/ \E st \in ToSet(c.steps) : ~Holds(st, c, entry.env) \/ Suspected(st, c)

(* "0: All tests passed": every case of every suite that was found has run *)
(* once, melange accepted those that expect it and no others, and, unless  *)
(* a command failed, rightly so.  1: a test failed, there is no suite, one *)
(* is not valid, or a config could not be written.                         *)
ExitEarned ==
  /\ exit = 0 =>
       /\ [k \in DOMAIN log |-> log[k].case] =
            FlattenSeq([k \in DOMAIN suites |-> Ordered(suites[k])])
       /\ generateOnly \/ \A k \in DOMAIN log :
            /\ log[k].result = IF log[k].case.expect THEN "accepted" ELSE "rejected"
            /\ log[k].faulty \/ Right(log[k])
  /\ exit = 1 =>
       \/ failed > 0 \/ faults > 0
       \/ suites = <<>> \/ \E f \in ToSet(suites) : ~Loads(f)
=============================================================================
