----------------------------- MODULE ShellDeps ------------------------------
(***************************************************************************)
(* tw shell-deps reads shell scripts, lists the programs they call, looks  *)
(* them up in a search path and looks for GNU-only flags given to programs *)
(* that busybox provides.  show and scan list; check and check-package     *)
(* judge.  A word is the text that is left of it when its expansions are   *)
(* dropped, and the kind of expansion it has: none, "all" for $@ and $*,   *)
(* or "var" for another.  A call is a sequence of words, a script the      *)
(* calls outside its functions and the calls of each function's body,      *)
(* nested calls among them, in the order of the source.                    *)
(***************************************************************************)
EXTENDS Integers, FiniteSetsExt, SequencesExt, Functions

CONSTANTS
  Builtins,     \* shellBuiltins
  Absolute,     \* texts that begin with "/"
  Relative,     \* function: what filepath.Join makes of a "./name" in a directory
  Patterned,    \* texts that hold a literal "$" or "*"
  AliasName,    \* function: the name of a text "name=value"
  BaseName,     \* function: the last element of an absolute text
  Place,        \* function: directory and name of an absolute text, if any
  GnuFlags,     \* gnuOnlyFlags: the flags of each command
  FlagValue,    \* pairs of a text "--flag=value" and its "--flag"
  Clusters,     \* pairs of a text "-xyz" and each "-x" whose letter is in it
  Dirs,         \* number of directories of the search path
  Givens,       \* the sequences of files a run may be given
  Trees,        \* the states the directories may be in
  ApkOutputs    \* what apk info -R may print, one class per line

Words == [text : STRING, exp : {"none", "var", "all"}]
Calls == Seq(Words) \ {<<>>}

(* "?" stands for a value that is not known, and names no function. *)
IsScript(s) ==
  /\ s.calls \in Seq(Calls)
  /\ \A f \in DOMAIN s.funs : f # "?" /\ s.funs[f] \in Seq(Calls)

ASSUME ShellDepsAssumption ==
  /\ DOMAIN Place \subseteq Absolute /\ DOMAIN BaseName = Absolute
  /\ \A t \in DOMAIN Place : Place[t].dir \in 1 .. Dirs /\ Place[t].name = BaseName[t]
  /\ DOMAIN GnuFlags \cap (Absolute \cup DOMAIN Relative) = {}
  /\ Absolute \cap DOMAIN Relative = {}
  /\ Dirs \in Nat \ {0}
  /\ ApkOutputs \subseteq Seq(STRING)
  /\ \A q \in Givens :
       q \in Seq(Range(q)) /\ \A i \in DOMAIN q : IsScript(q[i].script)

(* What lstat and stat find under a name: nothing; a regular file that may *)
(* be executed, or not; a link to busybox, to coreutils, to a link to      *)
(* busybox, to another program; a dangling link that names coreutils, or   *)
(* does not; a directory, one that cannot be listed.                       *)
Entries == {"none", "file", "plain", "busybox", "coreutils", "chain",
            "other", "stale", "dangling", "dir", "locked"}
Links == {"busybox", "coreutils", "chain", "other", "stale", "dangling"}
StatFinds == Entries \ {"none", "stale", "dangling"}

VARIABLES
  cmd,          \* "show", "scan", "check" or "package"
  strict,       \* --strict
  searched,     \* --path, or --missing, is given
  executable,   \* scan -x
  tree,         \* the entries of each directory of the search path
  apk,          \* what apk info -R prints, or "failed"
  given,        \* arguments, files found or files installed
  pc,           \* "start", "files", "output", "ended"
  todo,         \* files to process
  results,      \* one result per processed file
  shown,        \* what was printed, per result, and the verdict line
  exit

environment == <<cmd, strict, searched, executable, tree, apk, given>>
vars == <<environment, pc, todo, results, shown, exit>>

(* The shebangs, by what getShebangProgram makes of them: env -S gives     *)
(* "-S", and a first line that is too long to scan counts as none.         *)
Shebangs == {"sh", "env sh", "env -S sh", "perl", "none", "long"}
ShellShebang(f) == f.shebang \in {"sh", "env sh"}
-----------------------------------------------------------------------------
(* extractDeps.                                                            *)

Head1(call) == call[1].text

AllCalls(s) == ToSet(s.calls) \cup UNION {ToSet(body) : body \in Range(s.funs)}

(* The head of some call of the body holds $@ or $*. *)
ExecutesArguments_First(body) ==       \* fault: only the first call is read
  body # <<>> /\ body[1][1].exp = "all"
ExecutesArguments(body) ==
  \E i \in DOMAIN body : body[i][1].exp = "all"

Wrappers(s) == {f \in DOMAIN s.funs : ExecutesArguments(s.funs[f])}

(* The first argument of each alias command. *)
Aliases(s) ==
  {AliasName[c[2].text] :
     c \in {d \in AllCalls(s) : Len(d) > 1 /\ Head1(d) = "alias"
                                /\ d[2].text \in DOMAIN AliasName}}

(* Absolute texts count in any case. *)
LooksExternal(s, t) ==
  /\ t \notin Builtins \cup DOMAIN s.funs \cup Aliases(s) \cup {""}
  /\ t \in Absolute \/ t \notin Patterned

Candidates(s, call) ==
  {Head1(call)} \cup IF Head1(call) \in Wrappers(s) /\ Len(call) > 1
                     THEN {call[2].text} ELSE {}

ExtractDeps(s) ==
  {t \in UNION {Candidates(s, c) : c \in AllCalls(s)} : LooksExternal(s, t)}
-----------------------------------------------------------------------------
(* The search path.                                                        *)

EntryAt(t) == IF t \in DOMAIN Place THEN tree[Place[t].dir][Place[t].name]
                                    ELSE "none"
EntriesOf(t) ==
  CASE t \in Absolute -> {EntryAt(t)}
    [] t \in DOMAIN Relative -> {tree[d][Relative[t]] : d \in 1 .. Dirs}
    [] OTHER -> {tree[d][t] : d \in 1 .. Dirs}

(* findMissingInPath: stat succeeds, on a directory too. *)
MissingInPath(deps) ==
  {t \in deps : EntriesOf(t) \cap StatFinds = {}}

(* findMissing, of scan: an executable file or a link that does not lead   *)
(* to a directory, a dangling one too; a relative text equals no entry.    *)
MissingInTree(deps) ==
  {t \in deps : \/ t \in DOMAIN Relative
                \/ EntriesOf(t) \cap (Links \cup {"file"}) = {}}
WalkFails == \E d \in 1 .. Dirs : "locked" \in Range(tree[d])

(* DetectCommandProvider: the first entry lstat finds decides. *)
Provider(name) ==
  LET hits == {d \in 1 .. Dirs : tree[d][name] # "none"}
      entry == tree[Min(hits)][name]
  IN IF hits = {} THEN "unknown"
     ELSE CASE entry \in {"busybox", "chain"} -> "busybox"
            [] entry \in {"coreutils", "stale", "file", "plain"} -> "coreutils"
            [] OTHER -> "unknown"

MatchesFlag(t, flag) ==
  t = flag \/ <<t, flag>> \in FlagValue \cup Clusters

(* The name under which a call's command has flags of GNU only.            *)
GnuName(c) == IF Head1(c) \in Absolute THEN BaseName[Head1(c)] ELSE Head1(c)

(* CheckGNUCompatibilityAST: command and flag of each use. *)
GnuUses(s) ==
  UNION {IF GnuName(c) \notin DOMAIN GnuFlags THEN {}
         ELSE {<<GnuName(c), flag>> : flag \in {f \in GnuFlags[GnuName(c)] :
                 \E i \in 2 .. Len(c) : MatchesFlag(c[i].text, f)}}
         : c \in AllCalls(s)}

GnuWithPath_Busybox(s) ==              \* fault: an unknown provider is trusted
  {u \in GnuUses(s) : ~searched \/ Provider(u[1]) = "busybox"}
GnuWithPath(s) ==
  {u \in GnuUses(s) : ~searched \/ Provider(u[1]) # "coreutils"}

(* getRuntimeDeps: the lines of the first block. *)
FirstBlock ==
  SelectInSeq(apk, LAMBDA l : l \in {"blank", "header"})
Declared == ToSet(IF FirstBlock = 0 THEN apk ELSE SubSeq(apk, 1, FirstBlock - 1))

NeedsCoreutils == "busybox" \in Declared /\ "coreutils" \notin Declared
-----------------------------------------------------------------------------
(* The commands.                                                           *)

Init ==
  /\ cmd \in {"show", "scan", "check", "package"}
  /\ strict \in IF cmd \in {"check", "package"} THEN BOOLEAN ELSE {FALSE}
  /\ searched \in BOOLEAN
  /\ executable \in IF cmd = "scan" THEN BOOLEAN ELSE {FALSE}
  /\ tree \in Trees
  /\ apk \in IF cmd = "package" THEN ApkOutputs ELSE {<<>>}
  /\ given \in Givens
  /\ pc = "start" /\ todo = <<>> /\ results = <<>>
  /\ shown = [verdict |-> "none", lists |-> <<>>]
  /\ exit = -1

Return(code) == pc' = "ended" /\ exit' = code

(* scan's walk passes over directories, not links to them, and over what   *)
(* it cannot read, unless --match took it.                                 *)
ScanSelects(f) ==
  /\ f.opens # "dir" /\ executable => f.exec
  /\ f.matched \/ (f.opens = "yes" /\ ShellShebang(f))

(* findShellScripts passes over all it cannot read.                        *)
PackageSelects(f) == f.opens = "yes" /\ ShellShebang(f)

Selected(f) ==
  CASE cmd = "scan" -> ScanSelects(f)
    [] cmd = "package" -> PackageSelects(f)
    [] OTHER -> TRUE

(* The files of given that the command takes, in their order. *)
Chosen ==
  LET chosen[k \in 0 .. Len(given)] ==
        IF k = 0 THEN <<>>
        ELSE IF Selected(given[k]) THEN Append(chosen[k - 1], given[k])
        ELSE chosen[k - 1]
  IN chosen[Len(given)]

(* A file named to check does not exist, or is no valid pattern.           *)
BadArgument == \E i \in DOMAIN given : given[i].opens = "absent" \/ ~given[i].glob

Select ==
  /\ pc = "start"
  /\ cmd = "check" => ~BadArgument
  /\ todo' = Chosen
  /\ IF todo' = <<>> THEN Return(0) ELSE pc' = "files" /\ UNCHANGED exit
  /\ UNCHANGED <<environment, results, shown>>

Refuse ==
  /\ pc = "start"
  /\ Return(1)
  /\ UNCHANGED <<environment, todo, results, shown>>

RefuseCheck == cmd = "check" /\ BadArgument /\ Refuse

(* A directory or the regular expression given to scan is not usable.      *)
RefuseScan == cmd = "scan" /\ Refuse

(* getInstalledFiles: apk fails.                                           *)
RefusePackage == cmd = "package" /\ Refuse

(* Neither read nor parsed: a directory is opened, and fails there.        *)
Broken(f) == f.opens # "yes" \/ ~f.parses

Failed_Silent(f) ==                    \* fault: a script that is not read is fine
  [file |-> f, error |-> FALSE, deps |-> {}, missing |-> {}, gnu |-> {}]
Failed(f) ==
  [file |-> f, error |-> TRUE, deps |-> {}, missing |-> {}, gnu |-> {}]

Listed(f) ==
  [Failed(f) EXCEPT !.error = FALSE, !.deps = ExtractDeps(f.script)]

Process(result) ==
  /\ pc = "files"
  /\ results' = Append(results, IF Broken(Head(todo)) THEN Failed(Head(todo)) ELSE result)
  /\ todo' = Tail(todo)
  /\ pc' = IF Len(todo) = 1 THEN "output" ELSE "files"
  /\ UNCHANGED <<environment, shown, exit>>

WithMissing(f) ==
  [Listed(f) EXCEPT !.missing = IF searched
                                THEN MissingInPath(ExtractDeps(f.script))
                                ELSE {}]

Show == cmd = "show" /\ Process(WithMissing(Head(todo)))

InTree(f) ==
  IF ~searched THEN Listed(f)
  ELSE IF WalkFails THEN [Listed(f) EXCEPT !.error = TRUE]
  ELSE [Listed(f) EXCEPT !.missing = MissingInTree(ExtractDeps(f.script))]
Scan == cmd = "scan" /\ Process(InTree(Head(todo)))

ProcessScript(f) == [WithMissing(f) EXCEPT !.gnu = GnuWithPath(f.script)]
Check == cmd = "check" /\ Process(ProcessScript(Head(todo)))

CheckScriptWithDeps(f) ==
  [WithMissing(f) EXCEPT !.gnu = IF NeedsCoreutils THEN GnuUses(f.script) ELSE {}]
CheckPackage == cmd = "package" /\ Process(CheckScriptWithDeps(Head(todo)))

Issue_Gnu(r) == r.error \/ r.gnu # {}  \* fault: missing programs do not count
Issue(r) == r.error \/ r.missing # {} \/ r.gnu # {}

(* The details of check look everything up again.                          *)
Details(r) ==
  LET found == {t \in r.deps :
                  /\ searched \/ t \in Absolute
                  /\ EntriesOf(t) \cap StatFinds # {}}
      gnu == {t \in found \ Absolute : \E u \in r.gnu : u[1] = t}
  IN IF r.error THEN [available |-> {}, gnu |-> {}, missing |-> {}]
     ELSE [available |-> found \ gnu, gnu |-> gnu, missing |-> r.deps \ found]

Report(verdict, lists, code) ==
  /\ pc = "output"
  /\ shown' = [verdict |-> verdict, lists |-> lists]
  /\ Return(code)
  /\ UNCHANGED <<environment, todo, results>>

OutputResults ==
  /\ cmd \in {"show", "scan"}
  /\ Report("none", <<>>, IF \E r \in Range(results) : r.error THEN 1 ELSE 0)

(* The verdict line and the return value go by loops of their own over the *)
(* results.                                                                *)
Code == IF strict /\ \E r \in Range(results) : Issue(r) THEN 1 ELSE 0

OutputCheck ==
  /\ cmd = "check"
  /\ LET withIssues == {r \in Range(results) :
                          r.missing # {} \/ r.gnu # {} \/ r.error}
     IN Report(IF withIssues = {} THEN "fine" ELSE "issues",
              [i \in DOMAIN results |-> Details(results[i])], Code)

OutputPackage ==
  /\ cmd = "package"
  /\ LET hasIssues == \E r \in Range(results) :
                        \/ r.error
                        \/ r.missing # {}
                        \/ r.gnu # {}
     IN Report(IF hasIssues THEN "issues" ELSE "fine", <<>>, Code)

Next ==
  \/ Select \/ RefuseCheck \/ RefuseScan \/ RefusePackage
  \/ Show \/ Scan \/ Check \/ CheckPackage
  \/ OutputResults \/ OutputCheck \/ OutputPackage

Spec == Init /\ [][Next]_vars
-----------------------------------------------------------------------------
(* What a shell does with a script.                                        *)

CONSTANTS
  Means,        \* pairs of a text and the flag that it gives to a command
  MaxDepth      \* bound: functions within functions

ASSUME DepthAssumption == MaxDepth \in Nat

(* The values that a word stands for, and the functions and shifts each    *)
(* has come through.  A word after $@ or $* has no place of its own in the *)
(* line, and counts as one that has come through two.                      *)
Expand(call, i, args, cost) ==
  CASE call[i].exp = "all" ->
         [j \in DOMAIN args |-> [args[j] EXCEPT !.hops = @ + cost]]
    [] call[i].exp = "var" -> <<[text |-> "?", hops |-> 0]>>
    [] OTHER -> <<[text |-> call[i].text,
                   hops |-> IF \E j \in 1 .. i - 1 : call[j].exp = "all"
                            THEN 2 ELSE 0]>>

CommandLine(call, args, cost) ==
  LET line[i \in 0 .. Len(call)] ==
        IF i = 0 THEN <<>> ELSE line[i - 1] \o Expand(call, i, args, cost)
  IN line[Len(call)]

(* The command lines of a body that is run with args.                      *)
BodyLines(body, args) ==
  {LET shifts == Cardinality({j \in 1 .. i - 1 : Head1(body[j]) = "shift"})
   IN CommandLine(body[i], SubSeq(args, shifts + 1, Len(args)), shifts + 1)
   : i \in DOMAIN body} \ {<<>>}

(* The command lines a shell comes to, MaxDepth functions deep.            *)
CommandLines(s) ==
  LET lines[n \in 0 .. MaxDepth] ==
        IF n = 0 THEN BodyLines(s.calls, <<>>)
        ELSE lines[n - 1] \cup
             UNION {IF l[1].text \in DOMAIN s.funs
                    THEN BodyLines(s.funs[l[1].text], Tail(l)) ELSE {}
                    : l \in lines[n - 1]}
  IN lines[MaxDepth]

(* Programs that are named in the script itself, and run there or by a     *)
(* function that was given them as its first argument.                     *)
ProgramsRun(s) ==
  {l[1].text : l \in {k \in CommandLines(s) : k[1].hops <= 1}}
    \ (Builtins \cup DOMAIN s.funs \cup Aliases(s) \cup Patterned \cup {"", "?"})

(* The first entry that can be executed is the one a shell runs.           *)
Executables == {"file", "busybox", "coreutils", "chain", "other"}
Runs(name) ==
  LET hits == {d \in 1 .. Dirs : tree[d][name] \in Executables}
  IN IF hits = {} THEN "none" ELSE tree[Min(hits)][name]

(* What a shell runs for a text is busybox under the text's name.          *)
OnBusybox(t) ==
  (IF t \in Absolute THEN EntryAt(t) ELSE Runs(t)) \in {"busybox", "chain"}

(* A word gives a command a flag, in a form the tool knows: not "--hum".   *)
GivesFlag(t, flag) == <<t, flag>> \in Means /\ MatchesFlag(t, flag)

(* A call gives the command it names a flag of GNU only.                   *)
GivesGnuFlag(c) ==
  /\ c[1].exp = "none" /\ GnuName(c) \in DOMAIN GnuFlags
  /\ \E i \in 2 .. Len(c), flag \in GnuFlags[GnuName(c)] :
       GivesFlag(c[i].text, flag)

(* What apk says that the package depends on, in its newest version.       *)
DependsOn(name) ==
  \E i \in DOMAIN apk :
    apk[i] = name /\ \A j \in 1 .. i : apk[j] \notin {"blank", "header"}
-----------------------------------------------------------------------------
(* Properties.                                                             *)

(* Every variable keeps its type; a result lists what its script calls.    *)
TypeOK ==
  /\ cmd \in {"show", "scan", "check", "package"}
  /\ strict \in BOOLEAN /\ searched \in BOOLEAN /\ executable \in BOOLEAN
  /\ tree \in Trees /\ given \in Givens /\ apk \in ApkOutputs \cup {<<>>}
  /\ pc \in {"start", "files", "output", "ended"}
  /\ exit \in {-1, 0, 1} /\ (pc = "ended" <=> exit # -1)
  /\ pc \in {"files", "output"} =>
       [i \in DOMAIN results |-> results[i].file] \o todo = Chosen
  /\ \A r \in Range(results) :
       r.missing \subseteq r.deps /\ (r.error \/ ~Broken(r.file))
  /\ shown.verdict \in {"none", "fine", "issues"}

(* "lists external programs that the shell script may invoke": whatever a  *)
(* shell comes to run, through functions that call functions, is a         *)
(* dependency, if the script names it in a place of its own, with no $@ or *)
(* $* before it, and hands it to at most one function that runs its        *)
(* arguments unshifted.  A program named by an expansion, "$1" too, is not *)
(* named by the script.                                                    *)
NothingMissed ==
  \A r \in Range(results) : ~Broken(r.file) => ProgramsRun(r.file.script) \subseteq r.deps

(* An entry that stat takes for a program and a shell does not.            *)
Deceives(p) == EntriesOf(p) \cap (StatFinds \ Executables) # {}

(* An entry before the program a shell runs is taken for coreutils; and an *)
(* absolute path is judged by the first entry of its name, wherever it is. *)
Hides(name) ==
  \E d \in 1 .. Dirs :
    /\ tree[d][name] \in {"stale", "plain"}
    /\ \A e \in 1 .. d : tree[e][name] \notin Executables

Eclipsed(t) ==
  /\ t \in DOMAIN Place
  /\ \E d \in 1 .. Place[t].dir - 1 :
       tree[d][BaseName[t]] \in {"coreutils", "stale", "file", "plain"}

Masked(t) == IF t \in Absolute THEN Eclipsed(t) ELSE Hides(t)

(* A strict check that passes promises a script that works: a shell finds  *)
(* each program it runs, and no call gives a flag of GNU only to a program *)
(* that is busybox's.  check goes by the search path; check-package by     *)
(* what apk said, and promises nothing if apk failed or named busybox with *)
(* a version.  It holds for calls that name command and flag themselves:   *)
(* the code does not look for flags in what a function gets to run or      *)
(* hands on with $@.  Nor does it see that a path is busybox's if another  *)
(* directory's entry of its name comes first (Eclipsed).  A relative path, *)
(* which a shell takes from its own directory, is looked for in the search *)
(* path.                                                                   *)
PassMeansUsable ==
  exit = 0 /\ strict /\ searched /\ cmd \in {"check", "package"} =>
    \A f \in Range(Chosen) :
      /\ ~Broken(f)
      /\ \A p \in ProgramsRun(f.script) \ DOMAIN Relative :
           EntriesOf(p) \cap Executables # {} \/ Deceives(p)
      /\ \A c \in AllCalls(f.script) : GivesGnuFlag(c) =>
           IF cmd = "check" THEN ~OnBusybox(Head1(c)) \/ Masked(Head1(c))
           ELSE DependsOn("busybox") => DependsOn("coreutils")

(* What check and check-package print and what they return are computed    *)
(* apart, and agree: the verdict with the exit code, the details with the  *)
(* results.  Without a search path the details call everything missing.    *)
ShownAgrees ==
  pc = "ended" /\ shown.verdict # "none" =>
    /\ exit = 1 <=> strict /\ shown.verdict = "issues"
    /\ shown.verdict = "fine" => \A r \in Range(results) : ~r.error
    /\ \A i \in DOMAIN shown.lists :
         LET d == shown.lists[i]  r == results[i] IN
         ~r.error =>
           /\ d.available \cup d.gnu \cup d.missing = r.deps
           /\ d.available \cap d.gnu = {}
           /\ searched => /\ d.missing = r.missing
                          /\ shown.verdict = "fine" => d.available = r.deps
=============================================================================
