----------------------------- MODULE LinkCheck ------------------------------
(***************************************************************************)
(* symlink-check looks for broken symbolic links, first in the files of    *)
(* packages, then below paths.  Each of these jobs has a producer, which   *)
(* is the main goroutine, a channel and a pool of workers, who judge a     *)
(* link by readlink, stat and open and share the counters.  Counting a     *)
(* failure and keeping its message are two steps.  Other processes may     *)
(* remove links meanwhile.  The channel is a set: what becomes of a link   *)
(* does not depend on the order in which links are taken.                  *)
(***************************************************************************)
EXTENDS Integers, FiniteSets, Sequences

CONSTANTS
  Workers,      \* the goroutines of a pool
  Cap,          \* capacity of the channel
  Entries,      \* what a job may come across
  Runs,         \* the sequences of jobs a run may be given
  MaxGone       \* bound: links removed meanwhile

ASSUME LinkCheckAssumption ==
  /\ Cap \in Nat \ {0} /\ MaxGone \in Nat
  /\ IsFiniteSet(Workers) /\ Workers # {}

(* An entry is a link, a package that is not installed, or another file.   *)
(* target: whether the text of a link is absolute.  finds: what stat finds *)
(* behind it.  base: whether the path of the link is absolute, relative,   *)
(* or begins with "..";  it has depth directories, and the text begins     *)
(* with ups times "..".                                                    *)
Entry == [kind : {"link", "missing", "other"}, target : {"abs", "rel"},
          finds : {"file", "nothing", "error"}, opens : BOOLEAN,
          base : {"abs", "here", "up"}, depth : Nat, ups : Nat]

(* ok: the path exists, the packages can be listed.                        *)
Job == [ok : BOOLEAN, entries : Seq(Entries)]

ASSUME EntryAssumption == Entries \subseteq Entry /\ Runs \subseteq Seq(Job)

VARIABLES
  jobs, allowDangling, allowAbsolute,
  gone,         \* links that were removed
  main,         \* "start", "walk", "add", "closed" or "ended"
  job, pos,     \* the current job and its next entry
  queue,        \* the channel
  worker,       \* each one's place and link
  passes, fails,
  accepted,     \* links that passed (history)
  messages,     \* FailMessages
  exit

config == <<jobs, allowDangling, allowAbsolute>>
counts == <<passes, fails, accepted, messages>>
vars == <<config, gone, main, job, pos, queue, worker, counts, exit>>

(* An entry is named by its job and position; position 0 is the job.       *)
At(id) == jobs[id[1]].entries[id[2]]

Idle == [at |-> "idle", id |-> <<0, 0>>]
Done == [at |-> "done", id |-> <<0, 0>>]

Init ==
  /\ jobs \in Runs
  /\ allowDangling \in BOOLEAN /\ allowAbsolute \in BOOLEAN
  /\ gone = {}
  /\ main = "start" /\ job = 1 /\ pos = 0
  /\ queue = {} /\ worker = [w \in Workers |-> Done]
  /\ passes = 0 /\ fails = 0 /\ accepted = {} /\ messages = {}
  /\ exit = -1

(* AddPass; the first half of AddFail, and the other.                      *)
AddPass(id) ==
  /\ passes' = passes + 1 /\ accepted' = accepted \cup {id}
  /\ UNCHANGED <<fails, messages>>
AddFail ==
  /\ fails' = fails + 1
  /\ UNCHANGED <<passes, accepted, messages>>
KeepMessage(id) ==
  /\ messages' = messages \cup {id}
  /\ UNCHANGED <<passes, accepted, fails>>
-----------------------------------------------------------------------------
(* The main goroutine.                                                     *)

StartJob ==
  /\ main = "start" /\ job <= Len(jobs)
  /\ IF jobs[job].ok
     THEN /\ main' = "walk" /\ pos' = 1
          /\ worker' = [w \in Workers |-> Idle]
          /\ UNCHANGED counts
     ELSE /\ main' = "add" /\ pos' = 0
          /\ AddFail
          /\ UNCHANGED worker
  /\ UNCHANGED <<config, gone, job, queue, exit>>

Walking == main = "walk" /\ pos <= Len(jobs[job].entries)
Here == jobs[job].entries[pos]

Skip ==
  /\ Walking
  /\ Here.kind = "other" \/ (Here.kind = "link" /\ <<job, pos>> \in gone)
  /\ pos' = pos + 1
  /\ UNCHANGED <<config, gone, main, job, queue, worker, counts, exit>>

Full_OffByOne == Cardinality(queue) > Cap     \* fault: a channel of Cap + 1
Full == Cardinality(queue) >= Cap

Send ==
  /\ Walking
  /\ Here.kind = "link" /\ <<job, pos>> \notin gone
  /\ ~Full
  /\ queue' = queue \cup {<<job, pos>>}
  /\ pos' = pos + 1
  /\ UNCHANGED <<config, gone, main, job, worker, counts, exit>>

NotInstalled ==
  /\ Walking
  /\ Here.kind = "missing"
  /\ AddFail
  /\ main' = "add"
  /\ UNCHANGED <<config, gone, job, pos, queue, worker, exit>>

(* A package that is not installed: go on.  A job that failed: the next.   *)
Log ==
  /\ main = "add"
  /\ KeepMessage(<<job, pos>>)
  /\ IF pos = 0 THEN main' = "start" /\ job' = job + 1 /\ pos' = 0
     ELSE main' = "walk" /\ pos' = pos + 1 /\ UNCHANGED job
  /\ UNCHANGED <<config, gone, queue, worker, exit>>

Closes_Failed == fails = 0    \* fault: returns without close after a failure
Closes == TRUE

Close ==
  /\ main = "walk" /\ pos > Len(jobs[job].entries)
  /\ Closes
  /\ main' = "closed"
  /\ UNCHANGED <<config, gone, job, pos, queue, worker, counts, exit>>

(* wg.Wait.                                                                *)
Joined_Drained == queue = {}           \* fault: waits for the channel only
Joined == \A w \in Workers : worker[w] = Done

Join ==
  /\ main = "closed" /\ Joined
  /\ main' = "start" /\ job' = job + 1 /\ pos' = 0
  /\ UNCHANGED <<config, gone, queue, worker, counts, exit>>

Exit ==
  /\ main = "start" /\ job > Len(jobs)
  /\ main' = "ended"
  /\ exit' = IF fails > 0 THEN 1 ELSE 0
  /\ UNCHANGED <<config, gone, job, pos, queue, worker, counts>>

Main == StartJob \/ Skip \/ Send \/ NotInstalled \/ Log \/ Close \/ Join \/ Exit
-----------------------------------------------------------------------------
(* A worker.                                                               *)

Goto(w, place) == worker' = [worker EXCEPT ![w].at = place]
Pass(w) == AddPass(worker[w].id) /\ worker' = [worker EXCEPT ![w] = Idle]
Fail(w) == AddFail /\ Goto(w, "add")

Receive(w) ==
  /\ worker[w] = Idle
  /\ \E id \in queue :
       /\ queue' = queue \ {id}
       /\ worker' = [worker EXCEPT ![w] = [at |-> "read", id |-> id]]
  /\ UNCHANGED <<config, gone, main, job, pos, counts, exit>>

Return(w) ==
  /\ worker[w] = Idle /\ queue = {} /\ main = "closed"
  /\ worker' = [worker EXCEPT ![w] = Done]
  /\ UNCHANGED <<config, gone, main, job, pos, queue, counts, exit>>

Readlink(w) ==
  /\ worker[w].at = "read"
  /\ IF worker[w].id \in gone THEN Fail(w)
     ELSE Goto(w, "stat") /\ UNCHANGED counts
  /\ UNCHANGED <<config, gone, main, job, pos, queue, exit>>

(* targetEscapesTree: a path that begins with ".." stays outside whatever  *)
(* the text is, one that begins with "/" cannot leave.                     *)
Escapes_Below(l) == l.base # "abs" /\ l.ups > l.depth + 1   \* fault: off by one
Escapes(l) == l.base = "up" \/ (l.base = "here" /\ l.ups > l.depth)

Refuses(l) ==
  IF l.target = "abs" THEN ~allowAbsolute ELSE Escapes(l)

Stat(w) ==
  /\ worker[w].at = "stat"
  /\ LET id == worker[w].id
         l == At(id)
         finds == IF id \in gone THEN "nothing" ELSE l.finds
     IN CASE finds = "nothing" /\ allowDangling -> Pass(w)
          [] finds = "file" /\ ~Refuses(l) -> Goto(w, "open") /\ UNCHANGED counts
          [] OTHER -> Fail(w)
  /\ UNCHANGED <<config, gone, main, job, pos, queue, exit>>

Open(w) ==
  /\ worker[w].at = "open"
  /\ IF At(worker[w].id).opens /\ worker[w].id \notin gone THEN Pass(w) ELSE Fail(w)
  /\ UNCHANGED <<config, gone, main, job, pos, queue, exit>>

AppendMessage(w) ==
  /\ worker[w].at = "add"
  /\ KeepMessage(worker[w].id)
  /\ worker' = [worker EXCEPT ![w] = Idle]
  /\ UNCHANGED <<config, gone, main, job, pos, queue, exit>>

Work(w) == Receive(w) \/ Return(w) \/ Readlink(w) \/ Stat(w) \/ Open(w)
           \/ AppendMessage(w)
-----------------------------------------------------------------------------
Occurrences ==
  UNION {{i} \X DOMAIN jobs[i].entries : i \in {k \in 1 .. Len(jobs) : jobs[k].ok}}
Links == {id \in Occurrences : At(id).kind = "link"}

(* Another process removes a link.                                         *)
Remove ==
  /\ main # "ended" /\ Cardinality(gone) < MaxGone
  /\ \E id \in Links \ gone : gone' = gone \cup {id}
  /\ UNCHANGED <<config, main, job, pos, queue, worker, counts, exit>>

Next == Main \/ Remove \/ \E w \in Workers : Work(w)

Spec == Init /\ [][Next]_vars /\ WF_vars(Main) /\ \A w \in Workers : WF_vars(Work(w))
-----------------------------------------------------------------------------
(* Properties.                                                             *)

Places == {"idle", "read", "stat", "open", "add", "done"}
Ids == (1 .. Len(jobs)) \X Nat

(* Every variable keeps its type, and the channel its capacity.            *)
TypeOK ==
  /\ jobs \in Runs /\ allowDangling \in BOOLEAN /\ allowAbsolute \in BOOLEAN
  /\ gone \subseteq Links
  /\ main \in {"start", "walk", "add", "closed", "ended"}
  /\ job \in 1 .. Len(jobs) + 1 /\ pos \in Nat
  /\ main \in {"walk", "add", "closed"} => job <= Len(jobs)
  /\ queue \subseteq Links /\ IsFiniteSet(queue) /\ Cardinality(queue) <= Cap
  /\ worker \in [Workers -> [at : Places, id : Ids \cup {<<0, 0>>}]]
  /\ passes \in Nat /\ fails \in Nat
  /\ accepted \subseteq Ids /\ messages \subseteq Ids
  /\ exit \in {-1, 0, 1}

(* What else counts as a failure: a job that cannot start, and a package   *)
(* that is not installed.                                                  *)
Problems ==
  {<<i, 0>> : i \in {k \in 1 .. Len(jobs) : ~jobs[k].ok}} \cup
  {id \in Occurrences : At(id).kind = "missing"}

(* When the process ends, no link is lost in the channel or with a worker  *)
(* and none is judged twice: each one that was not removed has passed or   *)
(* has a message, the counters say how many, and every message is printed. *)
AllJudged ==
  main = "ended" =>
    /\ accepted \cap messages = {}
    /\ Links \ gone \subseteq accepted \cup messages
    /\ accepted \subseteq Links /\ messages \subseteq Links \cup Problems
    /\ Problems \subseteq messages
    /\ passes = Cardinality(accepted) /\ fails = Cardinality(messages)

(* What the flags and the comments ask of a link: what a relative text     *)
(* reaches is counted in directories above the root of the tree.           *)
Leaves(l) ==
  l.base # "abs" /\ (IF l.base = "up" THEN -1 ELSE l.depth) - l.ups < 0

Good(l) ==
  CASE l.finds = "nothing" -> allowDangling
    [] l.finds = "error" -> FALSE
    [] OTHER -> /\ l.opens
                /\ IF l.target = "abs" THEN allowAbsolute ELSE ~Leaves(l)

(* The process exits 0 only if every link that stayed in place is good,    *)
(* every path exists and every package is installed; it exits 1 only if    *)
(* something is wrong or was removed.                                      *)
ExitEarned ==
  /\ exit = 0 => /\ Problems = {}
                 /\ \A id \in Links \ gone : Good(At(id))
  /\ exit = 1 => \/ Problems # {}
                 \/ \E id \in Links : id \in gone \/ ~Good(At(id))

(* Producer and workers do not wait for each other for ever.               *)
Terminates == <>(main = "ended")
=============================================================================
