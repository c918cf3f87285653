-------------------------- MODULE LinkCheckProofs ---------------------------
(***************************************************************************)
(* The properties of LinkCheck for any jobs, any number of workers and any *)
(* capacity of the channel.  The invariant follows each link from the walk *)
(* through the channel and one worker to one of the two results.           *)
(***************************************************************************)
EXTENDS LinkCheck, FiniteSetTheorems, TLAPS

Before(id) == id[1] < job \/ (id[1] = job /\ id[2] < pos)
Busy(w) == worker[w].at \in {"read", "stat", "open", "add"}
Judged == accepted \cup messages

(* The pool lives from the start of a job to its join. *)
ControlInv ==
  /\ main \in {"start", "ended"} => pos = 0
  /\ pos = 0 => queue = {} /\ (\A w \in Workers : worker[w].at = "done")
  /\ main \in {"walk", "closed"} => pos > 0
  /\ main = "walk" \/ (main = "add" /\ pos > 0) =>
       \A w \in Workers : worker[w].at # "done"
  /\ main \in {"walk", "add", "closed"} =>
       job <= Len(jobs) /\ (jobs[job].ok <=> pos > 0)
  /\ main = "add" /\ pos > 0 =>
       pos <= Len(jobs[job].entries) /\ jobs[job].entries[pos].kind = "missing"
  /\ main = "closed" => pos > Len(jobs[job].entries)
  /\ main = "ended" => job > Len(jobs)
  /\ main # "ended" => exit = -1
  /\ main = "ended" => exit = IF fails > 0 THEN 1 ELSE 0
  /\ (\E w \in Workers : worker[w].at = "done") => queue = {}

(* A link that the walk has met is in one place. *)
PlaceInv ==
  /\ queue \cap Judged = {} /\ accepted \cap messages = {}
  /\ accepted \subseteq Links /\ messages \subseteq Links \cup Problems
  /\ \A id \in queue \cup Judged : Before(id)
  /\ \A w \in Workers : Busy(w) =>
       /\ worker[w].id \in Links /\ Before(worker[w].id)
       /\ worker[w].id \notin queue \cup Judged
  /\ \A v, w \in Workers :
       Busy(v) /\ Busy(w) /\ worker[v].id = worker[w].id => v = w

(* None is lost. *)
CoverInv ==
  /\ \A id \in Links : Before(id) =>
       \/ id \in gone \cup queue \cup Judged
       \/ \E w \in Workers : Busy(w) /\ worker[w].id = id
  /\ \A id \in Problems : Before(id) => id \in messages

(* Failures are counted before their message is kept. *)
Pending(id) ==
  \/ main = "add" /\ id = <<job, pos>>
  \/ \E w \in Workers : worker[w].at = "add" /\ worker[w].id = id
Failing == {id \in Links \cup Problems : id \in messages \/ Pending(id)}

CountInv ==
  /\ IsFiniteSet(accepted) /\ passes = Cardinality(accepted)
  /\ IsFiniteSet(Failing) /\ fails = Cardinality(Failing)

(* The judgement was right when it was made. *)
JudgeInv ==
  /\ \A id \in accepted : id \in gone \/ Good(At(id))
  /\ \A id \in messages \cap Links : id \in gone \/ ~Good(At(id))
  /\ \A w \in Workers :
       /\ worker[w].at = "add" => worker[w].id \in gone \/ ~Good(At(worker[w].id))
       /\ worker[w].at = "open" =>
            At(worker[w].id).finds = "file" /\ ~Refuses(At(worker[w].id))

IInv == TypeOK /\ ControlInv /\ PlaceInv /\ CoverInv /\ CountInv /\ JudgeInv
-----------------------------------------------------------------------------
(* What the jobs hold. *)

(* Each job is what the environment may give a run. *)
LEMMA JobTypes ==
  ASSUME TypeOK
  PROVE  /\ Len(jobs) \in Nat /\ job \in Nat \ {0} /\ pos \in Nat
         /\ \A i \in 1 .. Len(jobs) : /\ jobs[i].ok \in BOOLEAN
                                     /\ Len(jobs[i].entries) \in Nat
                                     /\ jobs[i].entries \in Seq(Entries)
         /\ \A i \in 1 .. Len(jobs) : \A k \in 1 .. Len(jobs[i].entries) :
              jobs[i].entries[k] \in Entry
<1>1. jobs \in Seq(Job)
  BY EntryAssumption DEF TypeOK
<1>2. \A i \in 1 .. Len(jobs) : jobs[i] \in Job
  BY <1>1
<1>3. \A i \in 1 .. Len(jobs) : /\ jobs[i].ok \in BOOLEAN
                              /\ jobs[i].entries \in Seq(Entries)
  BY <1>2 DEF Job
<1>4. \A i \in 1 .. Len(jobs) : \A k \in 1 .. Len(jobs[i].entries) :
        jobs[i].entries[k] \in Entry
  BY <1>3, EntryAssumption
<1>5. job \in Nat \ {0} /\ pos \in Nat
  BY <1>1 DEF TypeOK
<1> QED
  BY <1>1, <1>3, <1>4, <1>5

(* A link or another occurrence is named by its job and its position. *)
LEMMA OccurrenceNames ==
  ASSUME TypeOK, NEW id
  PROVE  id \in Occurrences <=>
           \E i \in 1 .. Len(jobs) : \E k \in 1 .. Len(jobs[i].entries) :
             jobs[i].ok /\ id = <<i, k>>
<1>1. \A i \in 1 .. Len(jobs) : DOMAIN jobs[i].entries = 1 .. Len(jobs[i].entries)
  BY JobTypes
<1> QED
  BY <1>1 DEF Occurrences

(* Links are occurrences of that kind. *)
LEMMA LinkFacts ==
  ASSUME TypeOK
  PROVE  /\ \A id \in Links :
              /\ id = <<id[1], id[2]>> /\ id[1] \in 1 .. Len(jobs)
              /\ jobs[id[1]].ok /\ id[2] \in 1 .. Len(jobs[id[1]].entries)
              /\ At(id) \in Entry /\ At(id).kind = "link"
         /\ \A i \in 1 .. Len(jobs) : \A k \in 1 .. Len(jobs[i].entries) :
              jobs[i].ok /\ jobs[i].entries[k].kind = "link" => <<i, k>> \in Links
<1>1. ASSUME NEW id \in Links
      PROVE  /\ id = <<id[1], id[2]>> /\ id[1] \in 1 .. Len(jobs)
             /\ jobs[id[1]].ok /\ id[2] \in 1 .. Len(jobs[id[1]].entries)
             /\ At(id) \in Entry /\ At(id).kind = "link"
  <2>1. PICK i \in 1 .. Len(jobs) : \E k \in 1 .. Len(jobs[i].entries) :
          jobs[i].ok /\ id = <<i, k>>
    BY OccurrenceNames DEF Links
  <2>2. PICK k \in 1 .. Len(jobs[i].entries) : jobs[i].ok /\ id = <<i, k>>
    BY <2>1
  <2> QED
    BY <2>2, JobTypes DEF Links, At
<1>2. ASSUME NEW i \in 1 .. Len(jobs), NEW k \in 1 .. Len(jobs[i].entries),
             jobs[i].ok, jobs[i].entries[k].kind = "link"
      PROVE  <<i, k>> \in Links
  BY <1>2, OccurrenceNames DEF Links, At
<1> QED
  BY <1>1, <1>2

(* So are the packages that are not installed; jobs that cannot start have *)
(* position 0. *)
LEMMA ProblemFacts ==
  ASSUME TypeOK
  PROVE  /\ \A id \in Problems :
              /\ id = <<id[1], id[2]>> /\ id[1] \in 1 .. Len(jobs)
              /\ id \notin Links
              /\ \/ id[2] = 0 /\ ~jobs[id[1]].ok
                 \/ /\ jobs[id[1]].ok /\ id[2] \in 1 .. Len(jobs[id[1]].entries)
                    /\ jobs[id[1]].entries[id[2]].kind = "missing"
         /\ \A i \in 1 .. Len(jobs) : ~jobs[i].ok => <<i, 0>> \in Problems
         /\ \A i \in 1 .. Len(jobs) : \A k \in 1 .. Len(jobs[i].entries) :
              jobs[i].ok /\ jobs[i].entries[k].kind = "missing" => <<i, k>> \in Problems
<1>1. ASSUME NEW id \in Problems
      PROVE  /\ id = <<id[1], id[2]>> /\ id[1] \in 1 .. Len(jobs)
             /\ id \notin Links
             /\ \/ id[2] = 0 /\ ~jobs[id[1]].ok
                \/ /\ jobs[id[1]].ok /\ id[2] \in 1 .. Len(jobs[id[1]].entries)
                   /\ jobs[id[1]].entries[id[2]].kind = "missing"
  <2>1. CASE \E i \in 1 .. Len(jobs) : ~jobs[i].ok /\ id = <<i, 0>>
    <3>1. PICK i \in 1 .. Len(jobs) : ~jobs[i].ok /\ id = <<i, 0>>
      BY <2>1
    <3> QED
      BY <3>1, LinkFacts
  <2>2. CASE id \in Occurrences /\ At(id).kind = "missing"
    <3>1. PICK i \in 1 .. Len(jobs) : \E k \in 1 .. Len(jobs[i].entries) :
            jobs[i].ok /\ id = <<i, k>>
      BY <2>2, OccurrenceNames
    <3>2. PICK k \in 1 .. Len(jobs[i].entries) : jobs[i].ok /\ id = <<i, k>>
      BY <3>1
    <3>3. id \notin Links
      BY <2>2 DEF Links
    <3> QED
      BY <2>2, <3>2, <3>3 DEF At
  <2> QED
    BY <2>1, <2>2 DEF Problems
<1>2. \A i \in 1 .. Len(jobs) : ~jobs[i].ok => <<i, 0>> \in Problems
  BY DEF Problems
<1>3. ASSUME NEW i \in 1 .. Len(jobs), NEW k \in 1 .. Len(jobs[i].entries),
             jobs[i].ok, jobs[i].entries[k].kind = "missing"
      PROVE  <<i, k>> \in Problems
  BY <1>3, OccurrenceNames DEF Problems, At
<1> QED
  BY <1>1, <1>2, <1>3

(* The jobs and the flags never change. *)
LEMMA ConfigKept ==
  ASSUME UNCHANGED config
  PROVE  /\ jobs' = jobs /\ Links' = Links /\ Problems' = Problems
         /\ Occurrences' = Occurrences
         /\ \A id : At(id)' = At(id)
         /\ \A l : Good(l)' = Good(l) /\ Refuses(l)' = Refuses(l)
<1>1. jobs' = jobs /\ allowDangling' = allowDangling /\ allowAbsolute' = allowAbsolute
  BY DEF config
<1>2. Occurrences' = Occurrences
  BY <1>1 DEF Occurrences
<1>3. \A id : At(id)' = At(id)
  BY <1>1 DEF At
<1>4. Links' = Links
  BY <1>2, <1>3 DEF Links
<1>5. Problems' = Problems
  BY <1>1, <1>2, <1>3 DEF Problems
<1>6. \A l : Good(l)' = Good(l) /\ Refuses(l)' = Refuses(l)
  BY <1>1 DEF Good, Refuses, Leaves, Escapes
<1> QED
  BY <1>1, <1>2, <1>3, <1>4, <1>5, <1>6
-----------------------------------------------------------------------------
(* The steps. *)

(* Before the first job nothing is counted. *)
LEMMA InitInv == Init => IInv
<1> SUFFICES ASSUME Init PROVE IInv
  OBVIOUS
<1>1. jobs \in Seq(Job) /\ Len(jobs) \in Nat
  BY EntryAssumption DEF Init
<1>2. IsFiniteSet({}) /\ Cardinality({}) = 0
  BY FS_EmptySet
<1>3. TypeOK
  BY <1>1, <1>2, LinkCheckAssumption DEF Init, TypeOK, Done, Places
<1>4. ControlInv
  BY <1>1 DEF Init, ControlInv, Done
<1>5. \A id \in Links \cup Problems : ~Before(id)
  BY <1>3, LinkFacts, ProblemFacts, JobTypes DEF Init, Before
<1>6. PlaceInv /\ CoverInv /\ JudgeInv
  BY <1>5 DEF Init, PlaceInv, CoverInv, JudgeInv, Judged, Busy, Done
<1>7. CountInv
  <2>1. Failing = {}
    BY DEF Init, Failing, Pending, Done
  <2> QED
    BY <1>2, <2>1 DEF Init, CountInv
<1> QED
  BY <1>3, <1>4, <1>6, <1>7 DEF IInv

(* A link that vanishes keeps its place. *)
LEMMA RemoveStep ==
  ASSUME IInv, Remove
  PROVE  IInv'
<1>1. /\ UNCHANGED config /\ gone \subseteq gone' /\ gone' \subseteq Links
      /\ UNCHANGED <<main, job, pos, queue, worker, exit>>
      /\ UNCHANGED <<passes, fails, accepted, messages>>
  BY DEF Remove, counts, IInv, TypeOK
<1>2. TypeOK'
  BY <1>1, ConfigKept DEF IInv, TypeOK, config, Ids
<1>3. ControlInv'
  BY <1>1, ConfigKept DEF IInv, ControlInv
<1>4. PlaceInv'
  BY <1>1, ConfigKept DEF IInv, PlaceInv, Judged, Busy, Before
<1>5. CoverInv'
  BY <1>1, ConfigKept DEF IInv, CoverInv, Judged, Busy, Before
<1>6. CountInv'
  <2>1. Failing' = Failing
    BY <1>1, ConfigKept DEF Failing, Pending
  <2> QED
    BY <1>1, <2>1 DEF IInv, CountInv
<1>7. JudgeInv'
  BY <1>1, ConfigKept DEF IInv, JudgeInv
<1> QED
  BY <1>2, <1>3, <1>4, <1>5, <1>6, <1>7 DEF IInv

(* A worker takes a link from the channel. *)
LEMMA ReceiveStep ==
  ASSUME IInv, NEW w \in Workers, Receive(w)
  PROVE  IInv'
<1>1. /\ UNCHANGED config /\ UNCHANGED <<gone, main, job, pos, exit>>
      /\ UNCHANGED <<passes, fails, accepted, messages>>
      /\ worker[w] = Idle
  BY DEF Receive, counts
<1>2. PICK id \in queue :
        /\ queue' = queue \ {id}
        /\ worker' = [worker EXCEPT ![w] = [at |-> "read", id |-> id]]
  BY DEF Receive
<1>3. worker[w].at = "idle" /\ id \in Links
  BY <1>1 DEF Idle, IInv, TypeOK
<1>4. \A v \in Workers : worker'[v] = IF v = w THEN [at |-> "read", id |-> id]
                                               ELSE worker[v]
  BY <1>2 DEF IInv, TypeOK
<1>5. TypeOK'
  <2>1. IsFiniteSet(queue') /\ Cardinality(queue') <= Cap
    <3>1. IsFiniteSet(queue) /\ Cardinality(queue) <= Cap
      BY DEF IInv, TypeOK
    <3>2. Cardinality(queue) \in Nat
      BY <3>1, FS_CardinalityType
    <3>3. IsFiniteSet(queue \ {id}) /\ Cardinality(queue \ {id}) = Cardinality(queue) - 1
      BY <3>1, FS_RemoveElement
    <3> QED
      BY <1>2, <3>1, <3>2, <3>3, LinkCheckAssumption
  <2>2. id \in Ids
    <3>1. id = <<id[1], id[2]>> /\ id[1] \in 1 .. Len(jobs) /\ id[2] \in Nat
      BY <1>3, LinkFacts, JobTypes DEF IInv
    <3> QED
      BY <3>1 DEF Ids
  <2>3. worker' \in [Workers -> [at : Places, id : Ids' \cup {<<0, 0>>}]]
    BY <1>1, <1>2, <2>2, ConfigKept DEF IInv, TypeOK, Ids, Places
  <2>4. queue' \subseteq Links'
    BY <1>1, <1>2, ConfigKept DEF IInv, TypeOK
  <2> QED
    BY <1>1, <2>1, <2>3, <2>4, ConfigKept DEF IInv, TypeOK, config, Ids
<1>6. ControlInv'
  BY <1>1, <1>2, <1>3, <1>4, ConfigKept DEF IInv, ControlInv
<1>7. PlaceInv'
  BY <1>1, <1>2, <1>3, <1>4, ConfigKept DEF IInv, PlaceInv, Judged, Busy, Before
<1>8. CoverInv'
  BY <1>1, <1>2, <1>3, <1>4, ConfigKept DEF IInv, CoverInv, Judged, Busy, Before
<1>9. CountInv'
  <2>1. Failing' = Failing
    BY <1>1, <1>3, <1>4, ConfigKept DEF Failing, Pending
  <2> QED
    BY <1>1, <2>1 DEF IInv, CountInv
<1>10. JudgeInv'
  BY <1>1, <1>4, ConfigKept DEF IInv, JudgeInv
<1> QED
  BY <1>5, <1>6, <1>7, <1>8, <1>9, <1>10 DEF IInv

(* A worker returns when the channel is closed and empty. *)
LEMMA ReturnStep ==
  ASSUME IInv, NEW w \in Workers, Return(w)
  PROVE  IInv'
<1>1. /\ UNCHANGED config /\ UNCHANGED <<gone, main, job, pos, queue, exit>>
      /\ UNCHANGED <<passes, fails, accepted, messages>>
      /\ worker[w] = Idle /\ queue = {} /\ main = "closed"
      /\ worker' = [worker EXCEPT ![w] = Done]
  BY DEF Return, counts
<1>2. worker[w].at = "idle" /\ Done.at = "done"
  BY <1>1 DEF Idle, Done
<1>3. \A v \in Workers : worker'[v] = IF v = w THEN Done ELSE worker[v]
  BY <1>1 DEF IInv, TypeOK
<1>4. TypeOK'
  BY <1>1, ConfigKept DEF IInv, TypeOK, config, Ids, Places, Done
<1>5. ControlInv'
  BY <1>1, <1>2, <1>3, ConfigKept DEF IInv, ControlInv
<1>6. PlaceInv'
  BY <1>1, <1>2, <1>3, ConfigKept DEF IInv, PlaceInv, Judged, Busy, Before
<1>7. CoverInv'
  BY <1>1, <1>2, <1>3, ConfigKept DEF IInv, CoverInv, Judged, Busy, Before
<1>8. CountInv'
  <2>1. Failing' = Failing
    BY <1>1, <1>2, <1>3, ConfigKept DEF Failing, Pending
  <2> QED
    BY <1>1, <2>1 DEF IInv, CountInv
<1>9. JudgeInv'
  BY <1>1, <1>2, <1>3, ConfigKept DEF IInv, JudgeInv
<1> QED
  BY <1>4, <1>5, <1>6, <1>7, <1>8, <1>9 DEF IInv

(* A worker goes on with its link. *)
LEMMA GoOnStep ==
  ASSUME IInv, NEW w \in Workers, NEW place \in {"stat", "open"},
         worker[w].at \in {"read", "stat"}, Goto(w, place),
         place = "open" => /\ At(worker[w].id).finds = "file"
                           /\ ~Refuses(At(worker[w].id)),
         UNCHANGED <<config, gone, main, job, pos, queue, counts, exit>>
  PROVE  IInv'
<1>1. /\ UNCHANGED config /\ UNCHANGED <<gone, main, job, pos, queue, exit>>
      /\ UNCHANGED <<passes, fails, accepted, messages>>
      /\ worker' = [worker EXCEPT ![w].at = place]
  BY DEF counts, Goto
<1>2. \A v \in Workers : /\ worker'[v].id = worker[v].id
                         /\ worker'[v].at = IF v = w THEN place ELSE worker[v].at
  BY <1>1 DEF IInv, TypeOK
<1>3. TypeOK'
  BY <1>1, ConfigKept DEF IInv, TypeOK, config, Ids, Places
<1>4. ControlInv'
  BY <1>1, <1>2, ConfigKept DEF IInv, ControlInv
<1>5. PlaceInv'
  BY <1>1, <1>2, ConfigKept DEF IInv, PlaceInv, Judged, Busy, Before
<1>6. CoverInv'
  BY <1>1, <1>2, ConfigKept DEF IInv, CoverInv, Judged, Busy, Before
<1>7. CountInv'
  <2>1. Failing' = Failing
    BY <1>1, <1>2, ConfigKept DEF Failing, Pending
  <2> QED
    BY <1>1, <2>1 DEF IInv, CountInv
<1>8. JudgeInv'
  BY <1>1, <1>2, ConfigKept DEF IInv, JudgeInv
<1> QED
  BY <1>3, <1>4, <1>5, <1>6, <1>7, <1>8 DEF IInv

(* Two workers never hold one link, so a worker's next message is new. *)
LEMMA HeldOnce ==
  ASSUME IInv, NEW w \in Workers, worker[w].at \in {"read", "stat", "open"}
  PROVE  worker[w].id \in Links /\ worker[w].id \notin Failing
<1>1. Busy(w) /\ worker[w].id \in Links /\ Before(worker[w].id)
  BY DEF IInv, PlaceInv, Busy
<1>2. worker[w].id \notin messages
  BY <1>1 DEF IInv, PlaceInv, Judged
<1>3. ~Before(<<job, pos>>)
  BY JobTypes DEF Before, IInv
<1>4. \A v \in Workers : worker[v].at = "add" => worker[v].id # worker[w].id
  BY <1>1 DEF IInv, PlaceInv, Busy
<1> QED
  BY <1>1, <1>2, <1>3, <1>4 DEF Failing, Pending

(* A worker counts a failure. *)
LEMMA FailStep ==
  ASSUME IInv, NEW w \in Workers, worker[w].at \in {"read", "stat", "open"}, Fail(w),
         worker[w].id \in gone \/ ~Good(At(worker[w].id)),
         UNCHANGED <<config, gone, main, job, pos, queue, exit>>
  PROVE  IInv'
<1>1. /\ UNCHANGED config /\ UNCHANGED <<gone, main, job, pos, queue, exit>>
      /\ UNCHANGED <<passes, accepted, messages>> /\ fails' = fails + 1
      /\ worker' = [worker EXCEPT ![w].at = "add"]
  BY DEF Fail, AddFail, Goto
<1>2. \A v \in Workers : /\ worker'[v].id = worker[v].id
                         /\ worker'[v].at = IF v = w THEN "add" ELSE worker[v].at
  BY <1>1 DEF IInv, TypeOK
<1>3. TypeOK'
  <2>1. worker' \in [Workers -> [at : Places, id : Ids' \cup {<<0, 0>>}]]
    BY <1>1, ConfigKept DEF IInv, TypeOK, Ids, Places
  <2>2. Links' = Links /\ Ids' = Ids /\ jobs' = jobs
    BY <1>1, ConfigKept DEF Ids
  <2>3. /\ passes' = passes /\ fails' \in Nat
        /\ accepted' = accepted /\ messages' = messages
    BY <1>1 DEF IInv, TypeOK
  <2> QED
    BY <1>1, <2>1, <2>2, <2>3 DEF IInv, TypeOK, config
<1>4. main # "ended"
  BY DEF IInv, ControlInv
<1>5. ControlInv'
  BY <1>1, <1>2, <1>4, ConfigKept DEF IInv, ControlInv
<1>6. PlaceInv'
  BY <1>1, <1>2, ConfigKept DEF IInv, PlaceInv, Judged, Busy, Before
<1>7. CoverInv'
  BY <1>1, <1>2, ConfigKept DEF IInv, CoverInv, Judged, Busy, Before
<1>8. CountInv'
  <2>1. Failing' = Failing \cup {worker[w].id}
    BY <1>1, <1>2, HeldOnce, ConfigKept DEF Failing, Pending
  <2>2. /\ IsFiniteSet(Failing')
        /\ Cardinality(Failing') = Cardinality(Failing) + 1
    BY <2>1, HeldOnce, FS_AddElement DEF IInv, CountInv
  <2> QED
    BY <1>1, <2>2 DEF IInv, CountInv
<1>9. JudgeInv'
  BY <1>1, <1>2, ConfigKept DEF IInv, JudgeInv
<1> QED
  BY <1>3, <1>5, <1>6, <1>7, <1>8, <1>9 DEF IInv

(* A worker passes its link. *)
LEMMA PassStep ==
  ASSUME IInv, NEW w \in Workers, worker[w].at \in {"read", "stat", "open"}, Pass(w),
         worker[w].id \in gone \/ Good(At(worker[w].id)),
         UNCHANGED <<config, gone, main, job, pos, queue, exit>>
  PROVE  IInv'
<1> DEFINE id == worker[w].id
<1>1. /\ UNCHANGED config /\ UNCHANGED <<gone, main, job, pos, queue, exit>>
      /\ UNCHANGED <<fails, messages>>
      /\ passes' = passes + 1 /\ accepted' = accepted \cup {id}
      /\ worker' = [worker EXCEPT ![w] = Idle]
  BY DEF Pass, AddPass
<1>2. \A v \in Workers : worker'[v] = IF v = w THEN Idle ELSE worker[v]
  BY <1>1 DEF IInv, TypeOK
<1>3. Idle.at = "idle" /\ Idle.id = <<0, 0>>
  BY DEF Idle
<1>4. id \in Links /\ Before(id) /\ id \notin queue \cup Judged /\ id \notin Failing
  BY HeldOnce DEF IInv, PlaceInv, Busy
<1>5. TypeOK'
  <2>1. id \in Ids
    <3>1. id = <<id[1], id[2]>> /\ id[1] \in 1 .. Len(jobs) /\ id[2] \in Nat
      BY <1>4, LinkFacts, JobTypes DEF IInv
    <3> QED
      BY <3>1 DEF Ids
  <2>2. worker' \in [Workers -> [at : Places, id : Ids' \cup {<<0, 0>>}]]
    BY <1>1, ConfigKept DEF IInv, TypeOK, Ids, Places, Idle
  <2> QED
    BY <1>1, <2>1, <2>2, ConfigKept DEF IInv, TypeOK, config, Ids
<1>6. ControlInv'
  BY <1>1, <1>2, <1>3, ConfigKept DEF IInv, ControlInv
<1>7. PlaceInv'
  BY <1>1, <1>2, <1>3, <1>4, ConfigKept DEF IInv, PlaceInv, Judged, Busy, Before
<1>8. CoverInv'
  BY <1>1, <1>2, <1>3, <1>4, ConfigKept DEF IInv, CoverInv, Judged, Busy, Before
<1>9. CountInv'
  <2>1. Failing' = Failing
    BY <1>1, <1>2, <1>3, ConfigKept DEF Failing, Pending
  <2>2. /\ IsFiniteSet(accepted')
        /\ Cardinality(accepted') = Cardinality(accepted) + 1
    BY <1>1, <1>4, FS_AddElement DEF IInv, CountInv, Judged
  <2> QED
    BY <1>1, <2>1, <2>2 DEF IInv, CountInv
<1>10. JudgeInv'
  BY <1>1, <1>2, <1>3, ConfigKept DEF IInv, JudgeInv
<1> QED
  BY <1>5, <1>6, <1>7, <1>8, <1>9, <1>10 DEF IInv

(* A worker keeps the message of the failure it has counted. *)
LEMMA AppendStep ==
  ASSUME IInv, NEW w \in Workers, AppendMessage(w)
  PROVE  IInv'
<1> DEFINE id == worker[w].id
<1>1. /\ UNCHANGED config /\ UNCHANGED <<gone, main, job, pos, queue, exit>>
      /\ UNCHANGED <<passes, fails, accepted>>
      /\ messages' = messages \cup {id}
      /\ worker' = [worker EXCEPT ![w] = Idle]
      /\ worker[w].at = "add"
  BY DEF AppendMessage, KeepMessage
<1>2. \A v \in Workers : worker'[v] = IF v = w THEN Idle ELSE worker[v]
  BY <1>1 DEF IInv, TypeOK
<1>3. Idle.at = "idle" /\ Idle.id = <<0, 0>>
  BY DEF Idle
<1>4. id \in Links /\ Before(id) /\ id \notin queue \cup Judged
  BY <1>1 DEF IInv, PlaceInv, Busy
<1>5. TypeOK'
  <2>1. id \in Ids
    <3>1. id = <<id[1], id[2]>> /\ id[1] \in 1 .. Len(jobs) /\ id[2] \in Nat
      BY <1>4, LinkFacts, JobTypes DEF IInv
    <3> QED
      BY <3>1 DEF Ids
  <2>2. worker' \in [Workers -> [at : Places, id : Ids' \cup {<<0, 0>>}]]
    BY <1>1, ConfigKept DEF IInv, TypeOK, Ids, Places, Idle
  <2> QED
    BY <1>1, <2>1, <2>2, ConfigKept DEF IInv, TypeOK, config, Ids
<1>6. ControlInv'
  BY <1>1, <1>2, <1>3, ConfigKept DEF IInv, ControlInv
<1>7. PlaceInv'
  BY <1>1, <1>2, <1>3, <1>4, ConfigKept DEF IInv, PlaceInv, Judged, Busy, Before
<1>8. CoverInv'
  BY <1>1, <1>2, <1>3, <1>4, ConfigKept DEF IInv, CoverInv, Judged, Busy, Before
<1>9. CountInv'
  <2>1. Failing' = Failing
    BY <1>1, <1>2, <1>3, <1>4, ConfigKept DEF Failing, Pending
  <2> QED
    BY <1>1, <2>1 DEF IInv, CountInv
<1>10. JudgeInv'
  BY <1>1, <1>2, <1>3, ConfigKept DEF IInv, JudgeInv
<1> QED
  BY <1>5, <1>6, <1>7, <1>8, <1>9, <1>10 DEF IInv

(* What the flags refuse is not good, and what they let pass is. *)
LEMMA RefusesRight ==
  ASSUME NEW l \in Entry, l.finds = "file", l.opens
  PROVE  Good(l) <=> ~Refuses(l)
<1>1. Escapes(l) <=> Leaves(l)
  BY DEF Entry, Escapes, Leaves
<1>2. l.target \in {"abs", "rel"}
  BY DEF Entry
<1> QED
  BY <1>1, <1>2 DEF Good, Refuses

(* Each step of a worker is one of these. *)
LEMMA WorkStep ==
  ASSUME IInv, NEW w \in Workers, Work(w)
  PROVE  IInv'
<1> DEFINE id == worker[w].id
           l == At(id)
<1>1. CASE Receive(w)
  BY <1>1, ReceiveStep
<1>2. CASE Return(w)
  BY <1>2, ReturnStep
<1>3. CASE Readlink(w)
  BY <1>3, FailStep, GoOnStep DEF Readlink
<1>4. CASE Stat(w) \/ Open(w)
  <2>1. l \in Entry /\ l.finds \in {"file", "nothing", "error"}
    BY <1>4, LinkFacts DEF IInv, PlaceInv, Busy, Stat, Open, Entry
  <2>2. CASE Stat(w)
    <3> DEFINE finds == IF id \in gone THEN "nothing" ELSE l.finds
    <3>1. worker[w].at = "stat" /\ UNCHANGED <<config, gone, main, job, pos, queue, exit>>
      BY <2>2 DEF Stat
    <3>2. CASE finds = "nothing" /\ allowDangling
      <4>1. Pass(w)
        BY <2>2, <3>2 DEF Stat
      <4>2. id \in gone \/ Good(l)
        BY <3>2 DEF Good
      <4> QED
        BY <3>1, <4>1, <4>2, PassStep
    <3>3. CASE finds = "file" /\ ~Refuses(l)
      <4>1. Goto(w, "open") /\ UNCHANGED counts
        BY <2>2, <3>3 DEF Stat
      <4> QED
        BY <3>1, <3>3, <4>1, GoOnStep
    <3>4. CASE ~(finds = "nothing" /\ allowDangling) /\ ~(finds = "file" /\ ~Refuses(l))
      <4>1. Fail(w)
        BY <2>2, <3>4 DEF Stat
      <4>2. id \in gone \/ ~Good(l)
        <5>1. CASE l.finds = "file"
          BY <2>1, <3>4, <5>1, RefusesRight DEF Good
        <5>2. CASE l.finds # "file"
          BY <2>1, <3>4, <5>2 DEF Good
        <5> QED
          BY <5>1, <5>2
      <4> QED
        BY <3>1, <4>1, <4>2, FailStep
    <3> QED
      BY <3>2, <3>3, <3>4
  <2>3. CASE Open(w)
    <3>1. /\ worker[w].at = "open"
          /\ UNCHANGED <<config, gone, main, job, pos, queue, exit>>
          /\ l.finds = "file" /\ ~Refuses(l)
      BY <2>3 DEF Open, IInv, JudgeInv
    <3>2. CASE l.opens /\ id \notin gone
      <4>1. Pass(w) /\ Good(l)
        BY <2>1, <2>3, <3>1, <3>2, RefusesRight DEF Open
      <4> QED
        BY <3>1, <4>1, PassStep
    <3>3. CASE ~(l.opens /\ id \notin gone)
      <4>1. Fail(w) /\ (id \in gone \/ ~Good(l))
        BY <2>3, <3>1, <3>3 DEF Open, Good
      <4> QED
        BY <3>1, <4>1, FailStep
    <3> QED
      BY <3>2, <3>3
  <2> QED
    BY <1>4, <2>2, <2>3
<1>5. CASE AppendMessage(w)
  BY <1>5, AppendStep
<1> QED
  BY <1>1, <1>2, <1>3, <1>4, <1>5 DEF Work
-----------------------------------------------------------------------------
(* The main goroutine. *)

(* A job starts, or cannot. *)
LEMMA StartStep ==
  ASSUME IInv, StartJob
  PROVE  IInv'
<1>1. /\ UNCHANGED config /\ UNCHANGED <<gone, job, queue, exit>>
      /\ main = "start" /\ job <= Len(jobs) /\ pos = 0 /\ exit = -1
      /\ queue = {} /\ \A w \in Workers : worker[w].at = "done"
      /\ job \in 1 .. Len(jobs)
  BY JobTypes DEF StartJob, IInv, ControlInv
<1>2. \A id \in Links : ~(id[1] = job /\ id[2] < 1)
  BY LinkFacts, JobTypes DEF IInv
<1>3. \A w \in Workers : ~Busy(w)
  BY <1>1 DEF Busy
<1>4. CASE jobs[job].ok
  <2>1. /\ main' = "walk" /\ pos' = 1 /\ worker' = [w \in Workers |-> Idle]
        /\ UNCHANGED <<passes, fails, accepted, messages>>
    BY <1>1, <1>4 DEF StartJob, counts
  <2>2. \A w \in Workers : worker'[w].at = "idle"
    BY <2>1 DEF Idle
  <2>3. \A id \in Links \cup Problems : Before(id)' <=> Before(id)
    BY <1>1, <1>2, <1>4, <2>1, LinkFacts, ProblemFacts, JobTypes DEF Before, IInv
  <2>4. TypeOK'
    BY <1>1, <2>1, ConfigKept DEF IInv, TypeOK, config, Ids, Places, Idle
  <2>5. ControlInv'
    BY <1>1, <1>4, <2>1, <2>2, JobTypes, ConfigKept DEF IInv, ControlInv
  <2>6. PlaceInv'
    BY <1>1, <2>1, <2>2, <2>3, ConfigKept DEF IInv, PlaceInv, Judged, Busy
  <2>7. CoverInv'
    BY <1>1, <1>3, <2>1, <2>2, <2>3, ConfigKept DEF IInv, CoverInv, Judged
  <2>8. CountInv'
    <3>1. Failing' = Failing
      BY <1>1, <2>1, <2>2, ConfigKept DEF Failing, Pending
    <3> QED
      BY <2>1, <3>1 DEF IInv, CountInv
  <2>9. JudgeInv'
    BY <1>1, <2>1, <2>2, ConfigKept DEF IInv, JudgeInv
  <2> QED
    BY <2>4, <2>5, <2>6, <2>7, <2>8, <2>9 DEF IInv
<1>5. CASE ~jobs[job].ok
  <2>1. /\ main' = "add" /\ pos' = pos /\ worker' = worker /\ fails' = fails + 1
        /\ UNCHANGED <<passes, accepted, messages>>
    BY <1>1, <1>5 DEF StartJob, AddFail
  <2>2. TypeOK'
    BY <1>1, <2>1, ConfigKept DEF IInv, TypeOK, config, Ids
  <2>3. ControlInv'
    BY <1>1, <1>5, <2>1, ConfigKept DEF IInv, ControlInv
  <2>4. PlaceInv'
    BY <1>1, <2>1, ConfigKept DEF IInv, PlaceInv, Judged, Busy, Before
  <2>5. CoverInv'
    BY <1>1, <2>1, ConfigKept DEF IInv, CoverInv, Judged, Busy, Before
  <2>6. CountInv'
    <3>1. <<job, pos>> \in Problems
      BY <1>1, <1>5, ProblemFacts DEF IInv
    <3>2. Failing' = Failing \cup {<<job, pos>>}
      BY <1>1, <2>1, <3>1, ConfigKept DEF Failing, Pending
    <3>3. ~Before(<<job, pos>>)
      BY JobTypes DEF Before, IInv
    <3>4. <<job, pos>> \notin Failing
      BY <1>1, <3>3 DEF Failing, Pending, IInv, PlaceInv, Judged
    <3>5. /\ IsFiniteSet(Failing')
          /\ Cardinality(Failing') = Cardinality(Failing) + 1
      BY <3>2, <3>4, FS_AddElement DEF IInv, CountInv
    <3> QED
      BY <2>1, <3>5 DEF IInv, CountInv
  <2>7. JudgeInv'
    BY <1>1, <2>1, ConfigKept DEF IInv, JudgeInv
  <2> QED
    BY <2>2, <2>3, <2>4, <2>5, <2>6, <2>7 DEF IInv
<1> QED
  BY <1>4, <1>5

(* The walk goes on: what is behind it has its place, and so has the next. *)
LEMMA WalkOn ==
  ASSUME IInv, Walking,
         UNCHANGED <<config, main, job, worker, counts, exit>>,
         gone' = gone, pos' = pos + 1,
         \/ queue' = queue /\ (<<job, pos>> \in Links => <<job, pos>> \in gone)
         \/ queue' = queue \cup {<<job, pos>>} /\ <<job, pos>> \in Links /\ ~Full,
         <<job, pos>> \notin Problems
  PROVE  IInv'
<1>1. /\ UNCHANGED config /\ UNCHANGED <<main, job, worker, exit>>
      /\ UNCHANGED <<passes, fails, accepted, messages>>
      /\ main = "walk" /\ pos \in Nat \ {0} /\ job \in 1 .. Len(jobs)
  BY JobTypes DEF counts, Walking, IInv, ControlInv
<1>2. \A id \in Links \cup Problems : Before(id)' <=> Before(id) \/ id = <<job, pos>>
  BY <1>1, LinkFacts, ProblemFacts, JobTypes DEF Before, IInv
<1>3. ~Before(<<job, pos>>)
  BY <1>1 DEF Before
<1>4. TypeOK'
  <2>1. IsFiniteSet(queue') /\ Cardinality(queue') <= Cap
    <3>1. IsFiniteSet(queue) /\ Cardinality(queue) <= Cap
      BY DEF IInv, TypeOK
    <3>2. Cardinality(queue) \in Nat
      BY <3>1, FS_CardinalityType
    <3>3. /\ IsFiniteSet(queue \cup {<<job, pos>>})
          /\ Cardinality(queue \cup {<<job, pos>>}) =
               IF <<job, pos>> \in queue THEN Cardinality(queue) ELSE Cardinality(queue) + 1
      BY <3>1, FS_AddElement
    <3>4. ~Full => Cardinality(queue \cup {<<job, pos>>}) <= Cap
      BY <3>2, <3>3, LinkCheckAssumption DEF Full
    <3> QED
      BY <3>1, <3>3, <3>4
  <2>2. queue' \subseteq Links'
    BY <1>1, ConfigKept DEF IInv, TypeOK
  <2> QED
    BY <1>1, <2>1, <2>2, ConfigKept DEF IInv, TypeOK, config, Ids
<1>5. ControlInv'
  BY <1>1, ConfigKept DEF IInv, ControlInv
<1>6. PlaceInv'
  <2>1. <<job, pos>> \notin queue \cup Judged
    BY <1>3 DEF IInv, PlaceInv
  <2>2. \A w \in Workers : Busy(w) => worker[w].id # <<job, pos>>
    BY <1>3 DEF IInv, PlaceInv
  <2>3. queue \subseteq Links
    BY DEF IInv, TypeOK
  <2> QED
    BY <1>1, <1>2, <2>1, <2>2, <2>3, ConfigKept DEF IInv, PlaceInv, Judged, Busy
<1>7. CoverInv'
  BY <1>1, <1>2, ConfigKept DEF IInv, CoverInv, Judged, Busy
<1>8. CountInv'
  <2>1. Failing' = Failing
    BY <1>1, ConfigKept DEF Failing, Pending
  <2> QED
    BY <1>1, <2>1 DEF IInv, CountInv
<1>9. JudgeInv'
  BY <1>1, ConfigKept DEF IInv, JudgeInv
<1> QED
  BY <1>4, <1>5, <1>6, <1>7, <1>8, <1>9 DEF IInv

(* The next entry is passed over, or sent. *)
LEMMA SkipSendStep ==
  ASSUME IInv, Skip \/ Send
  PROVE  IInv'
<1>1. /\ Walking /\ UNCHANGED <<config, main, job, worker, counts, exit>>
      /\ gone' = gone /\ pos' = pos + 1
  BY DEF Skip, Send
<1>2. /\ main = "walk" /\ pos \in 1 .. Len(jobs[job].entries)
      /\ job \in 1 .. Len(jobs) /\ jobs[job].ok
  BY <1>1, JobTypes DEF Walking, IInv, ControlInv
<1>3. At(<<job, pos>>) = Here /\ Here.kind # "missing"
  BY DEF At, Here, Skip, Send
<1>4. <<job, pos>> \notin Problems
  BY <1>2, <1>3, ProblemFacts DEF IInv, Here
<1>5. CASE Skip
  <2>1. queue' = queue /\ (<<job, pos>> \in Links => <<job, pos>> \in gone)
    BY <1>3, <1>5, LinkFacts DEF Skip, IInv
  <2> QED
    BY <1>1, <1>4, <2>1, WalkOn
<1>6. CASE Send
  <2>1. queue' = queue \cup {<<job, pos>>} /\ <<job, pos>> \in Links /\ ~Full
    BY <1>2, <1>6, LinkFacts DEF Send, Here, IInv
  <2> QED
    BY <1>1, <1>4, <2>1, WalkOn
<1> QED
  BY <1>5, <1>6

(* A package that is not installed is counted, then logged. *)
LEMMA NotInstalledStep ==
  ASSUME IInv, NotInstalled
  PROVE  IInv'
<1>1. /\ UNCHANGED config /\ UNCHANGED <<gone, job, pos, queue, worker, exit>>
      /\ UNCHANGED <<passes, accepted, messages>> /\ fails' = fails + 1
      /\ main = "walk" /\ main' = "add"
  BY DEF NotInstalled, Walking, AddFail
<1>2. /\ job \in 1 .. Len(jobs) /\ jobs[job].ok /\ pos \in 1 .. Len(jobs[job].entries)
      /\ jobs[job].entries[pos].kind = "missing"
  BY JobTypes DEF NotInstalled, Walking, Here, IInv, ControlInv
<1>3. TypeOK'
  BY <1>1, <1>2, ConfigKept DEF IInv, TypeOK, config, Ids
<1>4. ControlInv'
  BY <1>1, <1>2, ConfigKept DEF IInv, ControlInv
<1>5. PlaceInv'
  BY <1>1, ConfigKept DEF IInv, PlaceInv, Judged, Busy, Before
<1>6. CoverInv'
  BY <1>1, ConfigKept DEF IInv, CoverInv, Judged, Busy, Before
<1>7. CountInv'
  <2>1. <<job, pos>> \in Problems
    BY <1>2, ProblemFacts DEF IInv
  <2>2. Failing' = Failing \cup {<<job, pos>>}
    BY <1>1, <2>1, ConfigKept DEF Failing, Pending
  <2>3. ~Before(<<job, pos>>)
    BY JobTypes DEF Before, IInv
  <2>4. <<job, pos>> \notin Failing
    <3>1. \A w \in Workers : worker[w].at = "add" => Before(worker[w].id)
      BY DEF IInv, PlaceInv, Busy
    <3> QED
      BY <1>1, <2>3, <3>1 DEF Failing, Pending, IInv, PlaceInv, Judged
  <2>5. /\ IsFiniteSet(Failing')
        /\ Cardinality(Failing') = Cardinality(Failing) + 1
    BY <2>2, <2>4, FS_AddElement DEF IInv, CountInv
  <2> QED
    BY <1>1, <2>5 DEF IInv, CountInv
<1>8. JudgeInv'
  BY <1>1, ConfigKept DEF IInv, JudgeInv
<1> QED
  BY <1>3, <1>4, <1>5, <1>6, <1>7, <1>8 DEF IInv

(* The message of the main goroutine is kept. *)
LEMMA LogStep ==
  ASSUME IInv, Log
  PROVE  IInv'
<1> DEFINE here == <<job, pos>>
<1>1. /\ UNCHANGED config /\ UNCHANGED <<gone, queue, worker, exit>>
      /\ UNCHANGED <<passes, fails, accepted>> /\ messages' = messages \cup {here}
      /\ main = "add" /\ job \in 1 .. Len(jobs) /\ pos \in Nat /\ exit = -1
      /\ \/ pos = 0 /\ main' = "start" /\ job' = job + 1 /\ pos' = 0
         \/ pos # 0 /\ main' = "walk" /\ pos' = pos + 1 /\ job' = job
  BY JobTypes DEF Log, KeepMessage, IInv, ControlInv
<1>2. here \in Problems /\ here \notin Links
  BY <1>1, ProblemFacts, JobTypes DEF IInv, ControlInv
<1>3. \A id \in Links \cup Problems : Before(id)' <=> Before(id) \/ id = here
  <2>1. CASE pos = 0
    BY <1>1, <2>1, LinkFacts, ProblemFacts, JobTypes DEF Before, IInv, ControlInv
  <2>2. CASE pos # 0
    BY <1>1, <2>2, LinkFacts, ProblemFacts, JobTypes DEF Before, IInv, ControlInv
  <2> QED BY <2>1, <2>2
<1>4. ~Before(here)
  BY <1>1 DEF Before
<1>5. here \in Ids /\ Ids' = Ids
  BY <1>1, ConfigKept DEF Ids
<1>6. TypeOK'
  <2>1. /\ main' \in {"start", "walk"} /\ job' \in 1 .. Len(jobs) + 1 /\ pos' \in Nat
        /\ main' = "walk" => job' <= Len(jobs)
    BY <1>1, JobTypes DEF IInv
  <2>2. worker' \in [Workers -> [at : Places, id : Ids' \cup {<<0, 0>>}]]
    BY <1>1, <1>5 DEF IInv, TypeOK
  <2>3. gone' \subseteq Links' /\ queue' \subseteq Links' /\ jobs' = jobs
    BY <1>1, ConfigKept DEF IInv, TypeOK
  <2> QED
    BY <1>1, <1>5, <2>1, <2>2, <2>3 DEF IInv, TypeOK, config
<1>7. ControlInv'
  BY <1>1, ConfigKept DEF IInv, ControlInv
<1>8. PlaceInv'
  <2>1. queue \subseteq Links
    BY DEF IInv, TypeOK
  <2> QED
    BY <1>1, <1>2, <1>3, <1>4, <2>1, ConfigKept DEF IInv, PlaceInv, Judged, Busy
<1>9. CoverInv'
  BY <1>1, <1>2, <1>3, ConfigKept DEF IInv, CoverInv, Judged, Busy
<1>10. CountInv'
  <2>1. Failing' = Failing
    BY <1>1, <1>2, ConfigKept DEF Failing, Pending
  <2> QED
    BY <1>1, <2>1 DEF IInv, CountInv
<1>11. JudgeInv'
  BY <1>1, <1>2, ConfigKept DEF IInv, JudgeInv
<1> QED
  BY <1>6, <1>7, <1>8, <1>9, <1>10, <1>11 DEF IInv

(* The walk is over; its pool is joined; all jobs are done. *)
LEMMA EndStep ==
  ASSUME IInv, Close \/ Join \/ Exit
  PROVE  IInv'
<1>1. /\ UNCHANGED config /\ UNCHANGED <<gone, queue, worker>>
      /\ UNCHANGED <<passes, fails, accepted, messages>>
      /\ main \notin {"add", "ended"} /\ main' # "add" /\ exit = -1
  BY DEF Close, Join, Exit, counts, IInv, ControlInv
<1>2. Join => queue = {} /\ \A w \in Workers : worker[w].at = "done"
  BY LinkCheckAssumption DEF Join, Joined, Done, IInv, ControlInv
<1>3. TypeOK' /\ ControlInv'
  <2>1. CASE Close
    BY <1>1, <2>1, ConfigKept, JobTypes DEF Close, IInv, TypeOK, ControlInv, config, Ids
  <2>2. CASE Join
    BY <1>1, <1>2, <2>2, ConfigKept, JobTypes DEF Join, IInv, TypeOK, ControlInv, config, Ids
  <2>3. CASE Exit
    BY <1>1, <2>3, ConfigKept, JobTypes DEF Exit, IInv, TypeOK, ControlInv, config, Ids
  <2> QED
    BY <2>1, <2>2, <2>3
<1>4. \A id \in Links \cup Problems : Before(id)' <=> Before(id)
  <2>1. CASE Close \/ Exit
    BY <2>1 DEF Close, Exit, Before
  <2>2. CASE Join
    <3>1. /\ job' = job + 1 /\ pos' = 0 /\ jobs[job].ok
          /\ pos > Len(jobs[job].entries) /\ job \in 1 .. Len(jobs) /\ pos \in Nat
      BY <2>2, JobTypes DEF Join, IInv, ControlInv
    <3> QED
      BY <3>1, LinkFacts, ProblemFacts, JobTypes DEF Before, IInv
  <2> QED
    BY <2>1, <2>2
<1>5. PlaceInv' /\ CoverInv'
  <2>1. queue \subseteq Links
    BY DEF IInv, TypeOK
  <2> QED
    BY <1>1, <1>4, <2>1, ConfigKept DEF IInv, PlaceInv, CoverInv, Judged, Busy
<1>6. CountInv'
  <2>1. Failing' = Failing
    BY <1>1, ConfigKept DEF Failing, Pending
  <2> QED
    BY <1>1, <2>1 DEF IInv, CountInv
<1>7. JudgeInv'
  BY <1>1, ConfigKept DEF IInv, JudgeInv
<1> QED
  BY <1>3, <1>5, <1>6, <1>7 DEF IInv

-----------------------------------------------------------------------------
(* The theorems. *)

(* Each link is in one place, and counted for what it is, in every state.  *)
THEOREM Invariance == Spec => []IInv
<1>1. Init => IInv
  BY InitInv
<1>2. IInv /\ [Next]_vars => IInv'
  <2> SUFFICES ASSUME IInv, [Next]_vars PROVE IInv'
    OBVIOUS
  <2>1. CASE Main
    BY <2>1, StartStep, SkipSendStep, NotInstalledStep, LogStep, EndStep DEF Main
  <2>2. CASE Remove
    BY <2>2, RemoveStep
  <2>3. CASE \E w \in Workers : Work(w)
    BY <2>3, WorkStep
  <2>4. CASE UNCHANGED vars
    <3>1. /\ UNCHANGED config
          /\ UNCHANGED <<gone, main, job, pos, queue, worker, exit>>
          /\ UNCHANGED <<passes, fails, accepted, messages>>
      BY <2>4 DEF vars, counts
    <3>2. Failing' = Failing
      BY <3>1, ConfigKept DEF Failing, Pending
    <3>3. TypeOK' /\ ControlInv'
      BY <3>1, ConfigKept DEF IInv, TypeOK, ControlInv, config, Ids
    <3>4. PlaceInv' /\ CoverInv'
      BY <3>1, ConfigKept DEF IInv, PlaceInv, CoverInv, Judged, Busy, Before
    <3>5. CountInv' /\ JudgeInv'
      BY <3>1, <3>2, ConfigKept DEF IInv, CountInv, JudgeInv
    <3> QED
      BY <3>3, <3>4, <3>5 DEF IInv
  <2> QED
    BY <2>1, <2>2, <2>3, <2>4 DEF Next
<1> QED
  BY <1>1, <1>2, PTL DEF Spec

(* Every variable keeps its type, and the channel its capacity.            *)
THEOREM TypeCorrect == Spec => []TypeOK
<1>1. IInv => TypeOK
  BY DEF IInv
<1> QED
  BY <1>1, Invariance, PTL

(* At the end the walk has met every link, and nobody holds one.           *)
LEMMA AllOver ==
  ASSUME IInv, main = "ended"
  PROVE  /\ queue = {} /\ Failing = messages
         /\ \A w \in Workers : worker[w].at = "done"
         /\ \A id \in Links \cup Problems : Before(id)
<1>1. queue = {} /\ (\A w \in Workers : worker[w].at = "done") /\ job > Len(jobs)
  BY DEF IInv, ControlInv
<1>2. \A id \in Links \cup Problems : Before(id)
  BY <1>1, LinkFacts, ProblemFacts, JobTypes DEF Before, IInv
<1>3. Failing = messages
  BY <1>1 DEF Failing, Pending, IInv, PlaceInv
<1> QED
  BY <1>1, <1>2, <1>3

(* Every link that stayed is judged once, and the counters agree.          *)
THEOREM LinksJudged == Spec => []AllJudged
<1>1. IInv => AllJudged
  <2> SUFFICES ASSUME IInv, main = "ended"
               PROVE  /\ accepted \cap messages = {}
                      /\ Links \ gone \subseteq accepted \cup messages
                      /\ accepted \subseteq Links /\ messages \subseteq Links \cup Problems
                      /\ Problems \subseteq messages
                      /\ passes = Cardinality(accepted) /\ fails = Cardinality(messages)
    BY DEF AllJudged
  <2>1. Links \ gone \subseteq accepted \cup messages
    BY AllOver DEF IInv, CoverInv, Judged, Busy
  <2> QED
    BY <2>1, AllOver DEF IInv, CoverInv, CountInv, PlaceInv
<1> QED
  BY <1>1, Invariance, PTL

(* The exit code of the process says what there is, whoever judged it.     *)
THEOREM ExitCodeEarned == Spec => []ExitEarned
<1>1. IInv => ExitEarned
  <2> SUFFICES ASSUME IInv, main = "ended" PROVE ExitEarned
    BY DEF IInv, ControlInv, ExitEarned
  <2>1. fails = Cardinality(messages) /\ IsFiniteSet(messages) /\ fails \in Nat
    BY AllOver DEF IInv, CountInv, TypeOK
  <2>2. fails = 0 <=> messages = {}
    BY <2>1, FS_EmptySet
  <2>3. exit = IF fails > 0 THEN 1 ELSE 0
    BY DEF IInv, ControlInv
  <2>4. Problems \subseteq messages
    BY AllOver DEF IInv, CoverInv
  <2>5. CASE messages = {}
    <3>1. exit = 0 /\ Problems = {}
      BY <2>2, <2>3, <2>4, <2>5
    <3>2. \A id \in Links \ gone : id \in accepted
      BY <2>5, AllOver DEF IInv, CoverInv, Judged, Busy
    <3> QED
      BY <3>1, <3>2 DEF IInv, JudgeInv, ExitEarned
  <2>6. CASE messages # {}
    <3>1. exit = 1
      BY <2>1, <2>2, <2>3, <2>6
    <3>2. PICK id \in messages : id \in Links \/ id \in Problems
      BY <2>6 DEF IInv, PlaceInv
    <3>3. id \in Links => id \in gone \/ ~Good(At(id))
      BY DEF IInv, JudgeInv
    <3> QED
      BY <3>1, <3>2, <3>3 DEF ExitEarned
  <2> QED
    BY <2>5, <2>6
<1> QED
  BY <1>1, Invariance, PTL
=============================================================================
