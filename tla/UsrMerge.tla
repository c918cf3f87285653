------------------------------ MODULE UsrMerge ------------------------------
(***************************************************************************)
(* usrmerge-tool moves the entries of bin, sbin and usr/sbin to usr/bin:   *)
(* a file is renamed, a link is made anew with a target that fits its new  *)
(* directory and then removed.  Each call to the file system is a step; an *)
(* I/O error or a signal may end the run before any of them, and the tool  *)
(* may be run again.  A path is a sequence of names; a file is known by    *)
(* the place it had at first.  usr holds no other entries: with them it is *)
(* never removed.                                                          *)
(***************************************************************************)
EXTENDS Naturals, Sequences, SequencesExt, FiniteSets

CONSTANTS
  Names,        \* names of entries
  Texts,        \* targets of links: [abs : BOOLEAN, segs : path]
  Root,         \* path of destdir
  NewDir,       \* "usr/bin", as a path
  Sources,      \* the directories the flags can move, as paths
  Commands,     \* the moves of a command line, in its order
  MaxEntries,   \* bound: entries of the first tree
  MaxRuns       \* bound: runs of the tool
-----------------------------------------------------------------------------
(* Paths, as path/filepath has them.                                       *)

Enter(q, s) == IF s \notin {".", ".."} THEN Append(q, s)
               ELSE IF s = "." \/ q = <<>> THEN q ELSE Front(q)

(* Clean of a rooted path. *)
Clean(p) ==
  LET f[k \in 0 .. Len(p)] ==
        IF k = 0 THEN <<>> ELSE Enter(f[k - 1], p[k])
  IN f[Len(p)]

(* Rel of two clean paths. *)
Rel(base, path) ==
  LET k == Len(LongestCommonPrefix({base, path}))
  IN [i \in 1 .. Len(base) - k |-> ".."] \o SubSeq(path, k + 1, Len(path))

(* Where a link in directory d leads, under the root.  The elements ".."   *)
(* of Rel are skipped: they come first, where Clean drops them.            *)
ResolveUnderRoot(d, t) ==
  LET candidate == IF t.abs THEN Root \o Clean(t.segs)
                   ELSE Clean(Root \o d \o t.segs)
  IN Clean(Rel(Root, candidate))

(* newLinkDest: the target of the link once it is in usr/bin. *)
NewLinkDest_Text(d, t, equivs) == t  \* fault: the target stays as it was
NewLinkDest(d, t, equivs) ==
  LET dest == ResolveUnderRoot(d, t)
      text == IF dest = <<>> THEN Rel(NewDir, <<>>)
              ELSE IF Front(dest) \in equivs \cup {NewDir} THEN <<Last(t.segs)>>
              ELSE Rel(NewDir, Clean(Append(Front(dest), Last(t.segs))))
  IN [abs |-> FALSE, segs |-> text]
-----------------------------------------------------------------------------
Dirs == Sources \cup {NewDir}
Segment == STRING \ {".", ".."}
Element == Segment \cup {".", ".."}

(* A target is "/", or else it is not empty; Names has every name that a   *)
(* target ends in.                                                         *)
ASSUME UsrMergeAssumption ==
  /\ IsFiniteSet(Sources) /\ IsFiniteSet(Names)
  /\ NewDir \notin Sources
  /\ {Root, NewDir} \cup Sources \subseteq Seq(Segment)
  /\ Names \subseteq Segment
  /\ \A t \in Texts :
       /\ t \in [abs : BOOLEAN, segs : Seq(Element)]
       /\ IF t.segs = <<>> THEN t.abs ELSE Last(t.segs) \in Names \cup {".", ".."}
  /\ Commands \subseteq Seq(Sources)
  /\ MaxRuns \in Nat /\ MaxEntries \in Nat

Places == Dirs \X Names
None == [kind |-> "none"]
File(place) == [kind |-> "file", id |-> place]
Link(t) == [kind |-> "link", text |-> t]

VARIABLES
  moves,        \* the sources on the command line
  dir,          \* a directory of Dirs is "dir", "none", a link with the
                \* text usr/bin ("merged") or another link ("alien")
  usr,          \* usr exists
  tree,         \* what is at each place
  pc, m, todo,  \* position, move at hand, entries of ReadDir left
  name,         \* the link between Symlink and Remove
  outcome,      \* of the last run: "none", "ok" or "failed"
  interrupted,  \* a run was ended by an I/O error or a signal (history)
  done,         \* a run has succeeded (history)
  tree0,        \* the first tree (history)
  runs          \* runs so far, for the bound

fs == <<dir, usr, tree>>
past == <<moves, interrupted, tree0, runs>>
vars == <<fs, past, pc, m, todo, name, outcome, done>>

Entries == {File(p) : p \in Places} \cup {Link(t) : t \in Texts}

(* A package has a few entries, in the directories it has. *)
Init ==
  /\ moves \in Commands
  /\ dir \in [Dirs -> {"dir", "none", "merged", "alien"}]
  /\ dir[NewDir] \in {"dir", "none"}
  /\ usr \in BOOLEAN
  /\ ~usr => \A d \in Dirs : Len(d) > 1 => dir[d] = "none"
  /\ \E S \in SUBSET {p \in Places : dir[p[1]] = "dir"} :
       /\ Cardinality(S) <= MaxEntries
       /\ \E f \in [S -> Entries] :
            /\ \A p \in S : f[p].kind = "file" => f[p].id = p
            /\ tree = [p \in Places |-> IF p \in S THEN f[p] ELSE None]
  /\ pc = "idle" /\ m = 1 /\ todo = {} /\ name \in Names
  /\ outcome = "none" /\ interrupted = FALSE /\ done = FALSE
  /\ tree0 = tree /\ runs = 0

src == moves[m]
In_Files(d) ==                         \* fault: links are not seen
  {n \in Names : tree[<<d, n>>].kind = "file"}
In(d) == {n \in Names : tree[<<d, n>>] # None}

(* mergeRoot returns. *)
Return(result) ==
  /\ pc' = "idle" /\ outcome' = result
  /\ done' = (done \/ result = "ok")

Start ==
  /\ pc = "idle"
  /\ runs < MaxRuns
  /\ runs' = runs + 1
  /\ pc' = "next" /\ m' = 1 /\ outcome' = "none"
  /\ UNCHANGED <<fs, moves, interrupted, tree0, todo, name, done>>

AllMoved ==
  /\ pc = "next" /\ m > Len(moves)
  /\ Return("ok")
  /\ UNCHANGED <<fs, past, m, todo, name>>

Skipped_Link(d) == dir[d] = "merged"   \* fault: an absent directory is moved
Skipped(d) == dir[d] \in {"none", "merged"}

SkipMove ==
  /\ pc = "next" /\ m <= Len(moves) /\ Skipped(src)
  /\ m' = m + 1
  /\ UNCHANGED <<fs, past, pc, todo, name, outcome, done>>

AlienLink ==
  /\ pc = "next" /\ m <= Len(moves) /\ dir[src] = "alien"
  /\ Return("failed")
  /\ UNCHANGED <<fs, past, m, todo, name>>

(* MkdirAll of usr/bin, and ReadDir. *)
StartMove ==
  /\ pc = "next" /\ m <= Len(moves) /\ ~Skipped(src) /\ dir[src] # "alien"
  /\ dir' = [dir EXCEPT ![NewDir] = "dir"]
  /\ usr' = TRUE
  /\ todo' = In(src)
  /\ pc' = "move"
  /\ UNCHANGED <<tree, past, m, name, outcome, done>>

Renamed_Copy(n) ==                     \* fault: the file is copied
  [tree EXCEPT ![<<NewDir, n>>] = tree[<<src, n>>]]
Renamed(n) ==
  [tree EXCEPT ![<<NewDir, n>>] = tree[<<src, n>>], ![<<src, n>>] = None]

(* Rename replaces what has the name in usr/bin. *)
RenameFile ==
  /\ pc = "move"
  /\ \E n \in todo :
       /\ tree[<<src, n>>].kind = "file"
       /\ tree' = Renamed(n)
       /\ todo' = todo \ {n}
  /\ UNCHANGED <<dir, usr, past, pc, m, name, outcome, done>>

Relinked(n) ==
  Link(NewLinkDest(src, tree[<<src, n>>].text, ToSet(moves)))

(* Symlink does not replace. *)
Relink ==
  /\ pc = "move"
  /\ \E n \in todo :
       /\ tree[<<src, n>>].kind = "link"
       /\ tree[<<NewDir, n>>] = None
       /\ tree' = [tree EXCEPT ![<<NewDir, n>>] = Relinked(n)]
       /\ name' = n
  /\ pc' = "remove"
  /\ UNCHANGED <<dir, usr, past, m, todo, outcome, done>>

RelinkFails ==
  /\ pc = "move"
  /\ \E n \in todo : /\ tree[<<src, n>>].kind = "link"
                     /\ tree[<<NewDir, n>>] # None
  /\ Return("failed")
  /\ UNCHANGED <<fs, past, m, todo, name>>

Removed_Nothing == tree                \* fault: the old link stays
Removed == [tree EXCEPT ![<<src, name>>] = None]

RemoveLink ==
  /\ pc = "remove"
  /\ tree' = Removed
  /\ todo' = todo \ {name}
  /\ pc' = "move"
  /\ UNCHANGED <<dir, usr, past, m, name, outcome, done>>

RemoveSource ==
  /\ pc = "move" /\ todo = {}
  /\ IF In(src) = {}
     THEN /\ dir' = [dir EXCEPT ![src] = "none"]
          /\ pc' = "dest"
          /\ UNCHANGED <<outcome, done>>
     ELSE Return("failed") /\ UNCHANGED dir
  /\ UNCHANGED <<usr, tree, past, m, todo, name>>

RemoveEmptyDest ==
  /\ pc = "dest"
  /\ dir' = IF In(NewDir) = {} THEN [dir EXCEPT ![NewDir] = "none"] ELSE dir
  /\ pc' = "usr"
  /\ UNCHANGED <<usr, tree, past, m, todo, name, outcome, done>>

UsrEmpty == \A d \in Dirs : Len(d) > 1 => dir[d] = "none"

RemoveEmptyUsr ==
  /\ pc = "usr"
  /\ usr' = (usr /\ ~UsrEmpty)
  /\ pc' = "next" /\ m' = m + 1
  /\ UNCHANGED <<dir, tree, past, todo, name, outcome, done>>

(* An I/O error or a signal: nothing is undone. *)
Interrupt ==
  /\ pc # "idle"
  /\ Return("failed")
  /\ interrupted' = TRUE
  /\ UNCHANGED <<fs, moves, tree0, runs, m, todo, name>>

Next ==
  \/ Start \/ AllMoved
  \/ SkipMove \/ AlienLink \/ StartMove
  \/ RenameFile \/ Relink \/ RelinkFails \/ RemoveLink
  \/ RemoveSource \/ RemoveEmptyDest \/ RemoveEmptyUsr
  \/ Interrupt

Spec == Init /\ [][Next]_vars
-----------------------------------------------------------------------------
(* Properties.                                                             *)

(* Every variable keeps its type, and an entry has a directory. *)
TypeOK ==
  /\ moves \in Commands
  /\ dir \in [Dirs -> {"dir", "none", "merged", "alien"}]
  /\ usr \in BOOLEAN
  /\ \A p \in Places : /\ tree[p].kind \in {"none", "file", "link"}
                       /\ tree[p] # None => dir[p[1]] = "dir"
  /\ pc \in {"idle", "next", "move", "remove", "dest", "usr"}
  /\ m \in 1 .. Len(moves) + 1
  /\ todo \subseteq Names /\ name \in Names
  /\ outcome \in {"none", "ok", "failed"}
  /\ interrupted \in BOOLEAN /\ done \in BOOLEAN /\ runs \in 0 .. MaxRuns

Merging == ToSet(moves)
NewPlace(p) == IF p[1] \in Merging THEN <<NewDir, p[2]>> ELSE p

(* No name is in two of the directories that are merged. *)
NamesDistinct ==
  \A p, q \in Places : /\ tree0[p] # None /\ tree0[q] # None /\ p # q
                       => NewPlace(p) # NewPlace(q)

(* At every step of every run each file is in one place, its old or its    *)
(* new one, and each link is in one of them at least.                      *)
EntriesKept ==
  NamesDistinct =>
    \A p \in Places :
      LET Now == {q \in {p, NewPlace(p)} : tree[q] # None} IN
      /\ tree0[p].kind = "file" => \E q \in Now : /\ Now = {q}
                                                  /\ tree[q] = tree0[p]
      /\ tree0[p].kind = "link" => /\ Now # {}
                                   /\ \A q \in Now : tree[q].kind = "link"

(* What a path leads to: a file, a path outside these directories, or      *)
(* None.  The directories of links are links to usr/bin.  A path that is   *)
(* not a loop comes to each place once.                                    *)
Goal(d, t) == Clean((IF t.abs THEN <<>> ELSE d) \o t.segs)
Leads(t, links, p, next) ==
  LET at == IF p[1] \in links THEN <<NewDir, p[2]>> ELSE p
      goal == Goal(at[1], t[at].text)
  IN IF t[at].kind # "link" THEN t[at]
     ELSE IF goal # <<>> /\ <<Front(goal), Last(goal)>> \in Places
          THEN next[<<Front(goal), Last(goal)>>]
          ELSE [kind |-> "path", to |-> goal]
Follow(t, links) ==
  LET f[k \in 0 .. Cardinality(Places) + 1] ==
        [p \in Places |-> IF k = 0 THEN None ELSE Leads(t, links, p, f[k - 1])]
  IN f[Cardinality(Places) + 1]

(* Two kinds of targets newLinkDest gets wrong: one that ends in "." or    *)
(* "..", an element it keeps as if it were a name, unless it leads to the  *)
(* root; and one that climbs out of destdir by so many ".." and then names *)
(* directories that destdir's own path is made of: seen from the build     *)
(* they may lead back into it.                                             *)
Climbs(d, t) ==
  /\ ~t.abs
  /\ \E i \in DOMAIN t.segs :
       Len(Clean(Root \o d \o SubSeq(t.segs, 1, i))) < Len(Root)
Odd(d, t) ==
  \/ Goal(d, t) # <<>> /\ Last(t.segs) \in {".", ".."}
  \/ Climbs(d, t) /\ ToSet(t.segs) \cap ToSet(Root) # {}
WithoutOdd ==
  [p \in Places |-> IF tree0[p].kind = "link" /\ Odd(p[1], tree0[p].text)
                    THEN None ELSE tree0[p]]

(* After a run that succeeds, be it after others that did not, every path  *)
(* that led somewhere, by links that are not odd, leads there still, once  *)
(* the merged directories are links to usr/bin.                            *)
LeadsAsBefore ==
  outcome = "ok" /\ NamesDistinct =>
    LET old == Follow(WithoutOdd, {})
        new == Follow(tree, Merging)
    IN \A p \in Places : old[p] # None => new[p] = old[p]

(* A merge of distinct names that is never interrupted succeeds, unless a  *)
(* directory is a link to elsewhere.                                       *)
FailsForAReason ==
  outcome = "failed" =>
    \/ interrupted
    \/ ~NamesDistinct
    \/ \E d \in Merging : dir[d] = "alien"

(* Once a run has succeeded, another changes nothing. *)
MergedStays == [][done => UNCHANGED fs]_vars
=============================================================================
