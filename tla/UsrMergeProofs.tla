--------------------------- MODULE UsrMergeProofs ---------------------------
(***************************************************************************)
(* That usrmerge-tool keeps every entry, fails for a reason only, leaves a *)
(* finished merge alone and every path leading where it led, unless by a   *)
(* link whose target is odd, for any directories, names, link targets,     *)
(* command lines, and any number of interrupted runs.                      *)
(***************************************************************************)
EXTENDS UsrMerge, SequenceTheorems, FiniteSetTheorems, WellFoundedInduction,
        TLAPS

(* The tree maps each place to nothing, a file or a link. *)
IsTree(t) ==
  /\ t = [p \in Places |-> t[p]]
  /\ \A p \in Places : t[p] = None \/ t[p].kind \in {"file", "link"}

ShapeInv == IsTree(tree) /\ IsTree(tree0)

(* Where the run is tells what is left to do and what was made sure of. *)
ControlInv ==
  /\ pc \notin {"idle", "next"} => m <= Len(moves)
  /\ pc # "idle" => outcome = "none"
  /\ pc \in {"move", "remove"} =>
       dir[src] = "dir" /\ dir[NewDir] = "dir" /\ todo = In(src)
  /\ pc = "remove" => /\ name \in todo
                      /\ tree[<<src, name>>].kind = "link"
                      /\ tree[<<NewDir, name>>].kind = "link"
  /\ pc \in {"dest", "usr"} => dir[src] = "none"

(* A directory that was moved, or skipped, is gone, or a link to usr/bin. *)
Gone(d) == dir[d] \in {"none", "merged"}
MovedInv == pc # "idle" => \A k \in 1 .. m - 1 : Gone(moves[k])
DoneInv ==
  /\ done => pc \in {"idle", "next"} /\ \A d \in Merging : Gone(d)
  /\ outcome = "ok" => done

(* What there is was there at first, in the same place or where it came    *)
(* from.                                                                   *)
OriginInv ==
  \A q \in Places : tree[q] # None =>
    \E p \in Places : tree0[p] # None /\ q \in {p, NewPlace(p)}

(* What a link becomes when it is moved. *)
Moved(p) == Link(NewLinkDest(p[1], tree0[p].text, Merging))

(* EntriesKept, with the two places of an entry spelt out. *)
KeptFile(p, q) ==
  \/ tree[p] = tree0[p] /\ (q # p => tree[q] = None)
  \/ tree[q] = tree0[p] /\ (q # p => tree[p] = None)
KeptLink(p, q) ==
  /\ tree[p] # None \/ tree[q] # None
  /\ tree[p] \in {None, tree0[p]}
  /\ q # p => tree[q] \in {None, Moved(p)}
Kept(p) ==
  /\ tree0[p].kind = "file" => KeptFile(p, NewPlace(p))
  /\ tree0[p].kind = "link" => KeptLink(p, NewPlace(p))

(* Without an interruption a link is in two places only in the middle of   *)
(* its move.                                                               *)
Doubled(p) == NewPlace(p) # p /\ tree[p] # None /\ tree[NewPlace(p)] # None
DoubleInv ==
  ~interrupted =>
    \A p \in Places : Doubled(p) => pc = "remove" /\ p = <<src, name>>

RunInv == TypeOK /\ ShapeInv /\ ControlInv /\ MovedInv /\ DoneInv
KeepInv == OriginInv /\ (\A p \in Places : Kept(p)) /\ DoubleInv

IInv == RunInv /\ (NamesDistinct => KeepInv) /\ FailsForAReason

(* The steps that leave the tree alone. *)
TreeStays ==
  \/ Start \/ AllMoved \/ SkipMove \/ AlienLink \/ StartMove \/ RelinkFails
  \/ RemoveSource \/ RemoveEmptyDest \/ RemoveEmptyUsr \/ Interrupt

USE DEF fs, past, vars
-----------------------------------------------------------------------------
(* Places.                                                                 *)

LEMMA KindOfNone == None.kind = "none"
  BY DEF None

LEMMA KindOfLink == \A t : Link(t).kind = "link" /\ Link(t) # None
<1> TAKE t
<1>1. Link(t).kind = "link"
  BY DEF Link
<1> QED
  BY <1>1, KindOfNone

LEMMA MovesAreSources ==
  ASSUME moves \in Commands
  PROVE  /\ moves \in Seq(Sources) /\ Len(moves) \in Nat
         /\ \A k \in 1 .. Len(moves) : moves[k] \in Merging
         /\ \A d \in Merging : \E k \in 1 .. Len(moves) : d = moves[k]
         /\ Merging \subseteq Sources /\ NewDir \notin Merging
<1>1. moves \in Seq(Sources)
  BY UsrMergeAssumption
<1> QED
  BY <1>1, UsrMergeAssumption DEF Merging, ToSet

LEMMA SourceIsMerging ==
  ASSUME moves \in Commands, m \in 1 .. Len(moves) + 1, m <= Len(moves)
  PROVE  src \in Merging /\ src \in Dirs /\ src # NewDir
<1>1. m \in 1 .. Len(moves)
  BY MovesAreSources
<1> QED
  BY <1>1, MovesAreSources DEF src, Dirs

LEMMA PlaceIsPair ==
  ASSUME NEW p \in Places
  PROVE  p = <<p[1], p[2]>> /\ p[1] \in Dirs /\ p[2] \in Names
  BY DEF Places

LEMMA NewPlaces ==
  ASSUME moves \in Commands, NEW p \in Places
  PROVE  /\ NewPlace(p) \in Places
         /\ NewPlace(NewPlace(p)) = NewPlace(p)
         /\ NewPlace(p) # p => NewPlace(p) = <<NewDir, p[2]>> /\ p[1] \in Merging
         /\ p[1] \notin Merging => NewPlace(p) = p
<1>1. <<NewDir, p[2]>> \in Places
  BY PlaceIsPair DEF Places, Dirs
<1>2. <<NewDir, p[2]>>[1] \notin Merging
  BY MovesAreSources
<1> QED
  BY <1>1, <1>2 DEF NewPlace

(* What is in the source of a move is there from the first, and nothing    *)
(* else was, or comes, where it is or where it goes.                       *)
LEMMA EntryOfMove ==
  ASSUME moves \in Commands, m \in 1 .. Len(moves) + 1, m <= Len(moves),
         OriginInv, NamesDistinct, NEW n \in Names, tree[<<src, n>>] # None
  PROVE  /\ <<src, n>> \in Places /\ <<NewDir, n>> \in Places
         /\ <<src, n>> # <<NewDir, n>>
         /\ NewPlace(<<src, n>>) = <<NewDir, n>>
         /\ tree0[<<src, n>>] # None
         /\ \A o \in Places \ {<<src, n>>} : tree0[o] # None =>
              {o, NewPlace(o)} \cap {<<src, n>>, <<NewDir, n>>} = {}
<1> DEFINE p == <<src, n>>
           q == <<NewDir, n>>
<1>1. p \in Places /\ q \in Places /\ p # q
  BY SourceIsMerging DEF Places, Dirs
<1>2. NewPlace(p) = q
  BY SourceIsMerging DEF NewPlace
<1>3. \A o \in Places : NewPlace(o) # p
  <2> SUFFICES ASSUME NEW o \in Places, NewPlace(o) = p PROVE FALSE
    OBVIOUS
  <2>1. p[1] \in Merging /\ p[1] # NewDir
    BY SourceIsMerging
  <2>2. CASE o[1] \in Merging
    BY <2>1, <2>2 DEF NewPlace
  <2>3. CASE o[1] \notin Merging
    BY <2>1, <2>3 DEF NewPlace
  <2> QED
    BY <2>2, <2>3
<1>4. tree0[p] # None
  BY <1>1, <1>3 DEF OriginInv
<1>5. ASSUME NEW o \in Places \ {p}, tree0[o] # None
      PROVE  {o, NewPlace(o)} \cap {p, q} = {}
  <2>1. NewPlace(o) # q
    BY <1>1, <1>2, <1>4, <1>5 DEF NamesDistinct
  <2>2. NewPlace(q) = q
    BY <1>1, <1>2, NewPlaces
  <2>3. o # q
    BY <2>1, <2>2
  <2> QED
    BY <1>3, <2>1, <2>3
<1> QED
  BY <1>1, <1>2, <1>4, <1>5
-----------------------------------------------------------------------------
(* The first state.                                                        *)

LEMMA InitTree == ASSUME Init PROVE ShapeInv /\ tree = tree0
                                    /\ \A p \in Places : tree[p] # None => dir[p[1]] = "dir"
<1>1. PICK S \in SUBSET {p \in Places : dir[p[1]] = "dir"} :
        \E f \in [S -> Entries] :
          tree = [p \in Places |-> IF p \in S THEN f[p] ELSE None]
  BY DEF Init
<1>2. PICK f \in [S -> Entries] :
        tree = [p \in Places |-> IF p \in S THEN f[p] ELSE None]
  BY <1>1
<1>3. \A e \in Entries : e.kind \in {"file", "link"}
  BY DEF Entries, File, Link
<1>4. \A p \in Places : tree[p] = None \/ (p \in S /\ tree[p] \in Entries)
  BY <1>2
<1>5. IsTree(tree)
  BY <1>2, <1>3, <1>4 DEF IsTree
<1>6. tree = tree0
  BY DEF Init
<1> QED
  BY <1>4, <1>5, <1>6 DEF ShapeInv

LEMMA InitIInv == Init => IInv
<1> SUFFICES ASSUME Init PROVE IInv
  OBVIOUS
<1>1. moves \in Commands /\ Len(moves) \in Nat
  BY MovesAreSources DEF Init
<1>2. \A p \in Places : tree[p].kind \in {"none", "file", "link"}
  BY InitTree, KindOfNone DEF ShapeInv, IsTree
<1>3. TypeOK
  <2>1. m \in 1 .. Len(moves) + 1 /\ todo \subseteq Names
    BY <1>1 DEF Init
  <2>2. MaxRuns \in Nat
    BY ONLY UsrMergeAssumption, ZenonT(30) DEF UsrMergeAssumption
  <2>3. runs \in 0 .. MaxRuns
    BY <2>2 DEF Init
  <2>4. interrupted \in BOOLEAN /\ done \in BOOLEAN
    BY DEF Init
  <2> QED
    BY <1>1, <1>2, <2>1, <2>3, <2>4, InitTree DEF Init, TypeOK
<1>4. ControlInv /\ MovedInv /\ DoneInv /\ FailsForAReason
  BY DEF Init, ControlInv, MovedInv, DoneInv, FailsForAReason
<1>5. ASSUME NamesDistinct PROVE KeepInv
  <2>1. \A p \in Places : tree[p] # None => NewPlace(p) = p \/ tree[NewPlace(p)] = None
    BY <1>1, <1>5, InitTree, NewPlaces DEF NamesDistinct
  <2>2. OriginInv
    BY InitTree DEF OriginInv
  <2>3. \A p \in Places : Kept(p)
    BY <2>1, InitTree, KindOfNone DEF Kept, KeptFile, KeptLink
  <2>4. DoubleInv
    BY <2>1 DEF DoubleInv, Doubled
  <2> QED
    BY <2>2, <2>3, <2>4 DEF KeepInv
<1> QED
  BY <1>3, <1>4, <1>5, InitTree DEF IInv, RunInv
-----------------------------------------------------------------------------
(* The three steps that move an entry.                                     *)

(* A step that touches the two places of one entry keeps the others.       *)
LEMMA OthersKept ==
  ASSUME RunInv, m <= Len(moves), NamesDistinct, KeepInv,
         NEW n \in Names, tree[<<src, n>>] # None,
         UNCHANGED <<moves, tree0>>,
         \A x \in Places \ {<<src, n>>, <<NewDir, n>>} : tree'[x] = tree[x]
  PROVE  /\ OriginInv'
         /\ \A o \in Places \ {<<src, n>>} : Kept(o)' /\ (Doubled(o)' => Doubled(o))
<1> DEFINE p == <<src, n>>
           q == <<NewDir, n>>
<1> USE DEF RunInv, KeepInv, TypeOK
<1>1. /\ p \in Places /\ q \in Places /\ tree0[p] # None /\ NewPlace(p) = q
      /\ \A o \in Places \ {p} : tree0[o] # None => {o, NewPlace(o)} \cap {p, q} = {}
  BY EntryOfMove
<1>2. \A o : NewPlace(o)' = NewPlace(o) /\ Moved(o)' = Moved(o)
  BY DEF NewPlace, Moved, Merging
<1>3. \A o \in Places : NewPlace(o) \in Places
  BY NewPlaces
<1>4. OriginInv'
  <2> SUFFICES ASSUME NEW x \in Places, tree'[x] # None
               PROVE  \E o \in Places : tree0[o] # None /\ x \in {o, NewPlace(o)}
    BY <1>2 DEF OriginInv, Places, Dirs
  <2>1. CASE x \in {p, q}
    BY <1>1, <2>1
  <2>2. CASE x \notin {p, q}
    BY <2>2 DEF OriginInv
  <2> QED
    BY <2>1, <2>2
<1>5. ASSUME NEW o \in Places \ {p}, tree0[o] # None
      PROVE  tree'[o] = tree[o] /\ tree'[NewPlace(o)] = tree[NewPlace(o)]
  BY <1>1, <1>3, <1>5
<1>6. ASSUME NEW o \in Places \ {p} PROVE Kept(o)'
  <2>1. CASE tree0[o] = None
    BY <2>1, KindOfNone DEF Kept
  <2>2. CASE tree0[o] # None
    BY <1>2, <1>5, <2>2 DEF Kept, KeptFile, KeptLink
  <2> QED
    BY <2>1, <2>2
<1>7. ASSUME NEW o \in Places \ {p}, Doubled(o)' PROVE Doubled(o)
  <2>1. NewPlace(o) # o /\ tree'[o] # None /\ tree'[NewPlace(o)] # None
    BY <1>2, <1>7 DEF Doubled
  <2>2. o # q
    BY <1>1, <2>1, NewPlaces
  <2>3. tree[o] # None
    BY <2>1, <2>2
  <2>4. PICK r \in Places : tree0[r] # None /\ o \in {r, NewPlace(r)}
    BY <2>3 DEF OriginInv
  <2>5. r = o
    BY <2>1, <2>4, NewPlaces
  <2> QED
    BY <1>5, <2>1, <2>4, <2>5 DEF Doubled
<1> QED
  BY <1>4, <1>6, <1>7

LEMMA RenameFileKeeps ==
  ASSUME IInv, RenameFile, NamesDistinct PROVE KeepInv'
<1> USE DEF IInv, RunInv, KeepInv
<1>1. PICK n \in todo : /\ tree[<<src, n>>].kind = "file"
                        /\ tree' = Renamed(n)
  BY DEF RenameFile
<1>0. PICK p, q : p = <<src, n>> /\ q = <<NewDir, n>>
  OBVIOUS
<1>2. m <= Len(moves) /\ n \in Names /\ tree[p] # None
  BY <1>0, <1>1, KindOfNone DEF RenameFile, ControlInv, TypeOK
<1>3. /\ p \in Places /\ q \in Places /\ p # q /\ tree0[p] # None /\ NewPlace(p) = q
  BY <1>0, <1>2, EntryOfMove DEF TypeOK
<1>4. tree'[p] = None /\ tree'[q] = tree[p]
      /\ \A x \in Places \ {p, q} : tree'[x] = tree[x]
  BY <1>0, <1>1, <1>3 DEF Renamed, ShapeInv, IsTree
<1>5. UNCHANGED <<moves, tree0, pc, interrupted>> /\ pc = "move"
  BY DEF RenameFile
<1>6. /\ OriginInv'
      /\ \A o \in Places \ {p} : Kept(o)' /\ (Doubled(o)' => Doubled(o))
  BY <1>0, <1>2, <1>4, <1>5, OthersKept
<1>7. NewPlace(p)' = q /\ Moved(p)' = Moved(p)
  BY <1>3, <1>5 DEF NewPlace, Moved, Merging
<1>8. tree0[p].kind = "file" /\ tree[p] = tree0[p]
  BY <1>0, <1>1, <1>2, <1>3 DEF Kept, KeptFile, KeptLink, ShapeInv, IsTree
<1>9. Kept(p)'
  BY <1>3, <1>4, <1>5, <1>7, <1>8 DEF Kept, KeptFile
<1>10. ~Doubled(p)'
  BY <1>4 DEF Doubled
<1>11. DoubleInv'
  BY <1>5, <1>6, <1>10 DEF DoubleInv, Places, Dirs
<1>12. (\A o \in Places : Kept(o))'
  BY <1>6, <1>9 DEF Places, Dirs
<1> QED
  BY <1>6, <1>11, <1>12

LEMMA RelinkKeeps ==
  ASSUME IInv, Relink, NamesDistinct PROVE KeepInv'
<1> USE DEF IInv, RunInv, KeepInv
<1>1. PICK n \in todo : /\ tree[<<src, n>>].kind = "link"
                        /\ tree[<<NewDir, n>>] = None
                        /\ tree' = [tree EXCEPT ![<<NewDir, n>>] = Relinked(n)]
                        /\ name' = n
  BY DEF Relink
<1>0. PICK p, q : p = <<src, n>> /\ q = <<NewDir, n>>
  OBVIOUS
<1>2. m <= Len(moves) /\ n \in Names /\ tree[p] # None
  BY <1>0, <1>1, KindOfNone DEF Relink, ControlInv, TypeOK
<1>3. /\ p \in Places /\ q \in Places /\ p # q /\ tree0[p] # None /\ NewPlace(p) = q
  BY <1>0, <1>2, EntryOfMove DEF TypeOK
<1>4. tree'[p] = tree[p] /\ tree'[q] # None /\ tree'[q].kind = "link"
      /\ \A x \in Places \ {p, q} : tree'[x] = tree[x]
  BY <1>0, <1>1, <1>3, KindOfLink DEF Relinked, ShapeInv, IsTree
<1>5. UNCHANGED <<moves, m, tree0, interrupted>> /\ pc = "move" /\ pc' = "remove"
  BY DEF Relink
<1>6. /\ OriginInv'
      /\ \A o \in Places \ {p} : Kept(o)' /\ (Doubled(o)' => Doubled(o))
  BY <1>0, <1>2, <1>4, <1>5, OthersKept
<1>7. NewPlace(p)' = q /\ Moved(p)' = Moved(p)
  BY <1>3, <1>5 DEF NewPlace, Moved, Merging
<1>8. tree0[p].kind = "link"
  BY <1>0, <1>1, <1>2, <1>3, KindOfNone DEF Kept, KeptFile, ShapeInv, IsTree
<1>9. Kept(p)'
  <2>1. tree[p] = tree0[p]
    BY <1>2, <1>3, <1>8 DEF Kept, KeptLink
  <2>2. tree'[q] = Moved(p)
    BY <1>0, <1>1, <1>3, <2>1 DEF Relinked, Moved, Merging, ShapeInv, IsTree
  <2> QED
    BY <1>3, <1>4, <1>5, <1>7, <1>8, <2>1, <2>2, KindOfLink DEF Kept, KeptLink
<1>10. p = <<src, name>>'
  BY <1>0, <1>1, <1>5 DEF src
<1>11. DoubleInv'
  BY <1>5, <1>6, <1>10 DEF DoubleInv, Places, Dirs
<1>12. (\A o \in Places : Kept(o))'
  BY <1>6, <1>9 DEF Places, Dirs
<1> QED
  BY <1>6, <1>11, <1>12

LEMMA RemoveLinkKeeps ==
  ASSUME IInv, RemoveLink, NamesDistinct PROVE KeepInv'
<1> USE DEF IInv, RunInv, KeepInv
<1>0. PICK p, q : p = <<src, name>> /\ q = <<NewDir, name>>
  OBVIOUS
<1>1. tree[p].kind = "link" /\ tree[q].kind = "link"
  BY <1>0 DEF RemoveLink, ControlInv
<1>2. m <= Len(moves) /\ name \in Names /\ tree[p] # None /\ tree[q] # None
  BY <1>0, <1>1, KindOfNone DEF RemoveLink, ControlInv, TypeOK
<1>3. /\ p \in Places /\ q \in Places /\ p # q /\ tree0[p] # None /\ NewPlace(p) = q
  BY <1>0, <1>2, EntryOfMove DEF TypeOK
<1>4. tree'[p] = None /\ tree'[q] = tree[q]
      /\ \A x \in Places \ {p, q} : tree'[x] = tree[x]
  BY <1>0, <1>3 DEF RemoveLink, Removed, ShapeInv, IsTree
<1>5. UNCHANGED <<moves, tree0, interrupted>> /\ pc = "remove"
  BY DEF RemoveLink
<1>6. /\ OriginInv'
      /\ \A o \in Places \ {p} : Kept(o)' /\ (Doubled(o)' => Doubled(o))
  BY <1>0, <1>2, <1>4, <1>5, OthersKept
<1>7. NewPlace(p)' = q /\ Moved(p)' = Moved(p)
  BY <1>3, <1>5 DEF NewPlace, Moved, Merging
<1>8. tree0[p].kind = "link"
  BY <1>0, <1>1, <1>2, <1>3, KindOfNone DEF Kept, KeptFile, ShapeInv, IsTree
<1>9. Kept(p)'
  BY <1>1, <1>2, <1>3, <1>4, <1>5, <1>7, <1>8 DEF Kept, KeptLink
<1>10. ~Doubled(p)'
  BY <1>4 DEF Doubled
<1>11. DoubleInv'
  BY <1>0, <1>5, <1>6, <1>10 DEF DoubleInv, Places, Dirs
<1>12. (\A o \in Places : Kept(o))'
  BY <1>6, <1>9 DEF Places, Dirs
<1> QED
  BY <1>6, <1>11, <1>12

(* The others leave the entries as they are, and none in two places.       *)
LEMMA OtherStepsKeep ==
  ASSUME IInv, TreeStays, NamesDistinct PROVE KeepInv'
<1> USE DEF IInv, RunInv, KeepInv, TreeStays, Start, AllMoved, SkipMove, AlienLink,
            StartMove, RelinkFails, RemoveSource, RemoveEmptyDest,
            RemoveEmptyUsr, Interrupt, Return
<1>1. UNCHANGED <<tree, moves, tree0>>
  OBVIOUS
<1>2. interrupted' \/ (pc # "remove" /\ ~interrupted) \/ interrupted
  OBVIOUS
<1>3. interrupted => interrupted'
  OBVIOUS
<1>4. \A o : NewPlace(o)' = NewPlace(o) /\ Moved(o)' = Moved(o)
  BY <1>1 DEF NewPlace, Moved, Merging
<1>5. OriginInv'
  BY <1>1, <1>4 DEF OriginInv, Places, Dirs
<1>6. (\A o \in Places : Kept(o))'
  BY <1>1, <1>4 DEF Kept, KeptFile, KeptLink, Places, Dirs
<1>7. DoubleInv'
  BY <1>1, <1>2, <1>3, <1>4 DEF DoubleInv, Doubled, Places, Dirs
<1> QED
  BY <1>5, <1>6, <1>7
-----------------------------------------------------------------------------
(* What the tool knows where it is.                                        *)

(* A directory is removed when it is empty, and entries come to one that    *)
(* there is.                                                               *)
HousedInv == \A p \in Places : tree[p] # None => dir[p[1]] = "dir"

LEMMA TreeKept == ASSUME TypeOK, ShapeInv, ControlInv, Next PROVE ShapeInv' /\ HousedInv'
<1> SUFFICES (IsTree(tree))' /\ UNCHANGED tree0 /\ HousedInv'
  BY DEF ShapeInv, IsTree, Places, Dirs
<1> USE DEF TypeOK, ShapeInv, ControlInv, IsTree
<1>0. \A n \in Names : m <= Len(moves) => <<src, n>> \in Places /\ <<NewDir, n>> \in Places
  BY SourceIsMerging DEF Places, Dirs
<1>1. CASE TreeStays
  <2> USE DEF TreeStays, Start, AllMoved, SkipMove, AlienLink, RelinkFails, Interrupt,
              StartMove, RemoveSource, RemoveEmptyDest, RemoveEmptyUsr, Return
  <2>1. UNCHANGED <<tree, tree0>>
    BY <1>1
  <2> SUFFICES ASSUME NEW p \in Places, tree[p] # None PROVE dir'[p[1]] = "dir"
    BY <2>1 DEF HousedInv, Places, Dirs
  <2>p. p = <<p[1], p[2]>> /\ p[1] \in Dirs /\ p[2] \in Names /\ dir[p[1]] = "dir"
    BY PlaceIsPair
  <2>2. CASE UNCHANGED dir
    BY <2>p, <2>2
  <2>3. CASE StartMove
    BY <2>p, <2>3
  <2>4. CASE RemoveSource /\ dir' = [dir EXCEPT ![src] = "none"]
    <3>1. \A n \in Names : tree[<<src, n>>] = None
      BY <1>1, <2>4 DEF In
    <3>2. p[1] # src
      <4> SUFFICES ASSUME p[1] = src PROVE FALSE
        OBVIOUS
      <4>1. p = <<src, p[2]>>
        BY <2>p
      <4>2. tree[p] = tree[<<src, p[2]>>]
        BY <4>1
      <4> QED
        BY <2>p, <3>1, <4>2
    <3> QED
      BY <2>p, <2>4, <3>2
  <2>5. CASE RemoveEmptyDest /\ dir' = [dir EXCEPT ![NewDir] = "none"] /\ In(NewDir) = {}
    <3>1. \A n \in Names : tree[<<NewDir, n>>] = None
      BY <2>5 DEF In
    <3>2. p[1] # NewDir
      <4> SUFFICES ASSUME p[1] = NewDir PROVE FALSE
        OBVIOUS
      <4>1. p = <<NewDir, p[2]>>
        BY <2>p
      <4>2. tree[p] = tree[<<NewDir, p[2]>>]
        BY <4>1
      <4> QED
        BY <2>p, <3>1, <4>2
    <3> QED
      BY <2>p, <2>5, <3>2
  <2> QED
    BY <1>1, <2>2, <2>3, <2>4, <2>5
<1>2. CASE RenameFile
  <2>1. PICK n \in todo : tree[<<src, n>>].kind = "file" /\ tree' = Renamed(n)
    BY <1>2 DEF RenameFile
  <2>2. \A p \in Places : tree'[p] \in {tree[p], None, tree[<<src, n>>]}
                          /\ (p # <<NewDir, n>> => tree'[p] \in {tree[p], None})
    BY <1>0, <1>2, <2>1 DEF RenameFile, Renamed
  <2>3. IsTree(tree')
    BY <1>0, <1>2, <2>1, <2>2 DEF RenameFile, Renamed
  <2>4. dir' = dir /\ dir[NewDir] = "dir"
    BY <1>2 DEF RenameFile
  <2>5. ASSUME NEW p \in Places, tree'[p] # None PROVE dir[p[1]] = "dir"
    <3>1. CASE p = <<NewDir, n>>
      BY <2>4, <3>1
    <3>2. CASE p # <<NewDir, n>>
      BY <2>2, <2>5, <3>2
    <3> QED
      BY <3>1, <3>2
  <2>6. HousedInv'
    BY <2>4, <2>5 DEF HousedInv, Places, Dirs
  <2> QED
    BY <1>2, <2>3, <2>6 DEF RenameFile
<1>3. CASE Relink
  <2>1. PICK n \in todo : tree' = [tree EXCEPT ![<<NewDir, n>>] = Relinked(n)]
    BY <1>3 DEF Relink
  <2>2. Relinked(n).kind = "link"
    BY KindOfLink DEF Relinked
  <2>3. IsTree(tree')
    BY <1>0, <1>3, <2>1, <2>2 DEF Relink
  <2>4. dir' = dir /\ dir[NewDir] = "dir"
    BY <1>3 DEF Relink
  <2>5. \A p \in Places : p # <<NewDir, n>> => tree'[p] = tree[p]
    BY <2>1
  <2>6. \A p \in Places : tree'[p] # None => dir[p[1]] = "dir"
    BY <2>4, <2>5
  <2>7. HousedInv'
    BY <2>4, <2>6 DEF HousedInv, Places, Dirs
  <2> QED
    BY <1>3, <2>3, <2>7 DEF Relink
<1>4. CASE RemoveLink
  <2>1. IsTree(tree')
    BY <1>4 DEF RemoveLink, Removed
  <2>2. HousedInv'
    BY <1>4 DEF RemoveLink, Removed, HousedInv, Places, Dirs
  <2> QED
    BY <1>4, <2>1, <2>2 DEF RemoveLink
<1> QED
  BY <1>1, <1>2, <1>3, <1>4 DEF Next, TreeStays

LEMMA TypeKept == ASSUME TypeOK, ShapeInv, ControlInv, Next PROVE TypeOK'
<1>1. moves' = moves /\ moves \in Commands /\ Len(moves) \in Nat /\ m \in Nat
  <2>1. moves' = moves
    BY DEF Next, Start, AllMoved, SkipMove, AlienLink, StartMove, RenameFile, Relink,
       RelinkFails, RemoveLink, RemoveSource, RemoveEmptyDest, RemoveEmptyUsr, Interrupt
  <2> QED
    BY <2>1, MovesAreSources DEF TypeOK
<1>2. m' \in 1 .. Len(moves) + 1
  BY <1>1 DEF TypeOK, Next, Start, AllMoved, SkipMove, AlienLink, StartMove, RenameFile,
     Relink, RelinkFails, RemoveLink, RemoveSource, RemoveEmptyDest, RemoveEmptyUsr,
     Interrupt, ControlInv
<1>3. MaxRuns \in Nat
  BY ONLY UsrMergeAssumption, ZenonT(30) DEF UsrMergeAssumption
<1>4. runs' \in 0 .. MaxRuns
  BY <1>3 DEF TypeOK, Next, Start, AllMoved, SkipMove, AlienLink, StartMove, RenameFile,
     Relink, RelinkFails, RemoveLink, RemoveSource, RemoveEmptyDest, RemoveEmptyUsr,
     Interrupt
<1>5. pc' \in {"idle", "next", "move", "remove", "dest", "usr"}
      /\ outcome' \in {"none", "ok", "failed"}
  BY DEF TypeOK, Next, Start, AllMoved, SkipMove, AlienLink, StartMove, RenameFile,
     Relink, RelinkFails, RemoveLink, RemoveSource, RemoveEmptyDest, RemoveEmptyUsr,
     Interrupt, Return
<1>6. todo' \subseteq Names /\ name' \in Names
  BY DEF TypeOK, Next, Start, AllMoved, SkipMove, AlienLink, StartMove, RenameFile,
     Relink, RelinkFails, RemoveLink, RemoveSource, RemoveEmptyDest, RemoveEmptyUsr,
     Interrupt, Return, In
<1>7. usr' \in BOOLEAN /\ interrupted' \in BOOLEAN /\ done' \in BOOLEAN
  BY DEF TypeOK, Next, Start, AllMoved, SkipMove, AlienLink, StartMove, RenameFile,
     Relink, RelinkFails, RemoveLink, RemoveSource, RemoveEmptyDest, RemoveEmptyUsr,
     Interrupt, Return
<1>8. dir' \in [Dirs -> {"dir", "none", "merged", "alien"}]
  BY DEF TypeOK, Next, Start, AllMoved, SkipMove, AlienLink, StartMove, RenameFile,
     Relink, RelinkFails, RemoveLink, RemoveSource, RemoveEmptyDest, RemoveEmptyUsr,
     Interrupt
<1>9. \A p \in Places : tree'[p].kind \in {"none", "file", "link"}
  BY TreeKept, KindOfNone DEF ShapeInv, IsTree, Places, Dirs
<1>10. \A p \in Places : tree'[p] # None => dir'[p[1]] = "dir"
  BY TreeKept DEF HousedInv, Places, Dirs
<1> QED
  BY <1>1, <1>2, <1>4, <1>5, <1>6, <1>7, <1>8, <1>9, <1>10 DEF TypeOK, Places, Dirs

LEMMA ControlKept == ASSUME RunInv, Next PROVE ControlInv' /\ MovedInv' /\ DoneInv'
<1> USE DEF RunInv, TypeOK
<1>0. /\ Len(moves) \in Nat /\ m \in Nat /\ moves' = moves
      /\ m <= Len(moves) => src \in Merging /\ src \in Dirs /\ src # NewDir
      /\ NewDir \in Dirs
  <2>1. moves' = moves
    BY DEF Next, Start, AllMoved, SkipMove, AlienLink, StartMove, RenameFile, Relink,
       RelinkFails, RemoveLink, RemoveSource, RemoveEmptyDest, RemoveEmptyUsr, Interrupt
  <2> QED
    BY <2>1, MovesAreSources, SourceIsMerging DEF Dirs
<1>1. CASE Start
  BY <1>0, <1>1 DEF Start, ControlInv, MovedInv, DoneInv, Gone, Merging
<1>2. CASE AllMoved
  <2>1. m = Len(moves) + 1
    BY <1>0, <1>2 DEF AllMoved
  <2>2. \A d \in Merging : Gone(d)
    BY <1>2, <2>1, MovesAreSources DEF AllMoved, MovedInv
  <2> QED
    BY <1>0, <1>2, <2>2 DEF AllMoved, Return, ControlInv, MovedInv, DoneInv, Gone, Merging
<1>3. CASE SkipMove
  <2>1. Gone(src)
    BY <1>3 DEF SkipMove, Skipped, Gone
  <2>2. \A k \in 1 .. m : Gone(moves[k])
    BY <1>0, <1>3, <2>1 DEF SkipMove, MovedInv, src
  <2> QED
    BY <1>0, <1>3, <2>2 DEF SkipMove, ControlInv, MovedInv, DoneInv, Gone, Merging
<1>4. CASE AlienLink \/ RelinkFails \/ Interrupt
  BY <1>0, <1>4 DEF AlienLink, RelinkFails, Interrupt, Return, ControlInv, MovedInv,
     DoneInv, Gone, Merging
<1>5. CASE StartMove
  <2>1. /\ m <= Len(moves) /\ src' = src /\ tree' = tree /\ todo' = In(src) /\ ~Gone(src)
        /\ dir[src] = "dir" /\ dir' = [dir EXCEPT ![NewDir] = "dir"]
    BY <1>0, <1>5 DEF StartMove, Skipped, Gone, src
  <2>2. \A d \in Dirs : d # NewDir => dir'[d] = dir[d]
    BY <2>1
  <2>3. \A k \in 1 .. m - 1 : moves[k] \in Dirs /\ moves[k] # NewDir
    BY <1>0, <2>1, MovesAreSources DEF Dirs
  <2>4. ControlInv'
    BY <1>0, <1>5, <2>1, <2>2 DEF StartMove, ControlInv, In
  <2>5. ~done
    BY <1>0, <2>1 DEF DoneInv
  <2> QED
    BY <1>0, <1>5, <2>2, <2>3, <2>4, <2>5 DEF StartMove, MovedInv, DoneInv, Gone
<1>6. CASE RenameFile
  <2>1. PICK n \in todo : /\ tree[<<src, n>>].kind = "file"
                          /\ tree' = Renamed(n) /\ todo' = todo \ {n}
    BY <1>6 DEF RenameFile
  <2>2. m <= Len(moves) /\ n \in Names /\ src' = src /\ todo = In(src)
    BY <1>0, <1>6, <2>1 DEF RenameFile, ControlInv, src
  <2>3. \A k \in Names : tree'[<<src, k>>] = IF k = n THEN None ELSE tree[<<src, k>>]
    BY <1>0, <2>1, <2>2 DEF Renamed, ShapeInv, IsTree, Places
  <2>4. todo' = In(src)'
    BY <2>1, <2>2, <2>3 DEF In
  <2> QED
    BY <1>0, <1>6, <2>2, <2>4 DEF RenameFile, ControlInv, MovedInv, DoneInv, Gone, Merging
<1>7. CASE Relink
  <2>1. PICK n \in todo : /\ tree[<<src, n>>].kind = "link" /\ name' = n
                          /\ tree' = [tree EXCEPT ![<<NewDir, n>>] = Relinked(n)]
    BY <1>7 DEF Relink
  <2>2. m <= Len(moves) /\ n \in Names /\ src' = src /\ todo = In(src) /\ todo' = todo
    BY <1>0, <1>7, <2>1 DEF Relink, ControlInv, src
  <2>3. /\ \A k \in Names : tree'[<<src, k>>] = tree[<<src, k>>]
        /\ tree'[<<NewDir, n>>].kind = "link"
    BY <1>0, <2>1, <2>2, KindOfLink DEF Relinked, ShapeInv, IsTree, Places
  <2>4. todo' = In(src)'
    BY <2>2, <2>3 DEF In
  <2> QED
    BY <1>0, <1>7, <2>1, <2>2, <2>3, <2>4
       DEF Relink, ControlInv, MovedInv, DoneInv, Gone, Merging
<1>8. CASE RemoveLink
  <2>1. m <= Len(moves) /\ name \in Names /\ src' = src /\ todo = In(src)
    BY <1>0, <1>8 DEF RemoveLink, ControlInv, src
  <2>2. \A k \in Names : tree'[<<src, k>>] = IF k = name THEN None ELSE tree[<<src, k>>]
    BY <1>0, <1>8, <2>1 DEF RemoveLink, Removed, ShapeInv, IsTree, Places
  <2>3. todo' = In(src)'
    BY <1>8, <2>1, <2>2 DEF RemoveLink, In
  <2> QED
    BY <1>0, <1>8, <2>1, <2>3 DEF RemoveLink, ControlInv, MovedInv, DoneInv, Gone, Merging
<1>9. CASE RemoveSource
  <2>1. m <= Len(moves) /\ src' = src
    BY <1>0, <1>9 DEF RemoveSource, ControlInv, src
  <2>2. CASE In(src) = {}
    <3>1. dir' = [dir EXCEPT ![src] = "none"] /\ pc' = "dest"
      BY <1>9, <2>2 DEF RemoveSource
    <3>2. \A d \in Dirs : Gone(d) => Gone(d)'
      BY <3>1 DEF Gone
    <3>3. \A k \in 1 .. m - 1 : moves[k] \in Dirs
      BY <1>0, <2>1, MovesAreSources DEF Dirs
    <3> QED
      BY <1>0, <1>9, <2>1, <3>1, <3>2, <3>3
         DEF RemoveSource, ControlInv, MovedInv, DoneInv, Gone, Merging
  <2>3. CASE In(src) # {}
    BY <1>0, <1>9, <2>1, <2>3
       DEF RemoveSource, Return, ControlInv, MovedInv, DoneInv, Gone, Merging
  <2> QED
    BY <2>2, <2>3
<1>10. CASE RemoveEmptyDest
  <2>1. m <= Len(moves) /\ src' = src
    BY <1>0, <1>10 DEF RemoveEmptyDest, ControlInv, src
  <2>2. \A d \in Dirs : d # NewDir => dir'[d] = dir[d]
    BY <1>10 DEF RemoveEmptyDest
  <2>3. \A k \in 1 .. m - 1 : moves[k] \in Dirs /\ moves[k] # NewDir
    BY <1>0, <2>1, MovesAreSources DEF Dirs
  <2> QED
    BY <1>0, <1>10, <2>1, <2>2, <2>3
       DEF RemoveEmptyDest, ControlInv, MovedInv, DoneInv, Gone, Merging
<1>11. CASE RemoveEmptyUsr
  <2>1. m <= Len(moves) /\ Gone(src)
    BY <1>11 DEF RemoveEmptyUsr, ControlInv, Gone
  <2>2. \A k \in 1 .. m : Gone(moves[k])
    BY <1>0, <1>11, <2>1 DEF RemoveEmptyUsr, MovedInv, src
  <2> QED
    BY <1>0, <1>11, <2>1, <2>2
       DEF RemoveEmptyUsr, ControlInv, MovedInv, DoneInv, Gone, Merging
<1> QED
  BY <1>1, <1>2, <1>3, <1>4, <1>5, <1>6, <1>7, <1>8, <1>9, <1>10, <1>11 DEF Next
-----------------------------------------------------------------------------
(* A failure has its reason: names that are distinct let no link meet      *)
(* another entry, and a directory that was read is empty in the end.       *)

LEMMA ReasonKept == ASSUME IInv, Next PROVE FailsForAReason'
<1> USE DEF IInv, RunInv
<1>1. UNCHANGED <<moves, tree0>>
  BY DEF Next, Start, AllMoved, SkipMove, AlienLink, StartMove, RenameFile, Relink,
     RelinkFails, RemoveLink, RemoveSource, RemoveEmptyDest, RemoveEmptyUsr, Interrupt
<1>2. NamesDistinct' = NamesDistinct /\ Merging' = Merging
  BY <1>1 DEF NamesDistinct, NewPlace, Merging
<1>3. CASE outcome' # "failed"
  BY <1>3 DEF FailsForAReason
<1>4. CASE Interrupt
  BY <1>4 DEF Interrupt, FailsForAReason
<1>5. CASE AlienLink
  <2>1. src \in Merging /\ dir'[src] = "alien"
    BY <1>5, SourceIsMerging DEF AlienLink, TypeOK
  <2> QED
    BY <1>2, <2>1 DEF FailsForAReason
<1>6. CASE RelinkFails
  <2> SUFFICES ASSUME NamesDistinct, ~interrupted PROVE FALSE
    BY <1>2, <1>6 DEF RelinkFails, FailsForAReason
  <2> USE DEF KeepInv
  <2>1. PICK n \in todo : /\ tree[<<src, n>>].kind = "link"
                          /\ tree[<<NewDir, n>>] # None
    BY <1>6 DEF RelinkFails
  <2>2. m <= Len(moves) /\ n \in Names /\ tree[<<src, n>>] # None
    BY <1>6, <2>1, KindOfNone DEF RelinkFails, ControlInv, TypeOK
  <2>3. <<src, n>> \in Places /\ Doubled(<<src, n>>)
    BY <2>1, <2>2, EntryOfMove DEF TypeOK, Doubled
  <2> QED
    BY <1>6, <2>3 DEF DoubleInv, RelinkFails
<1>7. CASE RemoveSource
  BY <1>3, <1>7 DEF RemoveSource, ControlInv, Return
<1>8. CASE Start \/ AllMoved
  BY <1>3, <1>8 DEF Start, AllMoved, Return
<1>9. CASE SkipMove \/ StartMove \/ RenameFile \/ Relink \/ RemoveLink
           \/ RemoveEmptyDest \/ RemoveEmptyUsr
  BY <1>3, <1>9 DEF SkipMove, StartMove, RenameFile, Relink, RemoveLink,
     RemoveEmptyDest, RemoveEmptyUsr, ControlInv
<1> QED
  BY <1>4, <1>5, <1>6, <1>7, <1>8, <1>9 DEF Next

LEMMA NextIInv == IInv /\ [Next]_vars => IInv'
<1> SUFFICES ASSUME IInv, [Next]_vars PROVE IInv'
  OBVIOUS
<1>1. CASE Next
  <2>1. RunInv'
    BY <1>1, TypeKept, TreeKept, ControlKept DEF IInv, RunInv
  <2>2. UNCHANGED <<moves, tree0>>
    BY <1>1 DEF Next, Start, AllMoved, SkipMove, AlienLink, StartMove, RenameFile,
       Relink, RelinkFails, RemoveLink, RemoveSource, RemoveEmptyDest, RemoveEmptyUsr,
       Interrupt
  <2>3. NamesDistinct' = NamesDistinct
    BY <2>2 DEF NamesDistinct, NewPlace, Merging
  <2>4. NamesDistinct => KeepInv'
    BY <1>1, RenameFileKeeps, RelinkKeeps, RemoveLinkKeeps, OtherStepsKeep
       DEF Next, TreeStays
  <2> QED
    BY <1>1, <2>1, <2>3, <2>4, ReasonKept DEF IInv
<1>2. CASE UNCHANGED vars
  <2>1. TypeOK' /\ ShapeInv'
    BY <1>2 DEF IInv, RunInv, TypeOK, ShapeInv, IsTree, Places, Dirs
  <2>2. ControlInv' /\ MovedInv' /\ DoneInv'
    BY <1>2 DEF IInv, RunInv, ControlInv, MovedInv, DoneInv, Gone, src, In, Merging
  <2>3. /\ \A p : NewPlace(p)' = NewPlace(p) /\ Moved(p)' = Moved(p)
        /\ NamesDistinct' = NamesDistinct
    BY <1>2 DEF NewPlace, Moved, Merging, NamesDistinct
  <2>4. KeepInv => KeepInv'
    BY <1>2, <2>3 DEF KeepInv, OriginInv, Kept, KeptFile, KeptLink, Doubled, DoubleInv,
       src, Places, Dirs
  <2>5. FailsForAReason'
    BY <1>2, <2>3 DEF IInv, FailsForAReason, Merging
  <2> QED
    BY <2>1, <2>2, <2>3, <2>4, <2>5 DEF IInv, RunInv
<1> QED
  BY <1>1, <1>2
-----------------------------------------------------------------------------
(* Paths.                                                                  *)

(* Induction, for a set of numbers. *)
LEMMA SetInduction ==
  ASSUME NEW A, 0 \in A, \A N \in Nat : N \in A => N + 1 \in A
  PROVE  Nat \subseteq A
<1> SUFFICES ASSUME Nat \ A # {} PROVE FALSE
  OBVIOUS
<1> DEFINE T == Nat \ A
<1>1. T \subseteq Nat /\ T # {}
  OBVIOUS
<1>2. PICK x \in T : \A y \in T : ~(<<y, x>> \in OpToRel(<, Nat))
  <2> HIDE DEF T
  <2> QED BY <1>1, NatLessThanWellFounded, WFMin
<1>3. x \in Nat /\ x # 0 /\ x - 1 \in Nat /\ x - 1 < x
  OBVIOUS
<1>4. x - 1 \in A
  BY <1>2, <1>3 DEF OpToRel
<1>5. x - 1 + 1 \in A
  BY <1>3, <1>4
<1> QED BY <1>3, <1>5

(* A function may be defined by recursion on a number. *)
IsRecursion(f, N, T, base, g) ==
  /\ f \in [0 .. N -> T]
  /\ f[0] = base /\ \A k \in 1 .. N : f[k] = g[<<k, f[k - 1]>>]

LEMMA RecursionExists ==
  ASSUME NEW T, NEW base, base \in T, NEW N, N \in Nat,
         NEW g, g \in [(1 .. N) \X T -> T]
  PROVE  \E f : IsRecursion(f, N, T, base, g)
<1> DEFINE Upto(f, j) == f[0] = base /\ \A k \in 1 .. j : f[k] = g[<<k, f[k - 1]>>]
           A == {j \in Nat : j <= N => \E f \in [0 .. j -> T] : Upto(f, j)}
<1>1. 0 \in A
  <2> DEFINE h == [k \in 0 .. 0 |-> base]
  <2>1. h \in [0 .. 0 -> T] /\ h[0] = base /\ 1 .. 0 = {}
    OBVIOUS
  <2> HIDE DEF h
  <2>2. Upto(h, 0)
    BY <2>1
  <2>3. \E f \in [0 .. 0 -> T] : Upto(f, 0)
    BY <2>1, <2>2
  <2> HIDE DEF Upto
  <2> QED BY <2>3
<1>2. ASSUME NEW j \in Nat, j \in A PROVE j + 1 \in A
  <2> SUFFICES ASSUME j + 1 <= N PROVE \E f \in [0 .. j + 1 -> T] : Upto(f, j + 1)
    OBVIOUS
  <2>1. PICK f \in [0 .. j -> T] : Upto(f, j)
    BY <1>2
  <2> DEFINE last == g[<<j + 1, f[j]>>]
             h == [k \in 0 .. j + 1 |-> IF k = j + 1 THEN last ELSE f[k]]
  <2>2. <<j + 1, f[j]>> \in (1 .. N) \X T
    OBVIOUS
  <2>3. last \in T
    BY <2>2
  <2>4. h \in [0 .. j + 1 -> T]
    BY <2>3
  <2>5. h[0] = base
    BY <2>1
  <2>6. ASSUME NEW k \in 1 .. j + 1 PROVE h[k] = g[<<k, h[k - 1]>>]
    <3>1. h[k - 1] = f[k - 1]
      OBVIOUS
    <3>2. CASE k = j + 1
      <4>1. k - 1 = j /\ h[k] = last
        <5>1. k - 1 = j
          BY <3>2
        <5>2. k \in 0 .. j + 1
          OBVIOUS
        <5> HIDE DEF last
        <5> QED BY <3>2, <5>1, <5>2
      <4> HIDE DEF h
      <4> QED BY <3>1, <3>2, <4>1
    <3>3. CASE k # j + 1
      <4>1. k \in 1 .. j /\ h[k] = f[k]
        BY <3>3
      <4>2. f[k] = g[<<k, f[k - 1]>>]
        BY <2>1, <4>1
      <4> HIDE DEF h
      <4> QED BY <3>1, <4>1, <4>2
    <3> QED BY <3>2, <3>3
  <2> QED BY <2>4, <2>5, <2>6
<1>3. N \in A
  <2> HIDE DEF A
  <2> QED BY <1>1, <1>2, SetInduction
<1> QED BY <1>3 DEF IsRecursion

(* Clean, one element after the other. *)
IsCleaning(f, S, p) ==
  /\ f \in [0 .. Len(p) -> Seq(S)]
  /\ f[0] = <<>> /\ Clean(p) = f[Len(p)]
  /\ \A k \in 1 .. Len(p) : f[k] = Enter(f[k - 1], p[k])

LEMMA EnterType ==
  ASSUME NEW S, NEW q \in Seq(S), NEW s \in S
  PROVE  Enter(q, s) \in Seq(S)
<1>1. CASE s \notin {".", ".."}
  BY <1>1 DEF Enter
<1>2. CASE s \in {".", ".."} /\ (s = "." \/ q = <<>>)
  BY <1>2 DEF Enter
<1>3. CASE s \in {".", ".."} /\ ~(s = "." \/ q = <<>>)
  <2>1. Enter(q, s) = SubSeq(q, 1, Len(q) - 1)
    BY <1>3 DEF Enter, Front
  <2>2. SubSeq(q, 1, Len(q) - 1) \in Seq(S)
    OBVIOUS
  <2> QED BY <2>1, <2>2
<1> QED BY <1>1, <1>2, <1>3

LEMMA CleanSteps ==
  ASSUME NEW S, NEW p \in Seq(S)
  PROVE  \E f : IsCleaning(f, S, p)
<1> DEFINE N == Len(p)
           g == [x \in (1 .. N) \X Seq(S) |-> Enter(x[2], p[x[1]])]
           Body(f, k) == IF k = 0 THEN <<>> ELSE Enter(f[k - 1], p[k])
           Is(f) == f = [k \in 0 .. N |-> Body(f, k)]
<1>1. N \in Nat /\ <<>> \in Seq(S)
  OBVIOUS
<1>2. g \in [(1 .. N) \X Seq(S) -> Seq(S)]
  <2>1. \A x \in (1 .. N) \X Seq(S) : x[2] \in Seq(S) /\ p[x[1]] \in S
    OBVIOUS
  <2>2. \A x \in (1 .. N) \X Seq(S) : Enter(x[2], p[x[1]]) \in Seq(S)
    BY <2>1, EnterType
  <2> QED BY <2>2
<1>3. PICK e \in [0 .. N -> Seq(S)] :
        e[0] = <<>> /\ \A k \in 1 .. N : e[k] = g[<<k, e[k - 1]>>]
  <2> DEFINE T == Seq(S)
             base == <<>>
  <2>1. base \in T /\ N \in Nat /\ g \in [(1 .. N) \X T -> T]
    BY <1>1, <1>2
  <2> HIDE DEF g, N, T, base
  <2>2. \E e : IsRecursion(e, N, T, base, g)
    BY <2>1, RecursionExists
  <2> QED BY <2>2 DEF T, base, IsRecursion
<1>4. Is(e)
  <2>1. ASSUME NEW k \in 0 .. N PROVE e[k] = Body(e, k)
    <3>1. CASE k = 0
      BY <1>3, <3>1
    <3>2. CASE k # 0
      <4>1. k \in 1 .. N /\ k - 1 \in 0 .. N /\ <<k, e[k - 1]>> \in (1 .. N) \X Seq(S)
        BY <1>3, <3>2
      <4>2. e[k] = g[<<k, e[k - 1]>>]
        BY <1>3, <4>1
      <4> QED BY <3>2, <4>1, <4>2
    <3> QED BY <3>1, <3>2
  <2>2. e = [k \in 0 .. N |-> e[k]]
    BY <1>3
  <2> HIDE DEF Body
  <2>3. [k \in 0 .. N |-> e[k]] = [k \in 0 .. N |-> Body(e, k)]
    BY <2>1
  <2> QED BY <2>2, <2>3
<1> DEFINE F == CHOOSE f : Is(f)
           A == {i \in Nat : i <= N => F[i] \in Seq(S)}
<1>5. Is(F)
  <2> HIDE DEF Is
  <2> QED BY <1>4
<1>6. \A k \in 0 .. N : F[k] = Body(F, k)
  <2> HIDE DEF F, Body
  <2> QED BY <1>5
<1>7. F[0] = <<>> /\ 0 \in A
  <2>1. F[0] = <<>>
    <3> HIDE DEF F
    <3> QED BY <1>1, <1>6
  <2> HIDE DEF F
  <2> QED BY <1>1, <2>1
<1>8. ASSUME NEW i \in Nat, i \in A PROVE i + 1 \in A
  <2> HIDE DEF F
  <2> SUFFICES ASSUME i + 1 <= N PROVE F[i + 1] \in Seq(S)
    OBVIOUS
  <2>1. F[i] \in Seq(S) /\ p[i + 1] \in S
    BY <1>8
  <2>2. F[i + 1] = Enter(F[i], p[i + 1])
    BY <1>6
  <2> QED BY <2>1, <2>2, EnterType
<1>9. \A i \in Nat : i \in A
  <2> HIDE DEF A
  <2> QED BY <1>7, <1>8, SetInduction
<1>10. Clean(p) = F[N]
  BY DEF Clean
<1>11. F \in [0 .. N -> Seq(S)]
  <2>1. ASSUME NEW k \in 0 .. N PROVE F[k] \in Seq(S)
    <3>1. k \in A
      <4> HIDE DEF A
      <4> QED BY <1>1, <1>9
    <3> HIDE DEF F
    <3> QED BY <1>1, <3>1
  <2> HIDE DEF F, Body
  <2> QED BY <1>5, <2>1
<1>12. \A k \in 1 .. N : F[k] = Enter(F[k - 1], p[k])
  <2> HIDE DEF F
  <2> QED BY <1>1, <1>6
<1> HIDE DEF F
<1>13. IsCleaning(F, S, p)
  BY <1>7, <1>10, <1>11, <1>12 DEF IsCleaning
<1> QED BY <1>13

(* Clean takes the last element last. *)
LEMMA CleanAppend ==
  ASSUME NEW S, NEW p \in Seq(S), NEW s \in S
  PROVE  /\ Clean(<<>>) = <<>> /\ Clean(p) \in Seq(S)
         /\ Clean(Append(p, s)) = Enter(Clean(p), s)
<1> DEFINE t == Append(p, s)
           N == Len(p)
<1>1. PICK f : IsCleaning(f, S, p)
  BY CleanSteps
<1>2. t \in Seq(S) /\ Len(t) = N + 1 /\ t[N + 1] = s /\ N \in Nat
      /\ \A k \in 1 .. N : t[k] = p[k]
  OBVIOUS
<1> HIDE DEF t
<1>3. PICK h : IsCleaning(h, S, t)
  BY <1>2, CleanSteps
<1>4. Clean(<<>>) = <<>>
  <2> DEFINE o == <<>>
  <2>1. o \in Seq(S) /\ Len(o) = 0
    OBVIOUS
  <2> HIDE DEF o
  <2>2. PICK e : IsCleaning(e, S, o)
    BY <2>1, CleanSteps
  <2>3. Clean(o) = e[0] /\ e[0] = <<>>
    BY <2>1, <2>2 DEF IsCleaning
  <2> QED BY <2>3 DEF o
<1>5. /\ f \in [0 .. N -> Seq(S)] /\ f[0] = <<>> /\ Clean(p) = f[N]
      /\ \A k \in 1 .. N : f[k] = Enter(f[k - 1], p[k])
  BY <1>1 DEF IsCleaning
<1>6. /\ h[0] = <<>> /\ Clean(t) = h[N + 1]
      /\ \A k \in 1 .. N + 1 : h[k] = Enter(h[k - 1], t[k])
  BY <1>2, <1>3 DEF IsCleaning
<1> DEFINE A == {i \in Nat : i <= N => h[i] = f[i]}
<1>7. 0 \in A
  BY <1>5, <1>6
<1>8. ASSUME NEW i \in Nat, i \in A PROVE i + 1 \in A
  <2> SUFFICES ASSUME i + 1 <= N PROVE h[i + 1] = f[i + 1]
    OBVIOUS
  <2> DEFINE j == i + 1
  <2>1. j \in 1 .. N /\ j \in 1 .. N + 1 /\ j - 1 = i /\ h[i] = f[i]
    BY <1>2, <1>8
  <2> HIDE DEF j
  <2>2. h[j] = f[j]
    BY <1>2, <1>5, <1>6, <2>1
  <2> QED BY <2>2 DEF j
<1>9. N \in A
  <2> HIDE DEF A
  <2> QED BY <1>2, <1>7, <1>8, SetInduction
<1>10. h[N] = f[N]
  BY <1>2, <1>9
<1>11. h[N + 1] = Enter(h[N], t[N + 1])
  <2>1. N + 1 \in 1 .. N + 1 /\ (N + 1) - 1 = N
    BY <1>2
  <2> QED BY <1>6, <2>1
<1>12. Clean(p) \in Seq(S)
  BY <1>2, <1>5
<1> QED BY <1>2, <1>4, <1>5, <1>6, <1>10, <1>11, <1>12 DEF t

(* Induction on a sequence, for a set of sequences. *)
LEMMA SequenceInduction ==
  ASSUME NEW S, NEW A, <<>> \in A,
         \A q \in Seq(S), s \in S : q \in A => Append(q, s) \in A
  PROVE  Seq(S) \subseteq A
<1> DEFINE B == {i \in Nat : \A p \in Seq(S) : Len(p) = i => p \in A}
<1>1. 0 \in B
  OBVIOUS
<1>2. ASSUME NEW i \in Nat, i \in B PROVE i + 1 \in B
  <2> SUFFICES ASSUME NEW p \in Seq(S), Len(p) = i + 1 PROVE p \in A
    OBVIOUS
  <2> DEFINE q == SubSeq(p, 1, i)
             s == p[i + 1]
  <2>1. q \in Seq(S) /\ Len(q) = i /\ s \in S
    OBVIOUS
  <2>2. p = Append(q, s)
    <3>1. Len(Append(q, s)) = i + 1 /\ Append(q, s) \in Seq(S)
      BY <2>1
    <3>2. \A k \in 1 .. i + 1 : Append(q, s)[k] = p[k]
      BY <2>1
    <3> HIDE DEF q, s
    <3> QED BY <3>1, <3>2, SeqEqual
  <2>3. q \in A
    BY <1>2, <2>1
  <2> HIDE DEF q, s
  <2> QED BY <2>1, <2>2, <2>3
<1>3. \A i \in Nat : i \in B
  <2> HIDE DEF B
  <2> QED BY <1>1, <1>2, SetInduction
<1> QED BY <1>3

(* Cleaning leaves no "." and no "..", and a path without them as it is.   *)
LEMMA SegmentsAreElements ==
  /\ Segment \subseteq Element
  /\ \A s \in Element : s \notin {".", ".."} => s \in Segment
  /\ \A s \in Segment : s \notin {".", ".."}
  BY DEF Segment, Element

LEMMA CleanNothing == Clean(<<>>) = <<>>
<1> DEFINE S == {".."}
<1>1. <<>> \in Seq(S) /\ ".." \in S
  OBVIOUS
<1> HIDE DEF S
<1> QED BY <1>1, CleanAppend

LEMMA EnterPath ==
  ASSUME NEW q \in Seq(Segment), NEW s \in Element
  PROVE  Enter(q, s) \in Seq(Segment)
<1>1. CASE s \notin {".", ".."}
  BY <1>1, SegmentsAreElements DEF Enter
<1>2. CASE s \in {".", ".."} /\ (s = "." \/ q = <<>>)
  BY <1>2 DEF Enter
<1>3. CASE s \in {".", ".."} /\ ~(s = "." \/ q = <<>>)
  <2>1. Enter(q, s) = SubSeq(q, 1, Len(q) - 1)
    BY <1>3 DEF Enter, Front
  <2>2. SubSeq(q, 1, Len(q) - 1) \in Seq(Segment)
    OBVIOUS
  <2> QED BY <2>1, <2>2
<1> QED BY <1>1, <1>2, <1>3

LEMMA CleanType ==
  ASSUME NEW p \in Seq(Element)
  PROVE  Clean(p) \in Seq(Segment)
<1> DEFINE A == {q \in Seq(Element) : Clean(q) \in Seq(Segment)}
<1>1. <<>> \in A
  <2>1. <<>> \in Seq(Element) /\ <<>> \in Seq(Segment)
    OBVIOUS
  <2>2. Clean(<<>>) \in Seq(Segment)
    BY <2>1, CleanNothing, Zenon
  <2> QED BY <2>1, <2>2
<1>2. ASSUME NEW q \in Seq(Element), NEW s \in Element, q \in A PROVE Append(q, s) \in A
  <2>1. Clean(Append(q, s)) = Enter(Clean(q), s) /\ Clean(q) \in Seq(Segment)
    BY <1>2, CleanAppend
  <2>2. Clean(Append(q, s)) \in Seq(Segment)
    BY <2>1, EnterPath
  <2> QED BY <2>2
<1>3. p \in A
  <2> HIDE DEF A
  <2> QED BY <1>1, <1>2, SequenceInduction
<1> QED BY <1>3

LEMMA CleanPlain ==
  ASSUME NEW p \in Seq(Segment)
  PROVE  Clean(p) = p
<1> DEFINE A == {q \in Seq(Segment) : Clean(q) = q}
<1>1. <<>> \in A
  BY CleanNothing
<1>2. ASSUME NEW q \in Seq(Segment), NEW s \in Segment, q \in A PROVE Append(q, s) \in A
  <2>1. Clean(Append(q, s)) = Enter(q, s)
    BY <1>2, CleanAppend
  <2>2. Enter(q, s) = Append(q, s)
    BY SegmentsAreElements DEF Enter
  <2> QED BY <2>1, <2>2
<1>3. p \in A
  <2> HIDE DEF A
  <2> QED BY <1>1, <1>2, SequenceInduction
<1> QED BY <1>3

LEMMA PathsAreTexts == Seq(Segment) \subseteq Seq(Element)
  BY SegmentsAreElements, SeqMonotonic

LEMMA ConcatAppend ==
  ASSUME NEW S, NEW p \in Seq(S), NEW q \in Seq(S), NEW s \in S
  PROVE  p \o Append(q, s) = Append(p \o q, s)
  OBVIOUS

(* What comes first may be cleaned first. *)
LEMMA CleanConcat ==
  ASSUME NEW p \in Seq(Element), NEW r \in Seq(Element)
  PROVE  Clean(p \o r) = Clean(Clean(p) \o r)
<1> DEFINE c == Clean(p)
           A == {q \in Seq(Element) : Clean(p \o q) = Clean(c \o q)}
<1>1. c \in Seq(Segment) /\ c \in Seq(Element) /\ Clean(c) = c
  BY CleanType, PathsAreTexts, CleanPlain
<1> HIDE DEF c
<1>2. <<>> \in A
  <2>1. p \o <<>> = p /\ c \o <<>> = c /\ <<>> \in Seq(Element)
    BY <1>1, ConcatEmptySeq
  <2> QED BY <1>1, <2>1 DEF c
<1>3. ASSUME NEW q \in Seq(Element), NEW s \in Element, q \in A PROVE Append(q, s) \in A
  <2>1. p \o q \in Seq(Element) /\ c \o q \in Seq(Element)
    BY <1>1
  <2>2. p \o Append(q, s) = Append(p \o q, s) /\ c \o Append(q, s) = Append(c \o q, s)
    <3>1. p \o Append(q, s) = Append(p \o q, s)
      BY ConcatAppend
    <3>2. c \o Append(q, s) = Append(c \o q, s)
      BY <1>1, ConcatAppend
    <3> QED BY <3>1, <3>2
  <2>3. /\ Clean(Append(p \o q, s)) = Enter(Clean(p \o q), s)
        /\ Clean(Append(c \o q, s)) = Enter(Clean(c \o q), s)
    BY <2>1, CleanAppend
  <2>4. Append(q, s) \in Seq(Element)
    OBVIOUS
  <2> QED BY <1>3, <2>2, <2>3, <2>4
<1>4. r \in A
  <2> HIDE DEF A
  <2> QED BY <1>2, <1>3, SequenceInduction
<1> QED BY <1>4 DEF c

(* So many elements "..". *)
Ups(j) == [i \in 1 .. j |-> ".."]

LEMMA UpIsElement == ".." \in Element
  BY DEF Element

LEMMA UpsType ==
  ASSUME NEW j \in Nat
  PROVE  /\ Ups(j) \in Seq(Element) /\ Len(Ups(j)) = j
         /\ Ups(0) = <<>> /\ Ups(j + 1) = Append(Ups(j), "..")
<1>1. \A i \in Nat : Ups(i) \in Seq(Element) /\ Len(Ups(i)) = i
  BY UpIsElement DEF Ups
<1>2. Ups(0) = <<>>
  BY DEF Ups
<1>3. Ups(j + 1) = Append(Ups(j), "..")
  <2>1. Append(Ups(j), "..") \in Seq(Element) /\ Len(Append(Ups(j), "..")) = j + 1
    BY <1>1, UpIsElement
  <2>2. \A i \in 1 .. j + 1 : Ups(j + 1)[i] = Append(Ups(j), "..")[i]
    <3> TAKE i \in 1 .. j + 1
    <3>1. Ups(j + 1)[i] = ".."
      BY DEF Ups
    <3>2. CASE i = j + 1
      BY <1>1, <3>1, <3>2
    <3>3. CASE i # j + 1
      <4>1. i \in 1 .. j /\ Append(Ups(j), "..")[i] = Ups(j)[i]
        BY <1>1, <3>3
      <4> QED BY <3>1, <4>1 DEF Ups
    <3> QED BY <3>2, <3>3
  <2> QED BY <1>1, <2>1, <2>2, SeqEqual
<1> QED BY <1>1, <1>2, <1>3

(* Each of them takes an element away, while there is one. *)
LEMMA CleanUps ==
  ASSUME NEW b \in Seq(Segment), NEW j \in 0 .. Len(b)
  PROVE  Clean(b \o Ups(j)) = SubSeq(b, 1, Len(b) - j)
<1> DEFINE N == Len(b)
           A == {i \in Nat : i <= N => Clean(b \o Ups(i)) = SubSeq(b, 1, N - i)}
<1>1. N \in Nat /\ b \in Seq(Element)
  BY PathsAreTexts
<1>2. 0 \in A
  <2>1. b \o Ups(0) = b
    BY UpsType, ConcatEmptySeq
  <2>2. SubSeq(b, 1, N - 0) = b
    BY <1>1, SubSeqFull
  <2>3. Clean(b) = b
    BY CleanPlain
  <2> QED BY <2>1, <2>2, <2>3
<1>3. ASSUME NEW i \in Nat, i \in A PROVE i + 1 \in A
  <2> SUFFICES ASSUME i + 1 <= N PROVE Clean(b \o Ups(i + 1)) = SubSeq(b, 1, N - (i + 1))
    OBVIOUS
  <2> DEFINE q == SubSeq(b, 1, N - i)
  <2>1. Ups(i) \in Seq(Element) /\ Ups(i + 1) = Append(Ups(i), "..") /\ ".." \in Element
    BY UpsType, UpIsElement
  <2>2. b \o Ups(i + 1) = Append(b \o Ups(i), "..") /\ b \o Ups(i) \in Seq(Element)
    <3>1. b \o Append(Ups(i), "..") = Append(b \o Ups(i), "..")
      BY <1>1, <2>1, ConcatAppend
    <3>2. b \o Ups(i) \in Seq(Element)
      BY <1>1, <2>1
    <3> QED BY <2>1, <3>1, <3>2
  <2>3. Clean(b \o Ups(i)) = q
    BY <1>1, <1>3
  <2>4. Clean(b \o Ups(i + 1)) = Enter(q, "..")
    BY <2>1, <2>2, <2>3, CleanAppend
  <2>5. q \in Seq(Segment) /\ Len(q) = N - i /\ q # <<>>
    <3> DEFINE l == N - i
    <3>1. l \in Nat /\ l <= N /\ l >= 1
      BY <1>1
    <3> HIDE DEF l
    <3>2. SubSeq(b, 1, l) \in Seq(Segment) /\ Len(SubSeq(b, 1, l)) = l
      BY <1>1, <3>1
    <3>3. SubSeq(b, 1, l) # <<>>
      BY <3>1, <3>2
    <3>4. q = SubSeq(b, 1, l) /\ l = N - i
      BY DEF l
    <3> HIDE DEF q, N
    <3> QED BY <3>2, <3>3, <3>4
  <2>6. Enter(q, "..") = SubSeq(q, 1, (N - i) - 1)
    BY <2>5 DEF Enter, Front
  <2>7. SubSeq(q, 1, (N - i) - 1) = SubSeq(b, 1, N - (i + 1))
    <3> DEFINE l == N - (i + 1)
    <3>1. l \in Nat /\ l <= N - i /\ (N - i) - 1 = l /\ l <= N
      BY <1>1
    <3> HIDE DEF l
    <3>2. SubSeq(q, 1, l) \in Seq(Segment) /\ Len(SubSeq(q, 1, l)) = l
      BY <2>5, <3>1
    <3>3. SubSeq(b, 1, l) \in Seq(Segment) /\ Len(SubSeq(b, 1, l)) = l
      BY <1>1, <3>1
    <3>4. \A k \in 1 .. l : SubSeq(q, 1, l)[k] = SubSeq(b, 1, l)[k]
      BY <1>1, <2>5, <3>1
    <3> HIDE DEF q
    <3>5. SubSeq(q, 1, l) = SubSeq(b, 1, l)
      BY <3>2, <3>3, <3>4, SeqEqual
    <3> QED BY <3>1, <3>5 DEF l
  <2> QED BY <2>4, <2>6, <2>7
<1>4. \A i \in Nat : i \in A
  <2> HIDE DEF A
  <2> QED BY <1>2, <1>3, SetInduction
<1>5. j \in Nat /\ j <= N
  BY <1>1
<1> QED BY <1>4, <1>5

LEMMA CleanOnlyUps == \A j \in Nat : Clean(Ups(j)) = <<>>
<1> DEFINE A == {i \in Nat : Clean(Ups(i)) = <<>>}
<1>1. 0 \in A
  BY UpsType, CleanNothing
<1>2. ASSUME NEW i \in Nat, i \in A PROVE i + 1 \in A
  <2>1. Ups(i) \in Seq(Element) /\ Ups(i + 1) = Append(Ups(i), "..") /\ ".." \in Element
    BY UpsType, UpIsElement
  <2>2. Clean(Ups(i + 1)) = Enter(<<>>, "..")
    BY <1>2, <2>1, CleanAppend
  <2> QED BY <2>2 DEF Enter
<1> HIDE DEF A
<1>3. Nat \subseteq A
  BY <1>1, <1>2, SetInduction
<1> QED BY <1>3 DEF A

(* How much two paths have in common. *)
IsCommon(b, p, k) ==
  /\ k \in 0 .. Len(b) /\ k \in 0 .. Len(p)
  /\ \A i \in 1 .. k : b[i] = p[i]
  /\ (k = Len(b) \/ k = Len(p) \/ b[k + 1] # p[k + 1])

LEMMA CommonPart ==
  ASSUME NEW S, NEW b \in Seq(S), NEW p \in Seq(S)
  PROVE  IsCommon(b, p, Len(LongestCommonPrefix({b, p})))
<1> DEFINE I == {l \in 0 .. Len(b) : l <= Len(p) /\ \A i \in 1 .. l : b[i] = p[i]}
           C == CommonPrefixes({b, p})
<1>1. Len(b) \in Nat /\ Len(p) \in Nat
  OBVIOUS
<1>2. \A l \in I : /\ SubSeq(b, 1, l) \in C /\ Len(SubSeq(b, 1, l)) = l
  <2> TAKE l \in I
  <2>1. l \in Nat /\ l <= Len(b) /\ l <= Len(p)
    OBVIOUS
  <2>2. SubSeq(b, 1, l) \in Seq(S) /\ Len(SubSeq(b, 1, l)) = l
    BY <2>1
  <2>3. SubSeq(p, 1, l) \in Seq(S) /\ Len(SubSeq(p, 1, l)) = l
    BY <2>1
  <2>4. SubSeq(b, 1, l) = SubSeq(p, 1, l)
    <3>1. \A k \in 1 .. l : SubSeq(b, 1, l)[k] = SubSeq(p, 1, l)[k]
      BY <2>1
    <3> QED BY <2>2, <2>3, <3>1, SeqEqual
  <2> DEFINE x == SubSeq(b, 1, l)
  <2>5. SubSeq(x, 1, Len(x)) = x
    BY <2>2, SubSeqFull
  <2>6. IsPrefix(x, b) /\ IsPrefix(x, p)
    BY <2>1, <2>2, <2>4, <2>5 DEF IsPrefix
  <2>7. x \in Prefixes(b)
    BY DEF Prefixes
  <2> HIDE DEF x
  <2>8. x \in C
    BY <2>6, <2>7 DEF CommonPrefixes
  <2> QED BY <2>2, <2>8 DEF x
<1>3. \A x \in C : x \in Seq(S) /\ Len(x) \in I
  <2> TAKE x \in C
  <2>1. IsPrefix(x, b) /\ IsPrefix(x, p)
    BY DEF CommonPrefixes
  <2>2. x \in Prefixes(b) \/ x \in Prefixes(p)
    BY DEF CommonPrefixes
  <2>3. x \in Seq(S)
    BY <2>2 DEF Prefixes
  <2>4. Len(x) \in Nat /\ SubSeq(x, 1, Len(x)) = x
    BY <2>3, SubSeqFull
  <2>5. Len(x) <= Len(b) /\ Len(x) <= Len(p)
        /\ x = SubSeq(b, 1, Len(x)) /\ x = SubSeq(p, 1, Len(x))
    BY <2>1, <2>4 DEF IsPrefix
  <2> DEFINE l == Len(x)
  <2>6. l \in 0 .. Len(b) /\ l <= Len(p)
    BY <1>1, <2>4, <2>5
  <2>7. \A i \in 1 .. l : b[i] = SubSeq(b, 1, l)[i] /\ p[i] = SubSeq(p, 1, l)[i]
    <3> HIDE DEF l
    <3> QED BY <1>1, <2>6
  <2>8. \A i \in 1 .. l : b[i] = p[i]
    BY <2>5, <2>7
  <2> QED BY <2>3, <2>6, <2>8
<1>4. \E x \in C : \A y \in C : Len(y) <= Len(x)
  <2> DEFINE T == {Len(b) - l : l \in I}
  <2>1. T \subseteq Nat /\ T # {}
    <3>1. 0 \in I
      BY <1>1
    <3> QED BY <1>1, <3>1
  <2>2. PICK t \in T : \A y \in T : ~(<<y, t>> \in OpToRel(<, Nat))
    <3> HIDE DEF T
    <3> QED BY <2>1, NatLessThanWellFounded, WFMin
  <2>3. PICK l \in I : t = Len(b) - l
    OBVIOUS
  <2>4. ASSUME NEW y \in C PROVE Len(y) <= l
    <3>1. Len(b) - Len(y) \in T
      BY <1>3
    <3>2. ~(Len(b) - Len(y) < Len(b) - l)
      BY <2>1, <2>2, <2>3, <3>1 DEF OpToRel
    <3>3. Len(y) \in Int /\ l \in Int /\ Len(b) \in Int
      BY <1>1, <1>3
    <3> QED BY ONLY <3>2, <3>3
  <2> QED BY <1>2, <2>4
<1> DEFINE x == LongestCommonPrefix({b, p})
           k == Len(x)
<1>5. x \in C /\ \A y \in C : Len(y) <= k
  <2> HIDE DEF C
  <2>1. x = CHOOSE z \in C : \A y \in C : Len(y) <= Len(z)
    BY DEF LongestCommonPrefix, C
  <2> HIDE DEF x
  <2> QED BY <1>4, <2>1
<1> HIDE DEF x
<1>6. k \in I
  BY <1>3, <1>5
<1>7. ASSUME k # Len(b), k # Len(p) PROVE b[k + 1] # p[k + 1]
  <2> SUFFICES ASSUME b[k + 1] = p[k + 1] PROVE FALSE
    OBVIOUS
  <2>1. k \in Nat /\ k + 1 <= Len(b) /\ k + 1 <= Len(p) /\ \A i \in 1 .. k : b[i] = p[i]
    BY <1>1, <1>6, <1>7
  <2> HIDE DEF k
  <2>2. \A i \in 1 .. k + 1 : b[i] = p[i]
    <3> TAKE i \in 1 .. k + 1
    <3>1. i = k + 1 \/ i \in 1 .. k
      BY <2>1
    <3> QED BY <2>1, <3>1
  <2>3. k + 1 \in I
    BY <1>1, <2>1, <2>2
  <2>4. k + 1 <= k
    BY <1>2, <1>5, <2>3
  <2> QED BY <2>1, <2>4
<1>8. k \in 0 .. Len(b) /\ k \in 0 .. Len(p) /\ \A i \in 1 .. k : b[i] = p[i]
  <2> HIDE DEF k
  <2> QED BY <1>1, <1>6
<1> HIDE DEF k
<1>9. IsCommon(b, p, k)
  BY <1>7, <1>8 DEF IsCommon
<1> QED BY <1>9 DEF k, x

(* A path is its first elements and the others. *)
LEMMA SplitPath ==
  ASSUME NEW S, NEW p \in Seq(S), NEW k \in 0 .. Len(p)
  PROVE  /\ SubSeq(p, 1, k) \in Seq(S) /\ Len(SubSeq(p, 1, k)) = k
         /\ SubSeq(p, k + 1, Len(p)) \in Seq(S)
         /\ SubSeq(p, 1, k) \o SubSeq(p, k + 1, Len(p)) = p
<1> DEFINE a == SubSeq(p, 1, k)
           b == SubSeq(p, k + 1, Len(p))
<1>1. k \in Nat /\ Len(p) \in Nat /\ k <= Len(p)
  OBVIOUS
<1>2. a \in Seq(S) /\ Len(a) = k /\ \A i \in 1 .. k : a[i] = p[i]
  BY <1>1
<1>3. b \in Seq(S) /\ Len(b) = Len(p) - k /\ \A i \in 1 .. Len(p) - k : b[i] = p[k + i]
  BY <1>1
<1> HIDE DEF a, b
<1>4. a \o b \in Seq(S) /\ Len(a \o b) = Len(p)
  BY <1>1, <1>2, <1>3
<1>5. ASSUME NEW i \in 1 .. Len(p) PROVE (a \o b)[i] = p[i]
  <2>1. CASE i <= k
    <3>1. i \in 1 .. k
      BY <1>1, <2>1
    <3>2. (a \o b)[i] = a[i]
      BY <1>1, <1>2, <1>3, <3>1
    <3> QED BY <1>2, <3>1, <3>2, Zenon
  <2>2. CASE i > k
    <3>1. PICK j \in 1 .. Len(p) - k : i = k + j
      <4>1. i - k \in 1 .. Len(p) - k /\ i = k + (i - k)
        BY <1>1, <2>2
      <4> QED BY <4>1
    <3>2. (a \o b)[i] = b[j]
      BY <1>1, <1>2, <1>3, <2>2, <3>1
    <3>3. b[j] = p[k + j]
      BY <1>3
    <3> QED BY <3>1, <3>2, <3>3
  <2>3. i <= k \/ i > k
    BY <1>1
  <2> QED BY <2>1, <2>2, <2>3, Zenon
<1>6. a \o b = p
  BY <1>4, <1>5, SeqEqual
<1> QED BY <1>2, <1>3, <1>6 DEF a, b

LEMMA RelParts ==
  ASSUME NEW b \in Seq(Segment), NEW p \in Seq(Segment)
  PROVE  \E k : /\ IsCommon(b, p, k)
                /\ Rel(b, p) = Ups(Len(b) - k) \o SubSeq(p, k + 1, Len(p))
<1> DEFINE k == Len(LongestCommonPrefix({b, p}))
<1>1. IsCommon(b, p, k)
  BY CommonPart
<1>2. Rel(b, p) = Ups(Len(b) - k) \o SubSeq(p, k + 1, Len(p))
  BY DEF Rel, Ups
<1> HIDE DEF k
<1> QED BY <1>1, <1>2

LEMMA ConcatAssoc ==
  ASSUME NEW S, NEW p \in Seq(S), NEW q \in Seq(S), NEW r \in Seq(S)
  PROVE  p \o (q \o r) = (p \o q) \o r
  OBVIOUS

(* From the base, Rel leads to the path. *)
LEMMA RelLeadsBack ==
  ASSUME NEW b \in Seq(Segment), NEW p \in Seq(Segment)
  PROVE  Rel(b, p) \in Seq(Element) /\ Clean(b \o Rel(b, p)) = p
<1>1. PICK k : /\ IsCommon(b, p, k)
               /\ Rel(b, p) = Ups(Len(b) - k) \o SubSeq(p, k + 1, Len(p))
  BY RelParts
<1> DEFINE j == Len(b) - k
           a == SubSeq(p, k + 1, Len(p))
           c == SubSeq(b, 1, k)
<1>2. /\ Len(b) \in Nat /\ k \in 0 .. Len(b) /\ k \in 0 .. Len(p)
      /\ \A i \in 1 .. k : b[i] = p[i]
  BY <1>1 DEF IsCommon
<1>3. j \in Nat /\ j \in 0 .. Len(b) /\ Len(b) - j = k
  BY <1>2
<1>4. /\ SubSeq(p, 1, k) \in Seq(Segment) /\ Len(SubSeq(p, 1, k)) = k
      /\ a \in Seq(Segment) /\ SubSeq(p, 1, k) \o a = p
  BY <1>2, SplitPath
<1>5. c \in Seq(Segment) /\ Len(c) = k
  BY <1>2, SplitPath
<1>6. c = SubSeq(p, 1, k)
  <2>1. \A i \in 1 .. k : c[i] = SubSeq(p, 1, k)[i]
    BY <1>2
  <2> HIDE DEF c
  <2> QED BY <1>4, <1>5, <2>1, SeqEqual
<1> HIDE DEF a, c, j
<1>7. Rel(b, p) = Ups(j) \o a
  BY <1>1 DEF a, j
<1>8. Ups(j) \in Seq(Element) /\ a \in Seq(Element) /\ b \in Seq(Element)
  BY <1>3, <1>4, UpsType, PathsAreTexts
<1>9. Rel(b, p) \in Seq(Element)
  BY <1>7, <1>8
<1>10. b \o Rel(b, p) = (b \o Ups(j)) \o a
  <2> DEFINE S == Element
             u == Ups(j)
  <2>1. b \in Seq(S) /\ u \in Seq(S) /\ a \in Seq(S)
    BY <1>8
  <2> HIDE DEF S, u
  <2>2. b \o (u \o a) = (b \o u) \o a
    BY <2>1, ConcatAssoc
  <2> QED BY <1>7, <2>2 DEF u
<1>11. b \o Ups(j) \in Seq(Element)
  BY <1>8
<1>12. Clean((b \o Ups(j)) \o a) = Clean(Clean(b \o Ups(j)) \o a)
  BY <1>8, <1>11, CleanConcat
<1>13. Clean(b \o Ups(j)) = c
  BY <1>3, CleanUps DEF c
<1>14. Clean(c \o a) = p
  BY <1>4, <1>6, CleanPlain
<1> QED BY <1>9, <1>10, <1>12, <1>13, <1>14

(* Rel to a path that shares just its first elements with the base. *)
LEMMA RelOfUnder ==
  ASSUME NEW b \in Seq(Segment), NEW c \in Seq(Segment), NEW r \in 0 .. Len(b),
         r < Len(b) => \A i \in DOMAIN b, l \in DOMAIN c : b[i] # c[l]
  PROVE  Clean(Rel(b, SubSeq(b, 1, r) \o c)) = c
<1> DEFINE h == SubSeq(b, 1, r)
           p == h \o c
<1>1. Len(b) \in Nat /\ Len(c) \in Nat /\ r \in Nat /\ r <= Len(b)
  OBVIOUS
<1>2. h \in Seq(Segment) /\ Len(h) = r /\ \A i \in 1 .. r : h[i] = b[i]
  BY <1>1
<1> HIDE DEF h
<1>3. /\ p \in Seq(Segment) /\ Len(p) = r + Len(c)
      /\ \A i \in 1 .. r : p[i] = b[i]
      /\ \A i \in 1 .. Len(c) : p[r + i] = c[i]
  BY <1>1, <1>2
<1>4. SubSeq(p, r + 1, Len(p)) = c
  <2> DEFINE a == SubSeq(p, r + 1, Len(p))
  <2>1. a \in Seq(Segment) /\ Len(a) = Len(c) /\ \A i \in 1 .. Len(c) : a[i] = p[r + i]
    <3> HIDE DEF p
    <3> QED BY <1>1, <1>3
  <2> HIDE DEF a, p
  <2>2. \A i \in 1 .. Len(c) : a[i] = c[i]
    BY <1>3, <2>1
  <2>3. a = c
    BY <2>1, <2>2, SeqEqual
  <2> QED BY <2>3 DEF a
<1> HIDE DEF p
<1>5. PICK k : /\ IsCommon(b, p, k)
               /\ Rel(b, p) = Ups(Len(b) - k) \o SubSeq(p, k + 1, Len(p))
  BY <1>3, RelParts
<1>6. /\ k \in 0 .. Len(b) /\ k \in 0 .. Len(p)
      /\ \A i \in 1 .. k : b[i] = p[i]
      /\ (k = Len(b) \/ k = Len(p) \/ b[k + 1] # p[k + 1])
  BY <1>5 DEF IsCommon
<1>7. ~(k < r)
  <2> SUFFICES ASSUME k < r PROVE FALSE
    OBVIOUS
  <2>1. k \in Nat /\ k + 1 \in 1 .. r /\ k # Len(b) /\ k # Len(p)
    BY <1>1, <1>3, <1>6
  <2> QED BY <1>3, <1>6, <2>1
<1>8. ~(k > r)
  <2> SUFFICES ASSUME k > r PROVE FALSE
    OBVIOUS
  <2>1. r < Len(b) /\ r + 1 \in 1 .. k /\ r + 1 \in 1 .. Len(b) /\ 1 \in 1 .. Len(c)
    BY <1>1, <1>3, <1>6
  <2>2. b[r + 1] = p[r + 1] /\ p[r + 1] = c[1]
    BY <1>3, <1>6, <2>1
  <2>3. r + 1 \in DOMAIN b /\ 1 \in DOMAIN c
    BY <2>1
  <2> QED BY <2>1, <2>2, <2>3
<1>9. k = r
  BY <1>1, <1>6, <1>7, <1>8
<1> DEFINE j == Len(b) - r
<1>10. Rel(b, p) = Ups(j) \o c /\ j \in Nat
  <2>1. Rel(b, p) = Ups(Len(b) - r) \o SubSeq(p, r + 1, Len(p))
    BY <1>5, <1>9, Zenon
  <2>2. Len(b) - r \in Nat
    BY <1>1
  <2> QED BY <1>4, <2>1, <2>2
<1> HIDE DEF j
<1>11. Ups(j) \in Seq(Element) /\ c \in Seq(Element)
  BY <1>10, UpsType, PathsAreTexts
<1>12. Clean(Ups(j) \o c) = Clean(Clean(Ups(j)) \o c)
  BY <1>11, CleanConcat
<1>13. Clean(Ups(j)) = <<>>
  BY <1>10, CleanOnlyUps
<1>14. <<>> \o c = c
  BY ConcatEmptySeq
<1>15. Clean(c) = c
  BY CleanPlain
<1> QED BY <1>10, <1>12, <1>13, <1>14, <1>15 DEF p, h

(* Under the root a path stays what it is without it, with so much of the  *)
(* root as it has not left on its way.                                     *)
Left(e, q) == \E i \in DOMAIN q : Len(Clean(e \o SubSeq(q, 1, i))) < Len(Root)
From(q, g) == \A l \in DOMAIN g : \E i \in DOMAIN q : g[l] = q[i]
UnderRoot(d, q, r) ==
  /\ r \in 0 .. Len(Root)
  /\ Clean((Root \o d) \o q) = SubSeq(Root, 1, r) \o Clean(d \o q)
  /\ r < Len(Root) => Left(Root \o d, q) /\ From(q, Clean(d \o q))

LEMMA FromAppend ==
  ASSUME NEW q \in Seq(Element), NEW g, From(q, g), NEW s
  PROVE  From(Append(q, s), g)
<1> SUFFICES ASSUME NEW l \in DOMAIN g
             PROVE  \E i \in DOMAIN Append(q, s) : g[l] = Append(q, s)[i]
  BY DEF From
<1>1. PICK i \in DOMAIN q : g[l] = q[i]
  BY DEF From
<1>2. i \in DOMAIN Append(q, s) /\ Append(q, s)[i] = q[i]
  OBVIOUS
<1> QED BY <1>1, <1>2

LEMMA LeftAppend ==
  ASSUME NEW e, NEW q \in Seq(Element), Left(e, q), NEW s \in Element
  PROVE  Left(e, Append(q, s))
<1> DEFINE t == Append(q, s)
<1>1. PICK i \in DOMAIN q : Len(Clean(e \o SubSeq(q, 1, i))) < Len(Root)
  BY DEF Left
<1>2. i \in DOMAIN t
  OBVIOUS
<1>3. SubSeq(t, 1, i) = SubSeq(q, 1, i)
  <2>1. i \in Nat /\ i <= Len(q) /\ i <= Len(t) /\ t \in Seq(Element)
    OBVIOUS
  <2>2. \A k \in 1 .. i : t[k] = q[k]
    BY <2>1
  <2> HIDE DEF t
  <2>3. SubSeq(t, 1, i) \in Seq(Element) /\ Len(SubSeq(t, 1, i)) = i
        /\ \A k \in 1 .. i : SubSeq(t, 1, i)[k] = t[k]
    BY <2>1
  <2>4. SubSeq(q, 1, i) \in Seq(Element) /\ Len(SubSeq(q, 1, i)) = i
        /\ \A k \in 1 .. i : SubSeq(q, 1, i)[k] = q[k]
    BY <2>1
  <2>5. \A k \in 1 .. i : SubSeq(t, 1, i)[k] = SubSeq(q, 1, i)[k]
    BY <2>2, <2>3, <2>4
  <2> QED BY <2>3, <2>4, <2>5, SeqEqual
<1> HIDE DEF t
<1>4. Left(e, t)
  BY <1>1, <1>2, <1>3 DEF Left
<1> QED BY <1>4 DEF t

LEMMA FrontConcat ==
  ASSUME NEW a \in Seq(Segment), NEW g \in Seq(Segment), g # <<>>
  PROVE  /\ SubSeq(g, 1, Len(g) - 1) \in Seq(Segment) /\ a \o g # <<>>
         /\ SubSeq(a \o g, 1, Len(a \o g) - 1) = a \o SubSeq(g, 1, Len(g) - 1)
<1> DEFINE n == Len(g) - 1
           h == SubSeq(g, 1, n)
           p == a \o g
<1>1. n \in Nat /\ Len(g) = n + 1 /\ Len(a) \in Nat
  OBVIOUS
<1> HIDE DEF n
<1>2. h \in Seq(Segment) /\ Len(h) = n /\ \A i \in 1 .. n : h[i] = g[i]
  BY <1>1
<1> HIDE DEF h
<1>3. p \in Seq(Segment) /\ Len(p) = Len(a) + n + 1
      /\ \A i \in 1 .. Len(a) + n + 1 : p[i] = IF i <= Len(a) THEN a[i] ELSE g[i - Len(a)]
  BY <1>1
<1> HIDE DEF p
<1> DEFINE f == SubSeq(p, 1, Len(p) - 1)
           k == a \o h
<1>4. f \in Seq(Segment) /\ Len(f) = Len(a) + n /\ \A i \in 1 .. Len(a) + n : f[i] = p[i]
  <2>1. Len(p) - 1 = Len(a) + n /\ Len(a) + n \in Nat /\ Len(a) + n <= Len(p)
    BY <1>1, <1>3
  <2> QED BY <1>3, <2>1
<1>5. k \in Seq(Segment) /\ Len(k) = Len(a) + n
      /\ \A i \in 1 .. Len(a) + n : k[i] = IF i <= Len(a) THEN a[i] ELSE h[i - Len(a)]
  BY <1>1, <1>2
<1> HIDE DEF f, k
<1>6. ASSUME NEW i \in 1 .. Len(a) + n PROVE f[i] = k[i]
  <2>1. CASE i <= Len(a)
    BY <1>1, <1>3, <1>4, <1>5, <2>1
  <2>2. CASE i > Len(a)
    <3>1. i - Len(a) \in 1 .. n /\ i \in 1 .. Len(a) + n + 1 /\ ~(i <= Len(a))
      BY <1>1, <2>2
    <3>2. f[i] = g[i - Len(a)]
      BY <1>3, <1>4, <3>1
    <3>3. k[i] = h[i - Len(a)]
      BY <1>5, <3>1
    <3> QED BY <1>2, <3>1, <3>2, <3>3
  <2> QED BY <1>1, <2>1, <2>2
<1>7. f = k
  BY <1>4, <1>5, <1>6, SeqEqual
<1>8. p # <<>>
  BY <1>1, <1>3
<1> QED BY <1>2, <1>7, <1>8 DEF f, k, h, p, n

LEMMA UnderRootStep ==
  ASSUME Root \in Seq(Segment), NEW d \in Seq(Segment), NEW q \in Seq(Element),
         NEW r, UnderRoot(d, q, r), NEW s \in Element
  PROVE  \E x : UnderRoot(d, Append(q, s), x)
<1> DEFINE e == Root \o d
           t == Append(q, s)
           g == Clean(d \o q)
           w == Clean(e \o q)
           h == SubSeq(Root, 1, r)
<1>1. /\ r \in 0 .. Len(Root) /\ w = h \o g
      /\ r < Len(Root) => Left(e, q) /\ From(q, g)
  BY DEF UnderRoot
<1>2. Len(Root) \in Nat /\ r \in Nat /\ r <= Len(Root)
  BY <1>1
<1>3. h \in Seq(Segment) /\ Len(h) = r /\ \A i \in 1 .. r : h[i] = Root[i]
  BY <1>2
<1>4. e \in Seq(Element) /\ d \in Seq(Element) /\ t \in Seq(Element)
  <2>1. e \in Seq(Segment)
    OBVIOUS
  <2> HIDE DEF e
  <2> QED BY <2>1, PathsAreTexts
<1> HIDE DEF e
<1>5. e \o q \in Seq(Element) /\ d \o q \in Seq(Element)
  BY <1>4
<1>6. g \in Seq(Segment)
  BY <1>5, CleanType
<1>7. Clean(e \o t) = Enter(w, s) /\ Clean(d \o t) = Enter(g, s)
  <2>1. e \o t = Append(e \o q, s) /\ d \o t = Append(d \o q, s)
    <3>1. e \o Append(q, s) = Append(e \o q, s)
      BY <1>4, ConcatAppend
    <3>2. d \o Append(q, s) = Append(d \o q, s)
      BY <1>4, ConcatAppend
    <3> QED BY <3>1, <3>2
  <2> HIDE DEF t
  <2> QED BY <1>5, <2>1, CleanAppend
<1> HIDE DEF g, w, h
<1>8. ASSUME NEW x \in 0 .. Len(Root), NEW k \in Seq(Segment),
             Enter(w, s) = SubSeq(Root, 1, x) \o k, Enter(g, s) = k,
             x < Len(Root) => Left(e, t) /\ From(t, k)
      PROVE  UnderRoot(d, t, x)
  <2> HIDE DEF t
  <2> QED BY <1>7, <1>8 DEF UnderRoot, e
<1>9. CASE s \notin {".", ".."}
  <2>1. Enter(w, s) = Append(h \o g, s) /\ Enter(g, s) = Append(g, s)
    BY <1>1, <1>9 DEF Enter
  <2>2. s \in Segment
    BY <1>9, SegmentsAreElements
  <2>3. Append(h \o g, s) = h \o Append(g, s) /\ Append(g, s) \in Seq(Segment)
    <3>1. h \o Append(g, s) = Append(h \o g, s)
      BY <1>3, <1>6, <2>2, ConcatAppend
    <3> QED BY <1>6, <2>2, <3>1
  <2>4. From(q, g) => From(t, Append(g, s))
    <3> SUFFICES ASSUME From(q, g), NEW l \in DOMAIN Append(g, s)
                 PROVE  \E i \in DOMAIN t : Append(g, s)[l] = t[i]
      BY DEF From
    <3>1. CASE l \in DOMAIN g
      <4>1. PICK i \in DOMAIN q : g[l] = q[i]
        BY <3>1 DEF From
      <4>2. i \in DOMAIN t /\ t[i] = q[i] /\ Append(g, s)[l] = g[l]
        BY <1>6, <3>1
      <4> HIDE DEF t
      <4> QED BY <4>1, <4>2
    <3>2. CASE l = Len(g) + 1
      <4>1. Append(g, s)[l] = s /\ Len(q) + 1 \in DOMAIN t /\ t[Len(q) + 1] = s
        BY <1>6, <3>2
      <4> HIDE DEF t
      <4> QED BY <4>1
    <3> QED BY <1>6, <3>1, <3>2
  <2>5. r < Len(Root) => Left(e, t) /\ From(t, Append(g, s))
    BY <1>1, <1>4, <2>4, LeftAppend
  <2>6. Enter(w, s) = SubSeq(Root, 1, r) \o Append(g, s)
    BY <2>1, <2>3 DEF h
  <2> DEFINE k == Append(g, s)
  <2>7. /\ k \in Seq(Segment) /\ Enter(g, s) = k
        /\ Enter(w, s) = SubSeq(Root, 1, r) \o k
        /\ r < Len(Root) => Left(e, t) /\ From(t, k)
    BY <2>1, <2>3, <2>5, <2>6
  <2> HIDE DEF k, t
  <2>8. UnderRoot(d, t, r)
    BY <1>1, <1>8, <2>7
  <2> QED BY <2>8 DEF t
<1>10. CASE s = ".." /\ g # <<>>
  <2> DEFINE k == SubSeq(g, 1, Len(g) - 1)
  <2>1. k \in Seq(Segment) /\ h \o g # <<>>
        /\ SubSeq(h \o g, 1, Len(h \o g) - 1) = h \o k
    BY <1>3, <1>6, <1>10, FrontConcat
  <2>2. Enter(g, s) = k
    BY <1>10 DEF Enter, Front
  <2>3. Enter(w, s) = SubSeq(h \o g, 1, Len(h \o g) - 1)
    <3> DEFINE v == h \o g
    <3>1. w = v /\ v # <<>>
      BY <1>1, <2>1
    <3> HIDE DEF v
    <3>2. Enter(w, s) = SubSeq(v, 1, Len(v) - 1)
      BY <1>10, <3>1 DEF Enter, Front
    <3> QED BY <3>2 DEF v
  <2>4. From(q, g) => From(q, k)
    <3> SUFFICES ASSUME From(q, g), NEW l \in DOMAIN k
                 PROVE  \E i \in DOMAIN q : k[l] = q[i]
      BY DEF From
    <3>1. l \in DOMAIN g /\ k[l] = g[l]
      BY <1>6, <1>10
    <3> HIDE DEF k
    <3> QED BY <3>1 DEF From
  <2>5. From(q, g) => From(t, k)
    <3> HIDE DEF k
    <3> QED BY <2>4, FromAppend
  <2>6. r < Len(Root) => Left(e, t) /\ From(t, k)
    BY <1>1, <1>4, <2>5, LeftAppend
  <2> HIDE DEF k, t
  <2>7. Enter(w, s) = SubSeq(Root, 1, r) \o k
    BY <2>1, <2>3 DEF h
  <2>8. UnderRoot(d, t, r)
    BY <1>1, <1>8, <2>1, <2>2, <2>6, <2>7
  <2> QED BY <2>8 DEF t
<1>11. CASE s = ".." /\ g = <<>>
  <2> DEFINE k == <<>>
  <2>1. Enter(g, s) = k /\ k \in Seq(Segment) /\ From(t, k)
    BY <1>11 DEF Enter, From
  <2>2. w = h
    BY <1>1, <1>3, <1>11, ConcatEmptySeq
  <2>3. CASE r = 0
    <3>1. h = <<>> /\ Enter(w, s) = <<>>
      BY <1>3, <1>11, <2>2, <2>3 DEF Enter
    <3>2. Enter(w, s) = h \o k
      BY <3>1, ConcatEmptySeq
    <3>3. r < Len(Root) => Left(e, t)
      BY <1>1, <1>4, LeftAppend
    <3> HIDE DEF k, t
    <3>4. Enter(w, s) = SubSeq(Root, 1, r) \o k
      BY <3>2 DEF h
    <3>5. UnderRoot(d, t, r)
      BY <1>1, <1>8, <2>1, <3>3, <3>4
    <3> QED BY <3>5 DEF t
  <2>4. CASE r # 0
    <3> DEFINE x == r - 1
               y == SubSeq(Root, 1, x)
    <3>1. x \in 0 .. Len(Root) /\ x \in Nat /\ x < Len(Root) /\ x < r
      BY <1>2, <2>4
    <3>2. Enter(w, s) = y
      <4>1. Enter(w, s) = SubSeq(h, 1, Len(h) - 1)
        BY <1>3, <1>11, <2>2, <2>4 DEF Enter, Front
      <4>2. Len(h) - 1 = x
        BY <1>3
      <4> HIDE DEF x
      <4>3. SubSeq(h, 1, x) \in Seq(Segment) /\ Len(SubSeq(h, 1, x)) = x
            /\ \A i \in 1 .. x : SubSeq(h, 1, x)[i] = h[i]
        BY <1>2, <1>3, <3>1
      <4>4. y \in Seq(Segment) /\ Len(y) = x /\ \A i \in 1 .. x : y[i] = Root[i]
        BY <1>2, <3>1
      <4> HIDE DEF y
      <4>5. \A i \in 1 .. x : SubSeq(h, 1, x)[i] = y[i]
        BY <1>2, <1>3, <3>1, <4>3, <4>4
      <4>6. SubSeq(h, 1, x) = y
        BY <4>3, <4>4, <4>5, SeqEqual
      <4> QED BY <4>1, <4>2, <4>6
    <3>3. y \in Seq(Segment) /\ Len(y) = x
      <4> HIDE DEF x
      <4> QED BY <1>2, <3>1
    <3>4. Enter(w, s) = y \o k
      <4> HIDE DEF y
      <4> QED BY <3>2, <3>3, ConcatEmptySeq
    <3>5. Left(e, t)
      <4> DEFINE i == Len(t)
      <4>1. i \in DOMAIN t /\ SubSeq(t, 1, i) = t
        BY SubSeqFull
      <4>2. Len(Clean(e \o t)) < Len(Root)
        <5> HIDE DEF x, y, t
        <5> QED BY <1>7, <3>1, <3>2, <3>3
      <4> HIDE DEF t
      <4> QED BY <4>1, <4>2 DEF Left
    <3> HIDE DEF k, t, x
    <3>6. UnderRoot(d, t, x)
      BY <1>8, <2>1, <3>1, <3>4, <3>5
    <3> QED BY <3>6 DEF t
  <2> QED BY <2>3, <2>4
<1>12. CASE s = "."
  <2>1. Enter(w, s) = w /\ Enter(g, s) = g
    BY <1>12 DEF Enter
  <2>2. r < Len(Root) => Left(e, t) /\ From(t, g)
    BY <1>1, <1>4, LeftAppend, FromAppend
  <2> HIDE DEF t
  <2>3. UnderRoot(d, t, r)
    BY <1>1, <1>6, <1>8, <2>1, <2>2 DEF h
  <2> QED BY <2>3 DEF t
<1> QED BY <1>9, <1>10, <1>11, <1>12

LEMMA CleanUnderRoot ==
  ASSUME Root \in Seq(Segment), NEW d \in Seq(Segment), NEW q \in Seq(Element)
  PROVE  \E r : UnderRoot(d, q, r)
<1> DEFINE A == {x \in Seq(Element) : \E r : UnderRoot(d, x, r)}
<1>1. <<>> \in A
  <2> DEFINE o == <<>>
             e == Root \o d
             n == Len(Root)
  <2>1. e \in Seq(Segment) /\ n \in 0 .. n /\ ~(n < n) /\ o \in Seq(Element)
    OBVIOUS
  <2>2. e \o o = e /\ d \o o = d
    BY <2>1, ConcatEmptySeq
  <2>3. Clean(e) = e /\ Clean(d) = d
    BY <2>1, CleanPlain
  <2>4. SubSeq(Root, 1, n) = Root
    BY SubSeqFull
  <2> HIDE DEF o, n
  <2>5. UnderRoot(d, o, n)
    BY <2>1, <2>2, <2>3, <2>4 DEF UnderRoot, n
  <2> QED BY <2>1, <2>5 DEF o
<1>2. ASSUME NEW x \in Seq(Element), NEW s \in Element, x \in A PROVE Append(x, s) \in A
  <2>1. PICK r : UnderRoot(d, x, r)
    BY <1>2
  <2>2. \E y : UnderRoot(d, Append(x, s), y)
    BY <2>1, UnderRootStep
  <2>3. Append(x, s) \in Seq(Element)
    OBVIOUS
  <2> QED BY <2>2, <2>3
<1>3. q \in A
  <2> HIDE DEF A
  <2> QED BY <1>1, <1>2, SequenceInduction
<1> QED BY <1>3
-----------------------------------------------------------------------------
(* Links.                                                                  *)

LEMMA PathsAreSegments ==
  /\ Root \in Seq(Segment) /\ NewDir \in Seq(Segment)
  /\ \A d \in Dirs : d \in Seq(Segment)
  /\ Names \subseteq Segment
  /\ \A t \in Texts : /\ t.abs \in BOOLEAN /\ t.segs \in Seq(Element)
                      /\ t.segs = <<>> => t.abs
                      /\ t.segs # <<>> => Last(t.segs) \in Names \cup {".", ".."}
  BY UsrMergeAssumption DEF Dirs

(* A path that climbs out of destdir keeps no name of the path of destdir, *)
(* unless it is odd.                                                       *)
LEMMA ClimbsLeft ==
  ASSUME NEW d \in Dirs, NEW t \in Texts, ~Odd(d, t), ~t.abs, Left(Root \o d, t.segs)
  PROVE  \A i \in DOMAIN Root, l \in DOMAIN t.segs : Root[i] # t.segs[l]
<1>1. Climbs(d, t)
  BY DEF Left, Climbs
<1>2. ToSet(t.segs) \cap ToSet(Root) = {}
  BY <1>1 DEF Odd
<1> QED BY <1>2 DEF ToSet

(* Under the root a link leads where it leads from the root. *)
LEMMA ResolveIsGoal ==
  ASSUME NEW d \in Dirs, NEW t \in Texts, ~Odd(d, t)
  PROVE  ResolveUnderRoot(d, t) = Goal(d, t)
<1> DEFINE q == t.segs
           n == Len(Root)
<1>1. Root \in Seq(Segment) /\ d \in Seq(Segment) /\ q \in Seq(Element) /\ t.abs \in BOOLEAN
  BY PathsAreSegments
<1>2. n \in Nat /\ n \in 0 .. n /\ ~(n < n) /\ SubSeq(Root, 1, n) = Root
  BY <1>1, SubSeqFull
<1> HIDE DEF q, n
<1>3. CASE t.abs
  <2> DEFINE c == Clean(q)
  <2>1. c \in Seq(Segment)
    BY <1>1, CleanType
  <2>2. Goal(d, t) = c
    <3>1. <<>> \o q = q
      BY <1>1, ConcatEmptySeq
    <3> QED BY <1>3, <3>1 DEF Goal, q
  <2>3. ResolveUnderRoot(d, t) = Clean(Rel(Root, Root \o c))
    BY <1>3 DEF ResolveUnderRoot, q
  <2> HIDE DEF c
  <2>4. Clean(Rel(Root, SubSeq(Root, 1, n) \o c)) = c
    BY <1>1, <1>2, <2>1, RelOfUnder DEF n
  <2> QED BY <1>2, <2>2, <2>3, <2>4
<1>4. CASE ~t.abs
  <2> DEFINE g == Clean(d \o q)
  <2>1. d \o q \in Seq(Element)
    BY <1>1, PathsAreTexts
  <2>2. g \in Seq(Segment)
    BY <2>1, CleanType
  <2>3. Goal(d, t) = g
    BY <1>4 DEF Goal, q
  <2>4. PICK r : UnderRoot(d, q, r)
    BY <1>1, CleanUnderRoot
  <2>5. /\ r \in 0 .. Len(Root)
        /\ Clean((Root \o d) \o q) = SubSeq(Root, 1, r) \o g
        /\ r < Len(Root) => Left(Root \o d, q) /\ From(q, g)
    BY <2>4 DEF UnderRoot
  <2>6. ResolveUnderRoot(d, t) = Clean(Rel(Root, SubSeq(Root, 1, r) \o g))
    BY <1>4, <2>5 DEF ResolveUnderRoot, q
  <2> HIDE DEF g
  <2>7. ASSUME r < Len(Root), NEW i \in DOMAIN Root, NEW l \in DOMAIN g PROVE Root[i] # g[l]
    <3>1. Left(Root \o d, q) /\ From(q, g)
      BY <2>5, <2>7
    <3>2. PICK x \in DOMAIN q : g[l] = q[x]
      BY <3>1 DEF From
    <3>3. Root[i] # q[x]
      BY <1>4, <3>1, ClimbsLeft DEF q
    <3> QED BY <3>2, <3>3
  <2>8. Clean(Rel(Root, SubSeq(Root, 1, r) \o g)) = g
    BY <1>1, <2>2, <2>5, <2>7, RelOfUnder
  <2> QED BY <2>3, <2>6, <2>8
<1> QED BY <1>1, <1>3, <1>4

LEMMA FrontAndLast ==
  ASSUME NEW S, NEW q \in Seq(S), NEW s \in S
  PROVE  /\ Append(q, s) \in Seq(S) /\ Append(q, s) # <<>>
         /\ Front(Append(q, s)) = q /\ Last(Append(q, s)) = s
<1> DEFINE t == Append(q, s)
           n == Len(q)
<1>1. t \in Seq(S) /\ Len(t) = n + 1 /\ n \in Nat /\ t[n + 1] = s
      /\ \A i \in 1 .. n : t[i] = q[i]
  OBVIOUS
<1> HIDE DEF t
<1>2. SubSeq(t, 1, n) \in Seq(S) /\ Len(SubSeq(t, 1, n)) = n
      /\ \A i \in 1 .. n : SubSeq(t, 1, n)[i] = q[i]
  BY <1>1
<1>3. SubSeq(t, 1, n) = q
  BY <1>2, SeqEqual
<1>4. Front(t) = q
  BY <1>1, <1>3 DEF Front
<1>5. Last(t) = s /\ t # <<>>
  BY <1>1 DEF Last
<1> QED BY <1>1, <1>4, <1>5 DEF t

LEMMA FrontLastAppend ==
  ASSUME NEW S, NEW q \in Seq(S), q # <<>>
  PROVE  Front(q) \in Seq(S) /\ Last(q) \in S /\ q = Append(Front(q), Last(q))
<1> DEFINE n == Len(q) - 1
           f == SubSeq(q, 1, n)
<1>1. n \in Nat /\ Len(q) = n + 1
  OBVIOUS
<1> HIDE DEF n
<1>2. f \in Seq(S) /\ Len(f) = n /\ \A i \in 1 .. n : f[i] = q[i]
  BY <1>1
<1>3. Front(q) = f /\ Last(q) = q[n + 1] /\ q[n + 1] \in S
  BY <1>1 DEF Front, Last, n
<1> HIDE DEF f
<1> DEFINE x == q[n + 1]
           a == Append(f, x)
<1>4. a \in Seq(S) /\ Len(a) = n + 1 /\ a[n + 1] = x /\ \A i \in 1 .. n : a[i] = f[i]
  BY <1>1, <1>2, <1>3
<1> HIDE DEF a
<1>5. ASSUME NEW i \in 1 .. n + 1 PROVE a[i] = q[i]
  <2>1. i \in 1 .. n \/ i = n + 1
    BY <1>1
  <2> QED BY <1>2, <1>4, <2>1
<1>6. a = q
  BY <1>1, <1>4, <1>5, SeqEqual
<1> QED BY <1>2, <1>3, <1>6 DEF a

(* Where a link leads has the last name of its text. *)
IsGoal(d, t, c) ==
  /\ c \in Seq(Segment) /\ Last(t.segs) \in Names
  /\ Goal(d, t) = Append(c, Last(t.segs))

LEMMA RootTextLeads ==
  ASSUME NEW d \in Dirs, NEW t \in Texts, t.segs = <<>>
  PROVE  Goal(d, t) = <<>>
<1> DEFINE o == <<>>
<1>1. t.abs /\ o \in Seq(Segment)
  BY PathsAreSegments
<1>2. o \o o = o
  BY <1>1, ConcatEmptySeq
<1> QED BY <1>1, <1>2, CleanNothing DEF Goal

LEMMA GoalParts ==
  ASSUME NEW d \in Dirs, NEW t \in Texts, ~Odd(d, t), Goal(d, t) # <<>>
  PROVE  \E c : IsGoal(d, t, c)
<1> DEFINE q == t.segs
           f == Front(q)
           x == Last(q)
           b == IF t.abs THEN <<>> ELSE d
<1>1. /\ d \in Seq(Segment) /\ q \in Seq(Element) /\ q # <<>> /\ x \in Names
      /\ x \in Segment /\ x \in Element
  <2>1. q # <<>>
    BY RootTextLeads
  <2>2. x \in Names
    BY <2>1, PathsAreSegments DEF Odd
  <2> QED BY <2>1, <2>2, PathsAreSegments, SegmentsAreElements
<1>2. b \in Seq(Element)
  BY <1>1, PathsAreTexts
<1>3. Goal(d, t) = Clean(b \o q)
  BY DEF Goal
<1> HIDE DEF b
<1>4. f \in Seq(Element) /\ q = Append(f, x)
  <2> HIDE DEF q
  <2> QED BY <1>1, FrontLastAppend
<1> HIDE DEF q, f, x
<1>5. b \o q = Append(b \o f, x) /\ b \o f \in Seq(Element)
  BY <1>1, <1>2, <1>4, ConcatAppend
<1> DEFINE c == Clean(b \o f)
<1>6. Clean(Append(b \o f, x)) = Enter(c, x) /\ c \in Seq(Segment)
  BY <1>1, <1>5, CleanAppend, CleanType
<1> HIDE DEF c
<1>7. Enter(c, x) = Append(c, x)
  BY <1>1, SegmentsAreElements DEF Enter
<1>8. IsGoal(d, t, c)
  BY <1>1, <1>3, <1>5, <1>6, <1>7 DEF IsGoal, x, q
<1> QED BY <1>8

(* Made anew in usr/bin a link leads where it led, and to usr/bin instead  *)
(* of a directory that is merged.                                          *)
LEMMA GoalOfMoved ==
  ASSUME NEW d \in Dirs, NEW t \in Texts, ~Odd(d, t), NEW equivs, NEW c, IsGoal(d, t, c)
  PROVE  Goal(NewDir, NewLinkDest(d, t, equivs))
           = IF c \in equivs \cup {NewDir} THEN Append(NewDir, Last(t.segs))
             ELSE Goal(d, t)
<1> DEFINE x == Last(t.segs)
           g == Goal(d, t)
           text == IF c \in equivs \cup {NewDir} THEN <<x>> ELSE Rel(NewDir, g)
           new == [abs |-> FALSE, segs |-> text]
<1>1. /\ c \in Seq(Segment) /\ x \in Names /\ x \in Segment
      /\ g = Append(c, x) /\ NewDir \in Seq(Segment)
  BY PathsAreSegments DEF IsGoal
<1>2. g \in Seq(Segment) /\ g # <<>> /\ Front(g) = c
  <2> HIDE DEF x, g
  <2>1. /\ Append(c, x) \in Seq(Segment) /\ Append(c, x) # <<>>
        /\ Front(Append(c, x)) = c
    BY <1>1, FrontAndLast
  <2> QED BY <1>1, <2>1
<1>3. Clean(g) = g
  <2> HIDE DEF g
  <2> QED BY <1>2, CleanPlain
<1>4. NewLinkDest(d, t, equivs) = new
  <2>1. ResolveUnderRoot(d, t) = g
    BY ResolveIsGoal
  <2> HIDE DEF g
  <2>2. Clean(Append(Front(g), x)) = g
    BY <1>1, <1>2, <1>3
  <2> QED BY <1>2, <2>1, <2>2 DEF NewLinkDest
<1> HIDE DEF g
<1>5. Goal(NewDir, new) = Clean(NewDir \o text)
  BY DEF Goal
<1>6. CASE c \in equivs \cup {NewDir}
  <2>1. NewDir \o <<x>> = Append(NewDir, x) /\ Append(NewDir, x) \in Seq(Segment)
    <3> HIDE DEF x
    <3> QED BY <1>1
  <2>2. Clean(Append(NewDir, x)) = Append(NewDir, x)
    <3> HIDE DEF x
    <3> QED BY <2>1, CleanPlain
  <2> QED BY <1>4, <1>5, <1>6, <2>1, <2>2
<1>7. CASE c \notin equivs \cup {NewDir}
  <2>1. Clean(NewDir \o Rel(NewDir, g)) = g
    BY <1>1, <1>2, RelLeadsBack
  <2> QED BY <1>4, <1>5, <1>7, <2>1 DEF g
<1> QED BY <1>6, <1>7

(* A link to the root leads there from usr/bin too. *)
LEMMA GoalOfRootLink ==
  ASSUME NEW d \in Dirs, NEW t \in Texts, ~Odd(d, t), NEW equivs, Goal(d, t) = <<>>
  PROVE  Goal(NewDir, NewLinkDest(d, t, equivs)) = <<>>
<1> DEFINE o == <<>>
           text == Rel(NewDir, o)
<1>1. NewDir \in Seq(Segment) /\ o \in Seq(Segment)
  BY PathsAreSegments
<1>2. ResolveUnderRoot(d, t) = o
  BY ResolveIsGoal
<1>3. NewLinkDest(d, t, equivs) = [abs |-> FALSE, segs |-> text]
  BY <1>2 DEF NewLinkDest
<1> HIDE DEF o
<1>4. Clean(NewDir \o text) = o
  BY <1>1, RelLeadsBack
<1> HIDE DEF text
<1>5. Goal(NewDir, NewLinkDest(d, t, equivs)) = o
  BY <1>3, <1>4 DEF Goal
<1> QED BY <1>5 DEF o
-----------------------------------------------------------------------------
(* Where paths lead.                                                       *)

LEMMA PlacesAreFinite == Cardinality(Places) + 1 \in Nat
<1>1. IsFiniteSet(Dirs)
  BY UsrMergeAssumption, FS_AddElement DEF Dirs
<1>2. IsFiniteSet(Places)
  BY <1>1, UsrMergeAssumption, FS_Product DEF Places
<1>3. Cardinality(Places) \in Nat
  BY <1>2, FS_CardinalityType
<1> QED BY <1>3

(* The place where a path is looked up. *)
At(links, p) == IF p[1] \in links THEN <<NewDir, p[2]>> ELSE p

(* Links that lead to a name in a directory. *)
LinkLeads(t, links, p, c, x) ==
  /\ c \in Seq(Segment) /\ x \in Names
  /\ Goal(At(links, p)[1], t[At(links, p)].text) = Append(c, x)
LeadsToRoot(t, links, p) == Goal(At(links, p)[1], t[At(links, p)].text) = <<>>

LEMMA LeadsNowhere ==
  ASSUME NEW t, NEW links, NEW p, NEW next, t[At(links, p)].kind # "link"
  PROVE  Leads(t, links, p, next) = t[At(links, p)]
  BY DEF Leads, At

LEMMA LeadsUp ==
  ASSUME NEW t, NEW links, NEW p, NEW next, t[At(links, p)].kind = "link",
         LeadsToRoot(t, links, p)
  PROVE  Leads(t, links, p, next) = [kind |-> "path", to |-> <<>>]
  BY DEF Leads, At, LeadsToRoot

OnTo(v, next, c, x) ==
  /\ c \in Dirs => v = next[<<c, x>>]
  /\ c \notin Dirs => v = [kind |-> "path", to |-> Append(c, x)]

LEMMA LeadsOn ==
  ASSUME NEW t, NEW links, NEW p, NEW next, t[At(links, p)].kind = "link",
         NEW c, NEW x, LinkLeads(t, links, p, c, x)
  PROVE  OnTo(Leads(t, links, p, next), next, c, x)
<1> DEFINE at == At(links, p)
           goal == Goal(at[1], t[at].text)
           a == Append(c, x)
<1>1. goal = a /\ c \in Seq(Segment) /\ x \in Segment
  BY PathsAreSegments DEF LinkLeads
<1>2. Front(a) = c /\ Last(a) = x /\ a # <<>>
  BY <1>1, FrontAndLast
<1>3. Leads(t, links, p, next)
        = IF t[at].kind # "link" THEN t[at]
          ELSE IF goal # <<>> /\ <<Front(goal), Last(goal)>> \in Places
               THEN next[<<Front(goal), Last(goal)>>]
               ELSE [kind |-> "path", to |-> goal]
  BY DEF Leads, At
<1> HIDE DEF a, goal, at
<1>4. t[at].kind = "link"
  BY DEF at
<1>5. <<c, x>> \in Places <=> c \in Dirs
  BY DEF LinkLeads, Places
<1> QED BY <1>1, <1>2, <1>3, <1>4, <1>5 DEF OnTo, a

(* Follow, one link after the other. *)
IsFollowing(f, t, links) ==
  /\ Follow(t, links) = f[Cardinality(Places) + 1]
  /\ \A p \in Places : f[0][p] = None
  /\ \A k \in 1 .. Cardinality(Places) + 1 : \A p \in Places :
       f[k][p] = Leads(t, links, p, f[k - 1])

LEMMA FollowSteps ==
  ASSUME NEW t, NEW links
  PROVE  \E f : IsFollowing(f, t, links)
<1> DEFINE N == Cardinality(Places) + 1
           V == {None} \cup {t[At(links, p)] : p \in Places}
                \cup {[kind |-> "path", to |-> Goal(At(links, p)[1], t[At(links, p)].text)]
                        : p \in Places}
           T == [Places -> V]
           Step(next) == [p \in Places |-> Leads(t, links, p, next)]
           base == [p \in Places |-> None]
           g == [y \in (1 .. N) \X T |-> Step(y[2])]
           Body(f, k) == [p \in Places |-> IF k = 0 THEN None
                                           ELSE Leads(t, links, p, f[k - 1])]
           Is(f) == f = [k \in 0 .. N |-> Body(f, k)]
<1>1. N \in Nat
  BY PlacesAreFinite
<1>2. base \in T
  OBVIOUS
<1>3. ASSUME NEW next \in T, NEW p \in Places PROVE Leads(t, links, p, next) \in V
  <2> DEFINE at == At(links, p)
             goal == Goal(at[1], t[at].text)
             on == <<Front(goal), Last(goal)>>
  <2>1. Leads(t, links, p, next) = IF t[at].kind # "link" THEN t[at]
                                   ELSE IF goal # <<>> /\ on \in Places THEN next[on]
                                   ELSE [kind |-> "path", to |-> goal]
    BY DEF Leads, At
  <2>2. t[at] \in V /\ [kind |-> "path", to |-> goal] \in V
    OBVIOUS
  <2> HIDE DEF V, at, goal, on
  <2> QED BY <2>1, <2>2
<1> HIDE DEF V
<1>4. ASSUME NEW next \in T PROVE Step(next) \in T
  BY <1>3
<1>5. g \in [(1 .. N) \X T -> T]
  <2> HIDE DEF T, Step, N
  <2> QED BY <1>4
<1>6. PICK e \in [0 .. N -> T] :
        e[0] = base /\ \A k \in 1 .. N : e[k] = g[<<k, e[k - 1]>>]
  <2> HIDE DEF g, N, T, base
  <2>1. \E e : IsRecursion(e, N, T, base, g)
    BY <1>1, <1>2, <1>5, RecursionExists
  <2> QED BY <2>1 DEF IsRecursion
<1> HIDE DEF N, T
<1>7. Is(e)
  <2>1. ASSUME NEW k \in 0 .. N PROVE e[k] = Body(e, k)
    <3>1. CASE k = 0
      <4>1. Body(e, 0) = base
        OBVIOUS
      <4> HIDE DEF Body, base
      <4> QED BY <1>6, <3>1, <4>1
    <3>2. CASE k # 0
      <4>1. k \in 1 .. N /\ k - 1 \in 0 .. N
        BY <1>1, <3>2
      <4>2. e[k - 1] \in T
        BY <1>6, <4>1
      <4>3. <<k, e[k - 1]>> \in (1 .. N) \X T
        BY <4>1, <4>2
      <4>4. g[<<k, e[k - 1]>>] = Step(e[k - 1])
        <5> HIDE DEF Step
        <5> QED BY <4>3
      <4>5. e[k] = Step(e[k - 1])
        <5> HIDE DEF Step, g
        <5> QED BY <1>6, <4>1, <4>4
      <4>6. Body(e, k) = Step(e[k - 1])
        BY <3>2
      <4> HIDE DEF Body, Step
      <4> QED BY <4>5, <4>6
    <3> QED BY <3>1, <3>2
  <2>2. e = [k \in 0 .. N |-> e[k]]
    BY <1>6
  <2> HIDE DEF Body
  <2>3. [k \in 0 .. N |-> e[k]] = [k \in 0 .. N |-> Body(e, k)]
    BY <2>1
  <2> QED BY <2>2, <2>3
<1> DEFINE F == CHOOSE f : Is(f)
<1>8. Is(F)
  <2> HIDE DEF Is
  <2> QED BY <1>7
<1>9. \A k \in 0 .. N : F[k] = Body(F, k)
  <2> HIDE DEF F, Body
  <2> QED BY <1>8
<1>10. Follow(t, links) = F[N]
  BY DEF Follow, N
<1> HIDE DEF F
<1>11. \A p \in Places : F[0][p] = None
  <2>1. F[0] = Body(F, 0)
    <3> HIDE DEF Body
    <3> QED BY <1>1, <1>9
  <2> QED BY <2>1
<1>12. ASSUME NEW k \in 1 .. N, NEW p \in Places
       PROVE  F[k][p] = Leads(t, links, p, F[k - 1])
  <2>1. k # 0 /\ k \in 0 .. N
    BY <1>1
  <2>2. F[k] = Body(F, k)
    <3> HIDE DEF Body
    <3> QED BY <1>9, <2>1
  <2> QED BY <2>1, <2>2
<1>13. IsFollowing(F, t, links)
  BY <1>10, <1>11, <1>12 DEF IsFollowing, N
<1> QED BY <1>13

(* After a run that succeeds, however many were interrupted before it, the *)
(* tree depends on the first tree and the command line alone: every entry  *)
(* is in its new place, a link that was moved with the target computed for *)
(* it, and nothing is left or added elsewhere.                             *)
MergeComplete ==
  outcome = "ok" /\ NamesDistinct =>
    /\ \A p \in Places : tree0[p] # None =>
         tree[NewPlace(p)] = IF tree0[p].kind = "link" /\ NewPlace(p) # p
                             THEN Moved(p) ELSE tree0[p]
    /\ \A q \in Places : tree[q] # None =>
         \E p \in Places : tree0[p] # None /\ q = NewPlace(p)

(* The links of the first tree have the texts of the package. *)
TextsInv == \A p \in Places : tree0[p].kind = "link" => tree0[p].text \in Texts

LEMMA TextsInvariance == Spec => []TextsInv
<1>1. Init => TextsInv
  <2> SUFFICES ASSUME Init, NEW p \in Places, tree0[p].kind = "link"
               PROVE  tree0[p].text \in Texts
    BY DEF TextsInv
  <2>1. PICK S \in SUBSET {q \in Places : dir[q[1]] = "dir"} :
          \E f \in [S -> Entries] :
            tree = [q \in Places |-> IF q \in S THEN f[q] ELSE None]
    BY DEF Init
  <2>2. PICK f \in [S -> Entries] :
          tree = [q \in Places |-> IF q \in S THEN f[q] ELSE None]
    BY <2>1
  <2>3. tree0[p] = None \/ tree0[p] \in Entries
    BY <2>2 DEF Init
  <2>4. tree0[p] # None
    BY KindOfNone
  <2>5. \A q : File(q).kind = "file"
    BY DEF File
  <2>6. \A t \in Texts : Link(t).text = t
    BY DEF Link
  <2> QED BY <2>3, <2>4, <2>5, <2>6 DEF Entries
<1>2. TextsInv /\ [Next]_vars => TextsInv'
  <2>1. [Next]_vars => tree0' = tree0
    BY DEF Next, Start, AllMoved, SkipMove, AlienLink, StartMove, RenameFile, Relink,
           RelinkFails, RemoveLink, RemoveSource, RemoveEmptyDest, RemoveEmptyUsr,
           Interrupt
  <2> QED BY <2>1 DEF TextsInv
<1> QED BY <1>1, <1>2, PTL DEF Spec

(* After a merge that is complete. *)
Merged ==
  /\ moves \in Commands /\ IsTree(tree) /\ IsTree(tree0) /\ TextsInv
  /\ outcome = "ok" /\ NamesDistinct /\ MergeComplete

(* What is not an odd link is as it was. *)
LEMMA WithoutOddTells ==
  ASSUME NEW p \in Places, WithoutOdd[p] # None
  PROVE  /\ WithoutOdd[p] = tree0[p]
         /\ tree0[p].kind = "link" => ~Odd(p[1], tree0[p].text)
BY DEF WithoutOdd

(* Where an old link leads, and the link in its new place. *)
LEMMA LinkAndItsNew ==
  ASSUME Merged, NEW p \in Places, tree0[p].kind = "link",
         ~Odd(p[1], tree0[p].text), NEW c, IsGoal(p[1], tree0[p].text, c),
         NEW x, x = Last(tree0[p].text.segs)
  PROVE  /\ tree[NewPlace(p)].kind = "link"
         /\ LinkLeads(WithoutOdd, {}, p, c, x)
         /\ c \in Seq(Segment) /\ x \in Names
         /\ Goal(NewPlace(p)[1], tree[NewPlace(p)].text)
              = IF NewPlace(p) # p /\ c \in Merging \cup {NewDir}
                THEN Append(NewDir, x) ELSE Append(c, x)
<1> DEFINE t == tree0[p].text
<1>1. t \in Texts /\ p[1] \in Dirs /\ At({}, p) = p
  BY PlaceIsPair DEF Merged, TextsInv, At
<1>2. tree0[p] # None
  BY KindOfNone
<1>3. c \in Seq(Segment) /\ x \in Names /\ Goal(p[1], t) = Append(c, x)
  BY DEF IsGoal
<1>4. LinkLeads(WithoutOdd, {}, p, c, x)
  BY <1>1, <1>3 DEF LinkLeads, WithoutOdd
<1>5. CASE NewPlace(p) = p
  <2>1. tree[p] = tree0[p]
    BY <1>2, <1>5 DEF Merged, MergeComplete
  <2> QED BY <1>3, <1>4, <1>5, <2>1
<1>6. CASE NewPlace(p) # p
  <2>1. tree[NewPlace(p)] = Moved(p) /\ NewPlace(p)[1] = NewDir
    BY <1>2, <1>6, NewPlaces DEF Merged, MergeComplete
  <2>2. Moved(p).kind = "link" /\ Moved(p).text = NewLinkDest(p[1], t, Merging)
    BY DEF Moved, Link
  <2>3. Goal(NewDir, NewLinkDest(p[1], t, Merging))
          = IF c \in Merging \cup {NewDir} THEN Append(NewDir, x) ELSE Goal(p[1], t)
    <3>1. x = Last(t.segs)
      OBVIOUS
    <3> DEFINE d == p[1]
    <3>2. IsGoal(d, t, c) /\ t \in Texts /\ d \in Dirs /\ ~Odd(d, t)
      BY <1>1
    <3> HIDE DEF d, t
    <3>3. Goal(NewDir, NewLinkDest(d, t, Merging))
            = IF c \in Merging \cup {NewDir} THEN Append(NewDir, Last(t.segs))
              ELSE Goal(d, t)
      BY <3>2, GoalOfMoved
    <3> QED BY ONLY <3>1, <3>3, Zenon DEF d
  <2> HIDE DEF t
  <2>4. Goal(NewPlace(p)[1], tree[NewPlace(p)].text)
          = IF c \in Merging \cup {NewDir} THEN Append(NewDir, x) ELSE Append(c, x)
    BY <1>3, <2>1, <2>2, <2>3
  <2> QED BY <1>3, <1>4, <1>6, <2>1, <2>2, <2>4
<1> QED BY <1>5, <1>6

LEMMA RootLinkAndItsNew ==
  ASSUME Merged, NEW p \in Places, tree0[p].kind = "link",
         ~Odd(p[1], tree0[p].text), Goal(p[1], tree0[p].text) = <<>>
  PROVE  /\ tree[NewPlace(p)].kind = "link"
         /\ Goal(NewPlace(p)[1], tree[NewPlace(p)].text) = <<>>
<1> DEFINE t == tree0[p].text
<1>1. t \in Texts /\ p[1] \in Dirs /\ ~Odd(p[1], t) /\ Goal(p[1], t) = <<>>
  BY PlaceIsPair DEF Merged, TextsInv
<1>2. tree0[p] # None
  BY KindOfNone
<1> HIDE DEF t
<1>3. Goal(NewDir, NewLinkDest(p[1], t, Merging)) = <<>>
  BY <1>1, GoalOfRootLink
<1>4. CASE NewPlace(p) = p
  <2>1. tree[p] = tree0[p]
    BY <1>2, <1>4 DEF Merged, MergeComplete
  <2> QED BY <1>1, <1>4, <2>1 DEF t
<1>5. CASE NewPlace(p) # p
  <2>1. tree[NewPlace(p)] = Moved(p) /\ NewPlace(p)[1] = NewDir
    BY <1>2, <1>5, NewPlaces DEF Merged, MergeComplete
  <2>2. Moved(p).kind = "link" /\ Moved(p).text = NewLinkDest(p[1], t, Merging)
    BY DEF Moved, Link, t
  <2> QED BY <1>3, <2>1, <2>2
<1> QED BY <1>4, <1>5

LEMMA NewPlaceIsAt == \A p : NewPlace(p) = At(Merging, p)
  BY DEF NewPlace, At

(* A path that led somewhere after so many links does so still. *)
LEMMA LeadsStill ==
  ASSUME Merged, NEW p \in Places, Follow(WithoutOdd, {})[p] # None
  PROVE  Follow(tree, Merging)[p] = Follow(WithoutOdd, {})[p]
<1> DEFINE N == Cardinality(Places) + 1
<1>1. N \in Nat
  BY PlacesAreFinite
<1>2. PICK e : IsFollowing(e, WithoutOdd, {})
  BY FollowSteps
<1>3. PICK f : IsFollowing(f, tree, Merging)
  BY FollowSteps
<1>4. /\ Follow(WithoutOdd, {}) = e[N] /\ \A q \in Places : e[0][q] = None
      /\ \A k \in 1 .. N : \A q \in Places : e[k][q] = Leads(WithoutOdd, {}, q, e[k - 1])
  BY <1>2 DEF IsFollowing
<1>5. /\ Follow(tree, Merging) = f[N] /\ \A q \in Places : f[0][q] = None
      /\ \A k \in 1 .. N : \A q \in Places : f[k][q] = Leads(tree, Merging, q, f[k - 1])
  BY <1>3 DEF IsFollowing
<1> HIDE DEF N
(* From both its places. *)
<1>6. ASSUME NEW k \in 0 .. N, NEW q \in Places, NEW o \in Places,
             NewPlace(q) = NewPlace(o)
      PROVE  f[k][q] = f[k][o]
  <2>1. CASE k = 0
    BY <1>5, <2>1
  <2>2. CASE k # 0
    <3>1. k \in 1 .. N
      BY <1>1, <2>2
    <3>2. Leads(tree, Merging, q, f[k - 1]) = Leads(tree, Merging, o, f[k - 1])
      BY <1>6, NewPlaceIsAt DEF Leads, At
    <3> QED BY <1>5, <3>1, <3>2
  <2> QED BY <2>1, <2>2
<1> DEFINE A == {k \in Nat : k <= N => \A q \in Places : e[k][q] # None => f[k][q] = e[k][q]}
<1>7. 0 \in A
  BY <1>4
<1>8. ASSUME NEW j \in Nat, j \in A PROVE j + 1 \in A
  <2> SUFFICES ASSUME j + 1 <= N, NEW q \in Places, e[j + 1][q] # None
               PROVE  f[j + 1][q] = e[j + 1][q]
    OBVIOUS
  <2> DEFINE k == j + 1
             t == tree0[q].text
             n == NewPlace(q)
  <2>1. k \in 1 .. N /\ j \in 0 .. N /\ k - 1 = j
    BY <1>1
  <2>2. \A o \in Places : e[j][o] # None => f[j][o] = e[j][o]
    BY <1>1, <1>8
  <2> HIDE DEF k
  <2>3. e[k][q] = Leads(WithoutOdd, {}, q, e[j]) /\ f[k][q] = Leads(tree, Merging, q, f[j])
    BY <1>4, <1>5, <2>1
  <2>4. At({}, q) = q /\ At(Merging, q) = n /\ e[k][q] # None
    BY NewPlaceIsAt DEF At, k
  <2>5. CASE WithoutOdd[q].kind # "link"
    <3>1. e[k][q] = WithoutOdd[q]
      BY <2>3, <2>4, <2>5, LeadsNowhere
    <3>2. WithoutOdd[q] = tree0[q] /\ tree[n] = tree0[q] /\ tree0[q].kind # "link"
      BY <2>4, <2>5, <3>1, WithoutOddTells DEF Merged, MergeComplete
    <3>3. f[k][q] = tree[n]
      BY <2>3, <2>4, <2>5, <3>2, LeadsNowhere
    <3> QED BY <3>1, <3>2, <3>3 DEF k
  <2>6. ASSUME WithoutOdd[q].kind = "link"
        PROVE  /\ WithoutOdd[q] = tree0[q] /\ tree0[q].kind = "link" /\ ~Odd(q[1], t)
               /\ t \in Texts /\ q[1] \in Dirs
    <3>1. WithoutOdd[q] # None
      BY <2>6, KindOfNone
    <3>2. WithoutOdd[q] = tree0[q] /\ ~Odd(q[1], t)
      BY <2>6, <3>1, WithoutOddTells DEF Merged
    <3> QED BY <2>6, <3>2, PlaceIsPair DEF Merged, TextsInv
  <2>7. CASE WithoutOdd[q].kind = "link" /\ Goal(q[1], t) = <<>>
    <3>1. /\ tree[n].kind = "link" /\ Goal(n[1], tree[n].text) = <<>>
          /\ WithoutOdd[q].text = t
      BY <2>6, <2>7, RootLinkAndItsNew
    <3> HIDE DEF n
    <3>2. LeadsToRoot(WithoutOdd, {}, q) /\ LeadsToRoot(tree, Merging, q)
      BY <2>4, <2>7, <3>1 DEF LeadsToRoot
    <3>3. /\ Leads(WithoutOdd, {}, q, e[j]) = [kind |-> "path", to |-> <<>>]
          /\ Leads(tree, Merging, q, f[j]) = [kind |-> "path", to |-> <<>>]
      <4>1. WithoutOdd[At({}, q)].kind = "link" /\ tree[At(Merging, q)].kind = "link"
        BY <2>4, <2>7, <3>1
      <4> QED BY <3>2, <4>1, LeadsUp
    <3> QED BY <2>3, <3>3 DEF k
  <2>8. CASE WithoutOdd[q].kind = "link" /\ Goal(q[1], t) # <<>>
    <3>1. t \in Texts /\ q[1] \in Dirs /\ tree0[q].kind = "link" /\ ~Odd(q[1], t)
      BY <2>6, <2>8
    <3>2. PICK c : IsGoal(q[1], t, c)
      <4> HIDE DEF t
      <4> QED BY <2>8, <3>1, GoalParts
    <3> DEFINE x == Last(t.segs)
               y == IF n # q /\ c \in Merging \cup {NewDir} THEN NewDir ELSE c
    <3>3. /\ tree[n].kind = "link" /\ LinkLeads(WithoutOdd, {}, q, c, x)
          /\ c \in Seq(Segment) /\ x \in Names
          /\ Goal(n[1], tree[n].text)
               = IF n # q /\ c \in Merging \cup {NewDir}
                 THEN Append(NewDir, x) ELSE Append(c, x)
      BY <3>1, <3>2, LinkAndItsNew
    <3> HIDE DEF x, n, t
    <3>4. y \in Seq(Segment) /\ Goal(n[1], tree[n].text) = Append(y, x)
      BY <3>3, PathsAreSegments
    <3>5. y = c \/ (c \in Merging \cup {NewDir} /\ y = NewDir)
      OBVIOUS
    <3> HIDE DEF y
    <3>6. LinkLeads(tree, Merging, q, y, x)
      BY <2>4, <3>3, <3>4 DEF LinkLeads
    <3>7. OnTo(e[k][q], e[j], c, x)
      <4>1. WithoutOdd[At({}, q)].kind = "link"
        BY <2>4, <2>8
      <4>2. OnTo(Leads(WithoutOdd, {}, q, e[j]), e[j], c, x)
        BY <3>3, <4>1, LeadsOn
      <4> QED BY <2>3, <4>2
    <3>8. OnTo(f[k][q], f[j], y, x)
      <4>1. tree[At(Merging, q)].kind = "link"
        BY <2>4, <3>3
      <4>2. OnTo(Leads(tree, Merging, q, f[j]), f[j], y, x)
        BY <3>6, <4>1, LeadsOn
      <4> QED BY <2>3, <4>2
    <3>9. Merging \subseteq Dirs /\ NewDir \in Dirs
      BY MovesAreSources DEF Merged, Dirs
    <3>10. CASE c \notin Dirs
      <4>1. y = c
        BY <3>5, <3>9, <3>10
      <4> QED BY <3>7, <3>8, <3>10, <4>1 DEF k, OnTo
    <3>11. CASE c \in Dirs
      <4>1. y \in Dirs /\ <<c, x>> \in Places /\ <<y, x>> \in Places
        BY <3>3, <3>5, <3>9, <3>11 DEF Places
      <4>2. e[k][q] = e[j][<<c, x>>] /\ f[k][q] = f[j][<<y, x>>]
        BY <3>7, <3>8, <3>11, <4>1 DEF OnTo
      <4>3. NewPlace(<<c, x>>) = NewPlace(<<y, x>>)
        <5>1. NewDir \notin Merging
          BY MovesAreSources DEF Merged
        <5> QED BY <3>5, <5>1 DEF NewPlace
      <4>4. f[j][<<y, x>>] = f[j][<<c, x>>]
        BY <1>6, <2>1, <4>1, <4>3
      <4>5. f[j][<<c, x>>] = e[j][<<c, x>>]
        BY <2>2, <2>4, <4>1, <4>2
      <4> QED BY <4>2, <4>4, <4>5 DEF k
    <3> QED BY <3>10, <3>11
  <2> QED BY <2>5, <2>7, <2>8
<1>9. N \in A
  <2> HIDE DEF A
  <2> QED BY <1>1, <1>7, <1>8, SetInduction
<1> QED BY <1>1, <1>4, <1>5, <1>9
-----------------------------------------------------------------------------
(* Theorems.                                                               *)

LEMMA Invariance == Spec => []IInv
  BY InitIInv, NextIInv, PTL DEF Spec

(* Every variable keeps its type; an entry has a directory.                *)
THEOREM TypeCorrect == Spec => []TypeOK
<1>1. IInv => TypeOK
  BY DEF IInv, RunInv
<1> QED
  BY <1>1, Invariance, PTL

(* Whatever interrupts the runs, each file is in one place and each link   *)
(* in one at least, the old or the new.                                    *)
THEOREM EntriesSurvive == Spec => []EntriesKept
<1>1. IInv => EntriesKept
  <2> SUFFICES ASSUME IInv, NamesDistinct, NEW p \in Places
               PROVE  LET Now == {q \in {p, NewPlace(p)} : tree[q] # None} IN
                      /\ tree0[p].kind = "file" => \E q \in Now : /\ Now = {q}
                                                                  /\ tree[q] = tree0[p]
                      /\ tree0[p].kind = "link" => /\ Now # {}
                                                   /\ \A q \in Now : tree[q].kind = "link"
    BY DEF EntriesKept
  <2>1. Kept(p)
    BY DEF IInv, KeepInv
  <2> DEFINE Now == {q \in {p, NewPlace(p)} : tree[q] # None}
  <2>2. ASSUME tree0[p].kind = "file"
        PROVE  \E q \in Now : Now = {q} /\ tree[q] = tree0[p]
    <3>1. tree0[p] # None
      BY <2>2, KindOfNone
    <3>2. CASE tree[p] = tree0[p] /\ (NewPlace(p) # p => tree[NewPlace(p)] = None)
      <4>1. Now = {p}
        BY <3>1, <3>2
      <4> QED
        BY <3>2, <4>1
    <3>3. CASE tree[NewPlace(p)] = tree0[p] /\ (NewPlace(p) # p => tree[p] = None)
      <4>1. Now = {NewPlace(p)}
        BY <3>1, <3>3
      <4> QED
        BY <3>3, <4>1
    <3> QED
      BY <2>1, <2>2, <3>2, <3>3 DEF Kept, KeptFile
  <2>3. ASSUME tree0[p].kind = "link"
        PROVE  Now # {} /\ \A q \in Now : tree[q].kind = "link"
    <3>1. KeptLink(p, NewPlace(p))
      BY <2>1, <2>3 DEF Kept
    <3>2. Now # {}
      BY <3>1 DEF KeptLink
    <3>3. tree[p] # None => tree[p].kind = "link"
      BY <2>3, <3>1 DEF KeptLink
    <3>4. tree[NewPlace(p)] # None => tree[NewPlace(p)].kind = "link"
      BY <3>1, <3>3, KindOfLink DEF KeptLink, Moved
    <3> QED
      BY <3>2, <3>3, <3>4
  <2> QED
    BY <2>2, <2>3
<1> QED
  BY <1>1, Invariance, PTL

(* Only an interruption, two entries of one name or a directory that is a  *)
(* link to elsewhere makes a run fail.                                     *)
THEOREM FailuresExplained == Spec => []FailsForAReason
<1>1. IInv => FailsForAReason
  BY DEF IInv
<1> QED
  BY <1>1, Invariance, PTL

(* Once a run has succeeded no later one changes the file system.          *)
THEOREM MergeIsIdempotent == Spec => MergedStays
<1>1. IInv /\ [Next]_vars => [done => UNCHANGED fs]_vars
  <2> SUFFICES ASSUME IInv, Next, done PROVE UNCHANGED fs
    OBVIOUS
  <2>1. pc \in {"idle", "next"} /\ \A d \in Merging : Gone(d)
    BY DEF IInv, RunInv, DoneInv
  <2>2. ~StartMove
    BY <2>1, SourceIsMerging DEF StartMove, Skipped, Gone, IInv, RunInv, TypeOK
  <2> QED
    BY <2>1, <2>2 DEF Next, Start, AllMoved, SkipMove, AlienLink, RenameFile, Relink,
       RelinkFails, RemoveLink, RemoveSource, RemoveEmptyDest, RemoveEmptyUsr, Interrupt
<1> QED
  BY <1>1, Invariance, PTL DEF Spec, MergedStays

THEOREM MergesAreComplete == Spec => []MergeComplete
<1>1. IInv => MergeComplete
  <2> SUFFICES ASSUME IInv, outcome = "ok", NamesDistinct PROVE MergeComplete
    BY DEF MergeComplete
  <2> USE DEF IInv, RunInv, KeepInv
  <2>1. \A p \in Places : p[1] \in Merging => tree[p] = None
    BY DEF DoneInv, Gone, TypeOK
  <2>2. \A p \in Places : NewPlace(p) # p => tree[p] = None
    BY <2>1, NewPlaces DEF TypeOK
  <2>3. ASSUME NEW p \in Places, tree0[p] # None
        PROVE  tree[NewPlace(p)] = IF tree0[p].kind = "link" /\ NewPlace(p) # p
                                   THEN Moved(p) ELSE tree0[p]
    <3>1. tree0[p].kind \in {"file", "link"}
      BY <2>3 DEF ShapeInv, IsTree
    <3>2. CASE tree0[p].kind = "file"
      BY <2>2, <2>3, <3>2 DEF Kept, KeptFile
    <3>3. CASE tree0[p].kind = "link"
      BY <2>2, <3>3 DEF Kept, KeptLink
    <3> QED
      BY <3>1, <3>2, <3>3
  <2>4. \A q \in Places : tree[q] # None =>
          \E p \in Places : tree0[p] # None /\ q = NewPlace(p)
    BY <2>2 DEF OriginInv
  <2> QED
    BY <2>3, <2>4 DEF MergeComplete
<1> QED
  BY <1>1, Invariance, PTL

(* After a run that succeeds every path that led somewhere, by links that  *)
(* are not odd, leads there still, once the merged directories are links   *)
(* to usr/bin: the target newLinkDest makes leads from usr/bin where the   *)
(* old one led.                                                            *)
THEOREM LinksLeadAsBefore == Spec => []LeadsAsBefore
<1>1. IInv /\ TextsInv /\ MergeComplete => LeadsAsBefore
  <2> SUFFICES ASSUME IInv, TextsInv, MergeComplete, outcome = "ok", NamesDistinct
               PROVE  LeadsAsBefore
    BY DEF LeadsAsBefore
  <2>1. Merged
    BY DEF Merged, IInv, RunInv, ShapeInv, TypeOK
  <2> QED BY <2>1, LeadsStill DEF LeadsAsBefore
<1> QED
  BY <1>1, Invariance, TextsInvariance, MergesAreComplete, PTL
=============================================================================
