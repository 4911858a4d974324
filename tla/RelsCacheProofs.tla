--------------------------- MODULE RelsCacheProofs ---------------------------
(* Proofs about RelsCache: the types, and that outside the races that the  *)
(* model names no change is lost and no read is stale, for any number of   *)
(* groups, characters, editors and readers.                                *)
EXTENDS RelsCache, TLAPS

(* What is worked out is a set of items, and a copy stays a dictionary.    *)
LEMMA OfType ==
  ASSUME NEW l, NEW i
  PROVE  Of(l, i) \in SUBSET Items
BY DEF Of, Items

LEMMA RebuiltType ==
  ASSUME NEW copy \in Dictionaries, NEW items
  PROVE  /\ Rebuilt(copy, items) \in Dictionaries
         /\ \A i \in Items : Rebuilt(copy, items)[i] = IF i \in items THEN Of(link, i) ELSE copy[i]
BY OfType DEF Rebuilt, Dictionaries

LEMMA EmptyType == Empty \in Dictionaries
BY DEF Empty, Dictionaries

-----------------------------------------------------------------------------
(* Every step keeps the types.                                             *)
LEMMA IdleType ==
  /\ NoEdit \in Edits /\ NoRead \in Reads /\ NoWork \in Works
  /\ NoWork.pc = "idle" /\ NoWork.item = Absent
BY EmptyType DEF Edits, Reads, Works, NoEdit, NoRead, NoWork

LEMMA InitType == Init => TypeOK
<1> SUFFICES ASSUME Init PROVE TypeOK OBVIOUS
<1>1. cache \in Dictionaries
  BY EmptyType, RebuiltType DEF Init
<1>2. left \in [people : SUBSET (Editors \cup Readers), changes : Nat, kills : Nat]
  BY ConstantsAssumption DEF Init
<1> QED
  BY <1>1, <1>2, IdleType DEF Init, TypeOK

LEMMA EditType ==
  ASSUME TypeOK, NEW e \in Editors,
         EditStep(e) \/ \E g \in Groups, cs \in SUBSET Characters : Change(e, g, cs)
  PROVE  TypeOK'
<1>1. CASE \E g \in Groups, cs \in SUBSET Characters : Change(e, g, cs)
  BY <1>1 DEF TypeOK, Change, Flag, Schedule, Items, Pairs, Edits
<1>2. CASE FlagCharacters(e)
  <2> DEFINE cs == {p[2] : p \in edit[e].pairs}
  <2>1. cs \subseteq Items
    BY DEF TypeOK, Pairs, Items, Edits
  <2>2. Schedule(e, cs) \subseteq SUBSET Items
    BY <2>1 DEF Schedule, TypeOK, Edits
  <2>3. [edit[e] EXCEPT !.pc = "commit", !.flagged = @ \cup cs, !.tasks = Schedule(e, cs)] \in Edits
    <3>1. edit[e] \in Edits BY DEF TypeOK
    <3> HIDE DEF cs
    <3> QED BY <2>1, <2>2, <3>1 DEF Edits
  <2>4. edit' \in [Editors -> Edits] /\ dirty' \subseteq Items
    BY <1>2, <2>1, <2>3 DEF FlagCharacters, Flag, TypeOK
  <2> QED BY <1>2, <2>4 DEF TypeOK, FlagCharacters, Flag
<1>3. CASE Commit(e)
  <2>1. read' \in [Readers -> Reads]
    <3>1. \A r \in Readers : read[r] \in Reads BY DEF TypeOK
    <3>2. \A r \in Readers : [read[r] EXCEPT !.moved = TRUE] \in Reads BY <3>1 DEF Reads
    <3> QED BY <1>3, <3>1, <3>2 DEF Commit
  <2>2. edit[e].pairs \subseteq Pairs /\ edit[e].tasks \subseteq SUBSET Items
    BY DEF TypeOK, Edits
  <2> QED BY <1>3, <2>1, <2>2, IdleType DEF TypeOK, Commit
<1>4. CASE Rollback(e)
  BY <1>4, IdleType DEF TypeOK, Rollback
<1> QED BY <1>1, <1>2, <1>3, <1>4 DEF EditStep

LEMMA OvertakenType ==
  ASSUME TypeOK, NEW o \in Readers
  PROVE  Overtaken(o) \in Reads
<1>1. read[o] \in Reads BY DEF TypeOK
<1> QED BY <1>1 DEF Overtaken, Reads

(* What a reader starts with.                                              *)
LEMMA LoadShape ==
  ASSUME TypeOK, NEW r \in Readers, Load(r)
  PROVE  \E x \in Reads :
           /\ read' = [read EXCEPT ![r] = x]
           /\ x.pc = IF cache = Absent THEN "build" ELSE "characters"
           /\ x.copy = IF cache = Absent THEN Rebuilt(Empty, Characters) ELSE cache
           /\ x.found = {} /\ x.resolved = {} /\ ~x.moved
           /\ x.crossed = \E o \in Readers : read[o].resolved # {}
<1> DEFINE pc == IF cache = Absent THEN "build" ELSE "characters"
           copy == IF cache = Absent THEN Rebuilt(Empty, Characters) ELSE cache
           crossed == \E o \in Readers : read[o].resolved # {}
           x == [NoRead EXCEPT !.pc = pc, !.copy = copy, !.crossed = crossed]
<1>1. copy \in Dictionaries /\ pc \in {"build", "characters"} /\ crossed \in BOOLEAN
  BY EmptyType, RebuiltType DEF TypeOK
<1>2. NoRead.found = {} /\ NoRead.resolved = {} /\ NoRead.moved = FALSE
  BY DEF NoRead
<1>3. read' = [read EXCEPT ![r] = x]
  BY DEF Load
<1> HIDE DEF pc, copy, crossed
<1>4. /\ x \in Reads /\ x.pc = pc /\ x.copy = copy /\ x.crossed = crossed
      /\ x.found = {} /\ x.resolved = {} /\ ~x.moved
  BY <1>1, <1>2, IdleType DEF Reads
<1> HIDE DEF x
<1> QED BY <1>3, <1>4 DEF pc, copy, crossed

LEMMA ReadType ==
  ASSUME TypeOK, NEW r \in Readers, ReadStep(r) \/ Load(r) \/ Die(r)
  PROVE  TypeOK'
<1>0. \A c \in Dictionaries : \A s : Rebuilt(c, s) \in Dictionaries
  BY RebuiltType
<1>1. CASE Load(r)
  <2>1. read' \in [Readers -> Reads] BY <1>1, LoadShape DEF TypeOK
  <2> QED BY <1>1, <2>1 DEF TypeOK, Load
<1>2. CASE Build(r)
  BY <1>0, <1>2 DEF TypeOK, Build, Reads
<1>3. CASE Look(r)
  <2> DEFINE found == dirty \cap Section(read[r].pc)
  <2>1. [read[r] EXCEPT !.copy = Rebuilt(@, found), !.found = found,
                        !.pc = IF found = {} THEN After(@, read[r].resolved) ELSE @] \in Reads
    <3> DEFINE pc == IF found = {} THEN After(read[r].pc, read[r].resolved) ELSE read[r].pc
    <3>1. read[r] \in Reads BY DEF TypeOK
    <3>2. found \in SUBSET Items BY DEF TypeOK
    <3>3. Rebuilt(read[r].copy, found) \in Dictionaries BY <1>0, <3>1 DEF Reads
    <3>4. pc \in {"idle", "build", "characters", "groups", "store", "done"} BY <3>1 DEF Reads, After
    <3> HIDE DEF found, pc
    <3>5. [read[r] EXCEPT !.copy = Rebuilt(@, found), !.found = found, !.pc = pc] \in Reads
      BY <3>1, <3>2, <3>3, <3>4 DEF Reads
    <3> QED BY <3>5 DEF pc
  <2> QED BY <1>3, <2>1 DEF TypeOK, Look
<1>4. CASE Clear(r)
  <2>1. \A o \in Readers : read'[o] \in Reads
    <3> DEFINE pc == After(read[r].pc, read[r].found)
    <3>1. read[r] \in Reads /\ pc \in {"groups", "store", "done"} BY DEF TypeOK, After
    <3>2. [read[r] EXCEPT !.resolved = @ \cup read[r].found, !.found = {}, !.pc = pc] \in Reads
      BY <3>1 DEF Reads
    <3> QED BY <1>4, <3>2, OvertakenType DEF Clear
  <2> QED BY <1>4, <2>1 DEF TypeOK, Clear, ToClear
<1>5. CASE Store(r)
  <2>1. \A o \in Readers : read'[o] \in Reads
    <3>1. read[r] \in Reads BY DEF TypeOK
    <3>2. [read[r] EXCEPT !.pc = "done", !.resolved = {}] \in Reads BY <3>1 DEF Reads
    <3> QED BY <1>5, <3>2, OvertakenType DEF Store
  <2>2. work' \in Works /\ work'.pc = work.pc /\ work'.item = work.item /\ cache' \in Dictionaries
    BY <1>5 DEF Store, TypeOK, Works, Reads
  <2> QED BY <1>5, <2>1, <2>2 DEF TypeOK, Store
<1>6. CASE Return(r)
  BY <1>6, IdleType DEF TypeOK, Return
<1>7. CASE Die(r)
  BY <1>7, IdleType DEF TypeOK, Die
<1> QED BY <1>1, <1>2, <1>3, <1>4, <1>5, <1>6, <1>7 DEF ReadStep

LEMMA WorkType ==
  ASSUME TypeOK, WorkStep \/ Kill \/ Expire
  PROVE  TypeOK'
<1>0. /\ Absent \notin Items
      /\ \A c \in Dictionaries : \A s : Rebuilt(c, s) \in Dictionaries
      /\ \A i : Of(link, i) \in SUBSET Items
  BY ConstantsAssumption, RebuiltType, OfType
<1>1. CASE \E t \in tasks : Take(t)
  <2>1. PICK t \in tasks : Take(t) BY <1>1
  <2>2. work' \in Works /\ work'.pc = "check" /\ work'.item = Absent
    BY <2>1, IdleType DEF TypeOK, Take, Works
  <2> QED BY <2>1, <2>2 DEF TypeOK, Take
<1>2. CASE \E i \in Items : Skip(i)
  BY <1>2 DEF TypeOK, Skip, Works
<1>3. CASE \E i \in Items : Check(i)
  <2>1. PICK i \in Items : Check(i) BY <1>3
  <2>2. work' \in Works /\ work'.pc = "load" /\ work'.item = i
    BY <1>0, <2>1 DEF TypeOK, Check, Works
  <2> QED BY <1>0, <2>1, <2>2 DEF TypeOK, Check
<1>4. CASE WorkLoad
  <2>1. work.item \in Items
    BY <1>4 DEF TypeOK, WorkLoad, Works
  <2>2. \A c \in Dictionaries, d \in SUBSET Items : [c EXCEPT ![work.item] = d] \in Dictionaries
    BY DEF Dictionaries
  <2>3. work' \in Works /\ work'.pc \in {"build", "store"} /\ work'.item = work.item
    BY <1>0, <1>4, <2>2, EmptyType DEF TypeOK, WorkLoad, Works
  <2> QED BY <1>0, <1>4, <2>1, <2>3 DEF TypeOK, WorkLoad
<1>5. CASE WorkBuild
  BY <1>0, <1>5 DEF TypeOK, WorkBuild, Works
<1>6. CASE WorkStore
  <2>1. \A o \in Readers : read'[o] = Overtaken(o) /\ Overtaken(o) \in Reads
    BY <1>6, OvertakenType DEF WorkStore
  <2>2. work' \in Works /\ work'.pc = "unflag" /\ work'.item = work.item /\ cache' \in Dictionaries
    BY <1>6, EmptyType DEF WorkStore, TypeOK, Works
  <2> QED BY <1>6, <2>1, <2>2 DEF TypeOK, WorkStore
<1>7. CASE Unflag
  BY <1>7 DEF TypeOK, Unflag, Works
<1>8. CASE Done \/ Kill
  BY <1>8, IdleType DEF TypeOK, Done, Kill
<1>9. CASE Expire
  BY <1>9 DEF TypeOK, Expire
<1> QED BY <1>1, <1>2, <1>3, <1>4, <1>5, <1>6, <1>7, <1>8, <1>9 DEF WorkStep

LEMMA NextType == TypeOK /\ [Next]_vars => TypeOK'
<1> SUFFICES ASSUME TypeOK, [Next]_vars PROVE TypeOK' OBVIOUS
<1>1. CASE UNCHANGED vars
  BY <1>1 DEF TypeOK, vars
<1> QED BY <1>1, EditType, ReadType, WorkType DEF Next

(* Every state has the types that TypeOK gives.                            *)
THEOREM TypeCorrect == Spec => []TypeOK
BY InitType, NextType, PTL DEF Spec

-----------------------------------------------------------------------------
(* The order of readers and of transactions does not depend on races.      *)
LEMMA OrderKept == IInv /\ TypeOK' /\ [Next]_vars => ReadersInOrder' /\ EditorsFlagged'
<1> SUFFICES ASSUME IInv, TypeOK', [Next]_vars PROVE ReadersInOrder' /\ EditorsFlagged' OBVIOUS
<1>0. /\ TypeOK /\ ReadersInOrder /\ EditorsFlagged
      /\ NoRead.pc = "idle" /\ NoRead.found = {} /\ NoRead.resolved = {} /\ NoEdit.pc = "idle"
  BY DEF IInv, NoRead, NoEdit
<1>1. CASE UNCHANGED vars
  BY <1>0, <1>1 DEF vars, ReadersInOrder, EditorsFlagged
<1>2. ASSUME NEW e \in Editors, NEW g \in Groups, NEW cs \in SUBSET Characters, Change(e, g, cs)
      PROVE  ReadersInOrder' /\ EditorsFlagged'
  BY <1>0, <1>2 DEF Change, ReadersInOrder, EditorsFlagged, TypeOK
<1>3. ASSUME NEW e \in Editors, EditStep(e) PROVE ReadersInOrder' /\ EditorsFlagged'
  <2>1. CASE FlagCharacters(e)
    <3>1. edit[e] \in Edits BY <1>0 DEF TypeOK
    <3>2. /\ edit'[e].pairs = edit[e].pairs /\ edit[e].pc = "characters"
          /\ edit'[e].flagged = edit[e].flagged \cup {p[2] : p \in edit[e].pairs}
          /\ \A o \in Editors : o # e => edit'[o] = edit[o]
      BY <1>0, <2>1, <3>1 DEF FlagCharacters, TypeOK, Edits
    <3>3. EditorsFlagged' BY <1>0, <3>2 DEF EditorsFlagged
    <3> QED BY <1>0, <2>1, <3>3 DEF FlagCharacters, ReadersInOrder
  <2>2. CASE Commit(e)
    <3>1. \A r \in Readers : /\ read'[r].pc = read[r].pc /\ read'[r].found = read[r].found
                             /\ read'[r].resolved = read[r].resolved
      BY <1>0, <2>2 DEF Commit, TypeOK, Reads
    <3> QED BY <1>0, <2>2, <3>1 DEF Commit, ReadersInOrder, EditorsFlagged, TypeOK
  <2>3. CASE Rollback(e)
    BY <1>0, <2>3 DEF Rollback, ReadersInOrder, EditorsFlagged, TypeOK
  <2> QED BY <1>3, <2>1, <2>2, <2>3 DEF EditStep
<1>4. ASSUME NEW r \in Readers, ReadStep(r) \/ Load(r) \/ Die(r)
      PROVE  ReadersInOrder' /\ EditorsFlagged'
  <2>0. EditorsFlagged'
    BY <1>0, <1>4 DEF ReadStep, Load, Die, Build, Look, Clear, Store, Return, EditorsFlagged
  <2>1. read[r] \in Reads /\ read \in [Readers -> Reads] BY <1>0 DEF TypeOK
  <2>2. \A o \in Readers \ {r} : /\ read'[o].pc = read[o].pc /\ read'[o].found = read[o].found
                                 /\ read'[o].resolved = read[o].resolved
    BY <1>4, <2>1 DEF ReadStep, Load, Die, Build, Look, Clear, Store, Return, Overtaken, Reads
  <2>3. CASE Load(r) \/ Die(r) \/ Return(r)
    <3>1. read'[r].found = {} /\ read'[r].resolved = {}
      BY <1>0, <2>1, <2>3, LoadShape DEF Die, Return
    <3> QED BY <1>0, <2>0, <2>2, <3>1 DEF ReadersInOrder
  <2>4. CASE Build(r)
    <3>1. /\ read'[r].found = read[r].found /\ read[r].pc = "build" /\ read'[r].pc = "store"
      BY <2>1, <2>4 DEF Build, Reads
    <3> QED BY <1>0, <2>0, <2>2, <3>1 DEF ReadersInOrder
  <2>5. CASE Look(r)
    <3> DEFINE found == dirty \cap Section(read[r].pc)
    <3>1. /\ read'[r].found = found /\ read'[r].resolved = read[r].resolved
          /\ read[r].pc \in {"characters", "groups"}
          /\ read'[r].pc = IF found = {} THEN After(read[r].pc, read[r].resolved) ELSE read[r].pc
      BY <2>1, <2>5 DEF Look, Reads
    <3> HIDE DEF found
    <3> QED BY <1>0, <2>0, <2>2, <3>1 DEF ReadersInOrder, After
  <2>6. CASE Clear(r)
    <3>1. /\ read'[r].found = {} /\ read[r].found # {}
          /\ read'[r].pc = After(read[r].pc, read[r].found)
      BY <2>1, <2>6 DEF Clear, Reads
    <3> QED BY <1>0, <2>0, <2>2, <3>1 DEF ReadersInOrder, After
  <2>7. CASE Store(r)
    <3>1. read'[r].found = read[r].found /\ read'[r].resolved = {} /\ read'[r].pc = "done" /\ read[r].pc = "store"
      BY <2>1, <2>7 DEF Store, Reads
    <3> QED BY <1>0, <2>0, <2>2, <3>1 DEF ReadersInOrder
  <2> QED BY <1>4, <2>3, <2>4, <2>5, <2>6, <2>7 DEF ReadStep
<1>5. CASE WorkStep \/ Kill \/ Expire
  <2>1. edit' = edit
    BY <1>5 DEF WorkStep, Take, Skip, Check, WorkLoad, WorkBuild, WorkStore, Unflag, Done, Kill, Expire
  <2>2. \A r \in Readers : /\ read'[r].pc = read[r].pc /\ read'[r].found = read[r].found
                           /\ read'[r].resolved = read[r].resolved
    <3>1. CASE WorkStore
      BY <1>0, <3>1 DEF WorkStore, Overtaken, TypeOK, Reads
    <3>2. CASE read' = read
      BY <3>2
    <3> QED BY <1>5, <3>1, <3>2 DEF WorkStep, Take, Skip, Check, WorkLoad, WorkBuild, Unflag, Done, Kill, Expire
  <2> QED BY <1>0, <2>1, <2>2 DEF ReadersInOrder, EditorsFlagged
<1> QED BY <1>1, <1>2, <1>3, <1>4, <1>5 DEF Next

-----------------------------------------------------------------------------
(* What holds before a step that ends without a race.                      *)
Calm == TypeOK /\ ReadersInOrder /\ EditorsFlagged /\ StaleIsFlagged /\ Sound /\ ~raced
Kept == StaleIsFlagged' /\ Sound'

LEMMA RacedStays == TypeOK /\ Next => (raced => raced')
BY DEF TypeOK, Next, EditStep, ReadStep, WorkStep, Change, FlagCharacters, Flag, Commit, Rollback, Load,
       Build, Look, Clear, Store, Return, Die, Take, Skip, Check, WorkLoad, WorkBuild, WorkStore, Unflag,
       Done, Kill, Expire

(* A reader moves on to x and nothing else changes.                        *)
LEMMA OneReader ==
  ASSUME Calm, NEW r \in Readers, NEW x \in Reads, read' = [read EXCEPT ![r] = x],
         UNCHANGED <<link, cache, dirty, edit, work>>,
         x.resolved = read[r].resolved, x.found \cap Unsettled = {}, ReaderRight(x)
  PROVE  Kept
<1>0. /\ TypeOK /\ read'[r] = x /\ \A o \in Readers : o # r => read'[o] = read[o]
      /\ \A o \in Readers : ReaderRight(read[o])
  BY DEF Calm, TypeOK, Sound
<1>1. Resolved' = Resolved
  BY <1>0 DEF Resolved
<1>2. StaleIsFlagged'
  BY <1>1 DEF Calm, StaleIsFlagged
<1>3. Unsettled' = Unsettled
  BY DEF Unsettled
<1>4. \A o \in Readers : read'[o].found \cap Unsettled = {}
  BY <1>0 DEF Calm, Sound, OpenIsFlagged, InHand
<1>5. OpenIsFlagged'
  BY <1>3, <1>4 DEF Calm, Sound, OpenIsFlagged, InHand
<1>6. (\A o \in Readers : ReaderRight(read[o]))'
  <2> SUFFICES ASSUME NEW o \in Readers PROVE ReaderRight(read[o])' OBVIOUS
  <2>1. ReaderRight(read'[o]) BY <1>0
  <2> QED BY <2>1 DEF ReaderRight
<1>7. WorkerRight(work)'
  BY <1>1 DEF Calm, Sound, WorkerRight
<1> QED BY <1>2, <1>5, <1>6, <1>7 DEF Kept, Sound

(* The worker moves on to w, which is not the end of an item.              *)
LEMMA OneWorker ==
  ASSUME Calm, NEW w \in Works, work' = w, w.pc # "unflag",
         UNCHANGED <<link, cache, dirty, edit, read>>,
         w.pc \in {"load", "build", "store"} => w.item \notin Unsettled, WorkerRight(w)
  PROVE  Kept
<1>1. Resolved' = Resolved /\ Unsettled' = Unsettled
  BY DEF Resolved, Unsettled
<1>2. StaleIsFlagged'
  BY <1>1 DEF Calm, StaleIsFlagged
<1>3. OpenIsFlagged'
  <2>1. (UNION {read[o].found : o \in Readers}) \cap Unsettled = {}
    BY DEF Calm, Sound, OpenIsFlagged, InHand
  <2>2. InHand' \cap Unsettled = {}
    BY <2>1 DEF InHand
  <2> QED BY <1>1, <2>2 DEF Calm, Sound, OpenIsFlagged
<1>4. (\A o \in Readers : ReaderRight(read[o]))'
  BY DEF Calm, Sound, ReaderRight
<1>5. WorkerRight(work)'
  BY <1>1 DEF WorkerRight
<1> QED BY <1>2, <1>3, <1>4, <1>5 DEF Kept, Sound

-----------------------------------------------------------------------------
(* Flags are set: what is wrong may now be flagged, and nothing else.      *)
LEMMA FlagKeeps ==
  ASSUME Calm, ~raced', NEW e \in Editors, NEW items, Flag(e, items),
         Unsettled' \subseteq Unsettled \cup items, UNCHANGED <<link, cache, read, work>>
  PROVE  Kept
<1>1. dirty' = dirty \cup items /\ items \cap InHand = {} /\ InHand' = InHand /\ Resolved' = Resolved
  BY DEF Flag, InHand, Resolved
<1>2. StaleIsFlagged'
  BY <1>1 DEF Calm, StaleIsFlagged
<1>3. OpenIsFlagged'
  BY <1>1 DEF Calm, Sound, OpenIsFlagged
<1>4. (\A o \in Readers : ReaderRight(read[o]))'
  BY <1>1 DEF Calm, Sound, ReaderRight
<1>5. WorkerRight(work)'
  BY <1>1 DEF Calm, Sound, WorkerRight
<1> QED BY <1>2, <1>3, <1>4, <1>5 DEF Kept, Sound

LEMMA FlagSteps ==
  ASSUME Calm, ~raced', NEW e \in Editors,
         FlagCharacters(e) \/ \E g \in Groups, cs \in SUBSET Characters : Change(e, g, cs)
  PROVE  Kept
<1>0. edit \in [Editors -> Edits] BY DEF Calm, TypeOK
<1>1. CASE FlagCharacters(e)
  <2> DEFINE cs == {p[2] : p \in edit[e].pairs}
  <2>1. edit'[e].flagged = edit[e].flagged \cup cs /\ \A o \in Editors : o # e => edit'[o] = edit[o]
    BY <1>0, <1>1 DEF FlagCharacters, Edits
  <2>2. Unsettled' \subseteq Unsettled \cup cs
    BY <2>1 DEF Unsettled
  <2>3. Flag(e, cs) /\ UNCHANGED <<link, cache, read, work>>
    BY <1>1 DEF FlagCharacters
  <2> HIDE DEF cs
  <2> QED BY <2>2, <2>3, FlagKeeps
<1>2. ASSUME NEW g \in Groups, NEW cs \in SUBSET Characters, Change(e, g, cs) PROVE Kept
  <2>1. edit'[e].flagged = {g} /\ \A o \in Editors : o # e => edit'[o] = edit[o]
    BY <1>0, <1>2 DEF Change
  <2>2. Unsettled' \subseteq Unsettled \cup {g}
    BY <2>1 DEF Unsettled
  <2> QED BY <1>2, <2>2, FlagKeeps DEF Change
<1> QED BY <1>1, <1>2

(* What a commit changes is flagged, so no other entry becomes wrong.      *)
LEMMA CommitKeeps ==
  ASSUME Calm, NEW e \in Editors, Commit(e)
  PROVE  Kept
<1>0. /\ edit \in [Editors -> Edits] /\ edit[e].pairs \subseteq Groups \X Characters
      /\ Groups \cap Characters = {}
  BY ConstantsAssumption DEF Calm, TypeOK, Edits, Pairs
<1>1. \A i \in Items : i \notin edit[e].flagged => Of(link', i) = Of(link, i)
  <2>1. \A p \in edit[e].pairs : p[1] \in edit[e].flagged /\ p[2] \in edit[e].flagged
    BY DEF Calm, EditorsFlagged, Commit
  <2>2. \A g \in Groups, c \in Characters :
          g \notin edit[e].flagged \/ c \notin edit[e].flagged => (<<g, c>> \in link' <=> <<g, c>> \in link)
    BY <2>1 DEF Commit
  <2> QED BY <2>2 DEF Of, Items
<1>2. edit[e].flagged \subseteq Unsettled /\ Unsettled \subseteq dirty /\ Unsettled \cap InHand = {}
  BY DEF Unsettled, Calm, Sound, OpenIsFlagged
<1>3. \A i \in Items : i \notin dirty \/ i \in InHand => Of(link', i) = Of(link, i)
  BY <1>1, <1>2
<1>4. \A r \in Readers :
        /\ read'[r].pc = read[r].pc /\ read'[r].copy = read[r].copy /\ read'[r].found = read[r].found
        /\ read'[r].resolved = read[r].resolved /\ read'[r].crossed = read[r].crossed
        /\ read[r].pc # "idle" => read'[r].moved
  BY DEF Commit, Calm, TypeOK, Reads
<1>5. UNCHANGED <<cache, dirty, work>> /\ Resolved' = Resolved
  BY <1>4 DEF Commit, Resolved
<1>6. Unsettled' \subseteq Unsettled /\ InHand' = InHand
  <2>1. edit'[e].flagged = {} /\ \A o \in Editors : o # e => edit'[o] = edit[o]
    BY <1>0 DEF Commit, NoEdit
  <2>2. Unsettled' \subseteq Unsettled
    BY <2>1 DEF Unsettled
  <2> QED BY <1>4, <1>5, <2>2 DEF InHand
<1>7. OpenIsFlagged'
  BY <1>2, <1>5, <1>6 DEF OpenIsFlagged
<1>8. StaleIsFlagged'
  BY <1>3, <1>5 DEF Calm, StaleIsFlagged
<1>9. ASSUME NEW r \in Readers PROVE ReaderRight(read[r])'
  <2>0. ReaderRight(read[r]) /\ read[r].found \subseteq Items /\ Seen(read[r].pc) \subseteq Items
    BY DEF Calm, Sound, TypeOK, Reads, Seen, Items
  <2>1. (Reading(read[r]) => \A i \in read[r].found : read[r].copy[i] = Of(link, i))'
    BY <1>3, <1>4, <2>0 DEF ReaderRight, Reading, InHand
  <2>2. (Reading(read[r]) /\ ~read[r].crossed
          => \A i \in Seen(read[r].pc) : read[r].copy[i] = Of(link, i) \/ i \in dirty)'
    BY <1>3, <1>4, <1>5, <2>0 DEF ReaderRight, Reading
  <2>3. (Reading(read[r]) /\ ~read[r].crossed /\ work.pc = "unflag" /\ work.item \in Seen(read[r].pc) =>
          read[r].copy[work.item] = Of(link, work.item))'
    BY <1>3, <1>4, <1>5, <2>0 DEF ReaderRight, Reading, InHand
  <2>4. (~read[r].crossed /\ ~read[r].moved => \A i \in Through(read[r]) : read[r].copy[i] = Of(link, i))'
    BY <1>4 DEF Through
  <2> QED BY <2>1, <2>2, <2>3, <2>4 DEF ReaderRight
<1>10. WorkerRight(work)'
  <2>1. /\ work.pc \in {"load", "build", "store", "unflag"} => work.item \in Items /\ work.item \in InHand
        /\ Seen(work.pc) \subseteq Items
    BY DEF Calm, TypeOK, Works, InHand, Seen, Items
  <2> QED BY <1>3, <1>5, <2>1 DEF Calm, Sound, WorkerRight
<1> QED BY <1>7, <1>8, <1>9, <1>10 DEF Kept, Sound

LEMMA RollbackKeeps ==
  ASSUME Calm, NEW e \in Editors, Rollback(e)
  PROVE  Kept
<1>1. edit \in [Editors -> Edits] BY DEF Calm, TypeOK
<1>2. edit'[e].flagged = {} /\ \A o \in Editors : o # e => edit'[o] = edit[o]
  BY <1>1 DEF Rollback, NoEdit
<1>3. Unsettled' \subseteq Unsettled
  BY <1>2 DEF Unsettled
<1>4. UNCHANGED <<link, cache, dirty, read, work, Resolved, InHand>>
  BY DEF Rollback, Resolved, InHand
<1> QED BY <1>3, <1>4 DEF Kept, Calm, StaleIsFlagged, Sound, OpenIsFlagged, ReaderRight, WorkerRight

-----------------------------------------------------------------------------
(* The steps of a reader.                                                  *)
LEMMA LoadKeeps ==
  ASSUME Calm, NEW r \in Readers, Load(r)
  PROVE  Kept
<1>0. TypeOK /\ StaleIsFlagged BY DEF Calm
<1>1. PICK x \in Reads :
        /\ read' = [read EXCEPT ![r] = x]
        /\ x.pc = IF cache = Absent THEN "build" ELSE "characters"
        /\ x.copy = IF cache = Absent THEN Rebuilt(Empty, Characters) ELSE cache
        /\ x.found = {} /\ x.resolved = {} /\ ~x.moved
        /\ x.crossed = \E o \in Readers : read[o].resolved # {}
  BY <1>0, LoadShape
<1>2. read[r].resolved = {}
  BY DEF Calm, ReadersInOrder, Load
<1>3. CASE cache = Absent
  <2>1. \A i \in Characters : x.copy[i] = Of(link, i)
    BY <1>1, <1>3, EmptyType, RebuiltType DEF Items
  <2>2. work.pc = "unflag" => work.item \in Items
    BY <1>0 DEF TypeOK, Works
  <2>3. ReaderRight(x)
    BY <1>1, <1>3, <2>1 DEF ReaderRight, Seen, Through
  <2> QED BY <1>1, <1>2, <2>3, OneReader DEF Load
<1>4. CASE cache # Absent
  <2>1. ~x.crossed => Resolved = {}
    BY <1>1 DEF Resolved
  <2>2. ~x.crossed => \A i \in Items : x.copy[i] = Of(link, i) \/ i \in dirty
    BY <1>0, <1>1, <1>4, <2>1 DEF StaleIsFlagged, Calm
  <2>3. work.pc = "unflag" => cache[work.item] = Of(link, work.item)
    BY <1>4 DEF Calm, Sound, WorkerRight
  <2>4. ReaderRight(x)
    BY <1>1, <1>4, <2>2, <2>3 DEF ReaderRight, Seen, Through
  <2> QED BY <1>1, <1>2, <2>4, OneReader DEF Load
<1> QED BY <1>3, <1>4

LEMMA BuildKeeps ==
  ASSUME Calm, NEW r \in Readers, Build(r)
  PROVE  Kept
<1> DEFINE x == [read[r] EXCEPT !.copy = Rebuilt(@, Groups), !.pc = "store"]
<1>0. TypeOK /\ read[r] \in Reads /\ read \in [Readers -> Reads] BY DEF Calm, TypeOK
<1>1. /\ read' = [read EXCEPT ![r] = x] /\ x \in Reads
      /\ x.pc = "store" /\ x.copy = Rebuilt(read[r].copy, Groups) /\ x.found = read[r].found
      /\ x.resolved = read[r].resolved /\ x.crossed = read[r].crossed /\ x.moved = read[r].moved
  <2>1. Rebuilt(read[r].copy, Groups) \in Dictionaries BY <1>0, RebuiltType DEF Reads
  <2> QED BY <1>0, <2>1 DEF Build, Reads
<1> HIDE DEF x
<1>2. read[r].pc = "build" /\ x.found = {} /\ ReaderRight(read[r])
  BY <1>1 DEF Build, Calm, ReadersInOrder, Sound
<1>3. \A i \in Items : x.copy[i] = IF i \in Groups THEN Of(link, i) ELSE read[r].copy[i]
  BY <1>0, <1>1, RebuiltType DEF Reads
<1>4. ReaderRight(x)
  <2>1. ~x.crossed => \A i \in Items : x.copy[i] = Of(link, i) \/ i \in dirty
    BY <1>1, <1>2, <1>3 DEF ReaderRight, Reading, Seen, Items
  <2>2. ~x.crossed /\ work.pc = "unflag" /\ work.item \in Items => x.copy[work.item] = Of(link, work.item)
    BY <1>1, <1>2, <1>3 DEF ReaderRight, Reading, Seen, Items
  <2>3. ~x.crossed /\ ~x.moved => \A i \in Items : x.copy[i] = Of(link, i)
    BY <1>1, <1>2, <1>3 DEF ReaderRight, Through, Items
  <2> QED BY <1>1, <1>2, <2>1, <2>2, <2>3 DEF ReaderRight, Reading, Seen, Through
<1> QED BY <1>1, <1>2, <1>4, OneReader DEF Build

LEMMA LookKeeps ==
  ASSUME Calm, NEW r \in Readers, Look(r), ~raced'
  PROVE  Kept
<1> DEFINE found == dirty \cap Section(read[r].pc)
           pc == IF found = {} THEN After(read[r].pc, read[r].resolved) ELSE read[r].pc
           x == [read[r] EXCEPT !.copy = Rebuilt(@, found), !.found = found, !.pc = pc]
<1>0. TypeOK /\ read[r] \in Reads /\ read \in [Readers -> Reads] BY DEF Calm, TypeOK
<1>1. read' = [read EXCEPT ![r] = x] /\ found \cap Unsettled = {} /\ found \subseteq Items
  BY <1>0 DEF Look, TypeOK
<1>2. pc \in {"groups", "store", "done", "characters"}
  BY DEF Look, After
<1>3. /\ found = dirty \cap Section(read[r].pc)
      /\ pc = IF found = {} THEN After(read[r].pc, read[r].resolved) ELSE read[r].pc
  OBVIOUS
<1> HIDE DEF found, pc
<1>4. /\ x \in Reads /\ x.pc = pc /\ x.copy = Rebuilt(read[r].copy, found) /\ x.found = found
      /\ x.resolved = read[r].resolved /\ x.crossed = read[r].crossed /\ x.moved = read[r].moved
  <2>1. Rebuilt(read[r].copy, found) \in Dictionaries BY <1>0, RebuiltType DEF Reads
  <2> QED BY <1>0, <1>1, <1>2, <2>1 DEF Reads
<1> HIDE DEF x
<1>5. read[r].pc \in {"characters", "groups"} /\ read[r].found = {} /\ ReaderRight(read[r])
  BY DEF Look, Calm, Sound
<1>6. \A i \in Items : x.copy[i] = IF i \in found THEN Of(link, i) ELSE read[r].copy[i]
  BY <1>0, <1>4, RebuiltType DEF Reads
<1>7. ReaderRight(x)
  <2>1. \A i \in x.found : x.copy[i] = Of(link, i)
    BY <1>1, <1>4, <1>6
  <2>2. ~x.crossed => \A i \in Items : x.copy[i] = Of(link, i) \/ i \in dirty
    BY <1>4, <1>5, <1>6 DEF ReaderRight, Reading, Seen
  <2>3. ~x.crossed /\ work.pc = "unflag" /\ work.item \in Items => x.copy[work.item] = Of(link, work.item)
    BY <1>4, <1>5, <1>6 DEF ReaderRight, Reading, Seen
  <2>4. Seen(x.pc) = Items
    BY <1>2, <1>4 DEF Seen
  <2>5. ASSUME ~x.crossed, ~x.moved, NEW i \in Through(x) PROVE x.copy[i] = Of(link, i)
    <3>1. i \in Items /\ (read[r].pc = "groups" => \A c \in Characters : x.copy[c] = Of(link, c))
      BY <1>4, <1>5, <1>6, <2>5 DEF Through, Items, ReaderRight
    <3>2. i \in Section(read[r].pc) => x.copy[i] = Of(link, i)
      BY <1>3, <1>6, <2>2, <2>5, <3>1
    <3>3. i \in Characters \/ (i \in Groups /\ read[r].pc = "groups")
      BY <1>2, <1>3, <1>4, <1>5, <2>5 DEF Through, After, Items
    <3> QED BY <1>5, <3>1, <3>2, <3>3 DEF Section
  <2> QED BY <2>1, <2>2, <2>3, <2>4, <2>5 DEF ReaderRight
<1> QED BY <1>1, <1>4, <1>7, OneReader DEF Look

LEMMA LeaveKeeps ==
  ASSUME Calm, NEW r \in Readers, Return(r) \/ Die(r), ~raced'
  PROVE  Kept
<1>1. read[r].resolved = {}
  BY DEF Return, Die, Calm, ReadersInOrder
<1>2. NoRead.pc = "idle" /\ NoRead.found = {} /\ NoRead.resolved = {}
  BY DEF NoRead
<1>3. ReaderRight(NoRead)
  BY <1>2 DEF ReaderRight, Reading, Through
<1> QED BY <1>1, <1>2, <1>3, IdleType, OneReader DEF Return, Die

LEMMA ClearKeeps ==
  ASSUME Calm, NEW r \in Readers, Clear(r)
  PROVE  Kept
<1> DEFINE pc == After(read[r].pc, read[r].found)
           x == [read[r] EXCEPT !.resolved = @ \cup read[r].found, !.found = {}, !.pc = pc]
<1>0. TypeOK /\ read[r] \in Reads /\ read \in [Readers -> Reads] BY DEF Calm, TypeOK
<1>1. /\ read[r].found # {} /\ read[r].pc \in {"characters", "groups"}
      /\ pc = IF read[r].pc = "characters" THEN "groups" ELSE "store"
  BY DEF Clear, Calm, ReadersInOrder, After
<1>2. /\ x \in Reads /\ x.pc = pc /\ x.copy = read[r].copy /\ x.found = {}
      /\ x.resolved = read[r].resolved \cup read[r].found
      /\ x.crossed = read[r].crossed /\ x.moved = read[r].moved
  <2> HIDE DEF pc
  <2> QED BY <1>0, <1>1 DEF Reads
<1>3. /\ read'[r] = x /\ dirty' = dirty \ read[r].found
      /\ \A o \in Readers : o # r => /\ read'[o] = [read[o] EXCEPT !.crossed = (read[o].pc # "idle")]
      /\ UNCHANGED <<link, cache, edit, work>>
  BY <1>0 DEF Clear, ToClear, Overtaken
<1> HIDE DEF x, pc
<1>4. \A o \in Readers : o # r =>
        /\ read'[o].pc = read[o].pc /\ read'[o].copy = read[o].copy /\ read'[o].found = read[o].found
        /\ read'[o].resolved = read[o].resolved /\ (read[o].pc # "idle" => read'[o].crossed)
  <2> SUFFICES ASSUME NEW o \in Readers, o # r
               PROVE  /\ read'[o].pc = read[o].pc /\ read'[o].copy = read[o].copy
                      /\ read'[o].found = read[o].found /\ read'[o].resolved = read[o].resolved
                      /\ (read[o].pc # "idle" => read'[o].crossed)
    OBVIOUS
  <2>1. read[o] \in Reads BY <1>0
  <2> QED BY <1>3, <2>1 DEF Reads
<1>5. Unsettled' = Unsettled /\ Resolved \cup read[r].found \subseteq Resolved' /\ InHand' \subseteq InHand
  BY <1>2, <1>3, <1>4 DEF Unsettled, Resolved, InHand
<1>6. read[r].found \cap Unsettled = {}
  BY DEF Calm, Sound, OpenIsFlagged, InHand
<1>7. OpenIsFlagged'
  BY <1>3, <1>5, <1>6 DEF Calm, Sound, OpenIsFlagged
<1>8. StaleIsFlagged'
  BY <1>3, <1>5 DEF Calm, StaleIsFlagged
<1>9. ReaderRight(read[r]) /\ WorkerRight(work)
  BY DEF Calm, Sound
<1>10. ReaderRight(read[r])'
  <2>1. ~x.crossed => \A i \in Items : x.copy[i] = Of(link, i) \/ i \in dirty \ read[r].found
    BY <1>1, <1>2, <1>9 DEF ReaderRight, Reading, Seen
  <2>2. ~x.crossed /\ work.pc = "unflag" /\ work.item \in Items => x.copy[work.item] = Of(link, work.item)
    BY <1>1, <1>2, <1>9 DEF ReaderRight, Reading, Seen
  <2>3. Seen(x.pc) = Items
    BY <1>1, <1>2 DEF Seen
  <2>4. ~x.crossed /\ ~x.moved => \A i \in Through(x) : x.copy[i] = Of(link, i)
    BY <1>1, <1>2, <1>9 DEF ReaderRight, Through
  <2> QED BY <1>2, <1>3, <2>1, <2>2, <2>3, <2>4 DEF ReaderRight
<1>11. ASSUME NEW o \in Readers, o # r PROVE ReaderRight(read[o])'
  <2>1. ReaderRight(read[o]) BY DEF Calm, Sound
  <2>2. CASE read[o].pc = "idle"
    BY <1>3, <1>4, <1>11, <2>2 DEF ReaderRight, Reading, Through
  <2>3. CASE read[o].pc # "idle"
    BY <1>3, <1>4, <1>11, <2>1, <2>3 DEF ReaderRight, Reading
  <2> QED BY <2>2, <2>3
<1>12. WorkerRight(work)'
  BY <1>3, <1>5, <1>9 DEF WorkerRight
<1> QED BY <1>7, <1>8, <1>10, <1>11, <1>12 DEF Kept, Sound

(* A copy is stored: others, whose copies are older, are marked.           *)
LEMMA OthersCrossed ==
  ASSUME Calm, NEW o \in Readers, read'[o] = Overtaken(o), UNCHANGED <<link, dirty>>
  PROVE  ReaderRight(read[o])' /\ read'[o].found = read[o].found /\ read'[o].resolved = read[o].resolved
<1>1. read[o] \in Reads /\ ReaderRight(read[o]) BY DEF Calm, Sound, TypeOK
<1>2. /\ read'[o].pc = read[o].pc /\ read'[o].copy = read[o].copy /\ read'[o].found = read[o].found
      /\ read'[o].resolved = read[o].resolved /\ read'[o].crossed = (read[o].pc # "idle")
  BY <1>1 DEF Overtaken, Reads
<1>3. CASE read[o].pc = "idle"
  BY <1>2, <1>3 DEF ReaderRight, Reading, Through
<1>4. CASE read[o].pc # "idle"
  BY <1>1, <1>2, <1>4 DEF ReaderRight, Reading
<1> QED BY <1>2, <1>3, <1>4

LEMMA StoreKeeps ==
  ASSUME Calm, NEW r \in Readers, Store(r), ~raced'
  PROVE  Kept
<1>0. TypeOK /\ read[r] \in Reads /\ work \in Works /\ read \in [Readers -> Reads] BY DEF Calm, TypeOK
<1>1. /\ read[r].pc = "store" /\ ~read[r].crossed /\ cache' = read[r].copy /\ read[r].found = {}
      /\ UNCHANGED <<link, dirty, edit>>
  BY DEF Store, Calm, ReadersInOrder
<1>2. /\ read'[r].pc = "done" /\ read'[r].copy = read[r].copy /\ read'[r].found = {} /\ read'[r].resolved = {}
      /\ read'[r].crossed = read[r].crossed /\ read'[r].moved = read[r].moved
  BY <1>0, <1>1 DEF Store, Reads
<1>3. \A o \in Readers : o # r => read'[o] = Overtaken(o)
  BY DEF Store
<1>4. /\ work'.pc = work.pc /\ work'.item = work.item /\ work'.data = work.data /\ work'.copy = work.copy
      /\ (work.pc \in {"build", "store"} => work'.crossed)
  BY <1>0 DEF Store, Works
<1>5. ReaderRight(read[r]) /\ WorkerRight(work)
  BY DEF Calm, Sound
<1>6. \A i \in Items : read[r].copy[i] = Of(link, i) \/ i \in dirty
  BY <1>1, <1>5 DEF ReaderRight, Reading, Seen
<1>7. StaleIsFlagged'
  BY <1>1, <1>6 DEF StaleIsFlagged
<1>8. \A o \in Readers : read'[o].found = read[o].found
  BY <1>1, <1>2, <1>3, OthersCrossed
<1>9. OpenIsFlagged'
  <2>1. Unsettled' = Unsettled /\ InHand' = InHand
    BY <1>1, <1>4, <1>8 DEF Unsettled, InHand
  <2> QED BY <1>1, <2>1 DEF Calm, Sound, OpenIsFlagged
<1>10. ReaderRight(read[r])'
  BY <1>1, <1>2, <1>5 DEF ReaderRight, Reading, Through
<1>11. \A o \in Readers : o # r => ReaderRight(read[o])'
  BY <1>1, <1>3, OthersCrossed
<1>12. WorkerRight(work)'
  <2>1. work.pc = "unflag" => work.item \in Items /\ read[r].copy[work.item] = Of(link, work.item)
    BY <1>0, <1>1, <1>5 DEF TypeOK, ReaderRight, Reading, Seen, Works
  <2> QED BY <1>1, <1>4, <1>5, <2>1 DEF WorkerRight
<1> QED BY <1>7, <1>9, <1>10, <1>11, <1>12 DEF Kept, Sound

-----------------------------------------------------------------------------
(* The steps of the worker.                                                *)
LEMMA WorkerMoves ==
  ASSUME Calm, ~raced',
         \/ \E t \in tasks : Take(t)
         \/ \E i \in Items : Skip(i) \/ Check(i)
         \/ Done \/ Kill
  PROVE  Kept
<1>0. TypeOK /\ work \in Works /\ WorkerRight(work) BY DEF Calm, TypeOK, Sound
<1>1. CASE \E t \in tasks : Take(t)
  <2>1. PICK t \in tasks : Take(t) BY <1>1
  <2>2. t \subseteq Items BY <1>0 DEF TypeOK
  <2>3. [NoWork EXCEPT !.pc = "check", !.task = t, !.left = t] \in Works
    BY <2>2, IdleType DEF Works
  <2>4. work' \in Works /\ work'.pc = "check"
    BY <2>1, <2>3, IdleType DEF Take, Works
  <2>5. WorkerRight(work')
    BY <2>4 DEF WorkerRight
  <2> QED BY <2>1, <2>4, <2>5, OneWorker DEF Take
<1>2. CASE \E i \in Items : Skip(i)
  <2>1. PICK i \in Items : Skip(i) BY <1>2
  <2>2. work' \in Works /\ work'.pc = "check"
    BY <1>0, <2>1 DEF Skip, Works
  <2>3. WorkerRight(work')
    BY <2>2 DEF WorkerRight
  <2> QED BY <2>1, <2>2, <2>3, OneWorker DEF Skip
<1>3. CASE \E i \in Items : Check(i)
  <2>1. PICK i \in Items : Check(i) BY <1>3
  <2>2. work' \in Works /\ work'.pc = "load" /\ work'.item = i /\ work'.data = Of(link, i)
    BY <1>0, <2>1, OfType DEF Check, Works
  <2>3. WorkerRight(work') /\ i \notin Unsettled
    BY <2>1, <2>2 DEF WorkerRight, Check
  <2> QED BY <2>1, <2>2, <2>3, OneWorker DEF Check
<1>4. CASE Done \/ Kill
  <2>1. WorkerRight(NoWork)
    BY IdleType DEF WorkerRight
  <2> QED BY <1>4, <2>1, IdleType, OneWorker DEF Done, Kill
<1> QED BY <1>1, <1>2, <1>3, <1>4

LEMMA WorkLoadKeeps ==
  ASSUME Calm, WorkLoad
  PROVE  Kept
<1> DEFINE data == IF work.item \in Groups THEN work.data ELSE Of(link, work.item)
<1>0. /\ TypeOK /\ work \in Works /\ work.pc = "load" /\ work.item \in Items
      /\ WorkerRight(work) /\ StaleIsFlagged /\ work.item \notin Unsettled
  BY DEF Calm, TypeOK, Sound, WorkLoad, Works, OpenIsFlagged, InHand
<1>1. data = Of(link, work.item) /\ data \in SUBSET Items
  BY <1>0, OfType DEF WorkerRight
<1> HIDE DEF data
<1>2. CASE cache = Absent
  <2> DEFINE copy == Rebuilt(Empty, Characters)
  <2>1. copy \in Dictionaries /\ \A i \in Characters : copy[i] = Of(link, i)
    BY EmptyType, RebuiltType DEF Items
  <2>2. work' = [work EXCEPT !.pc = "build", !.copy = copy]
    BY <1>2 DEF WorkLoad
  <2> HIDE DEF copy
  <2>3. work' \in Works /\ work'.pc = "build" /\ work'.copy = copy /\ work'.item = work.item
    BY <1>0, <2>1, <2>2 DEF Works
  <2>4. WorkerRight(work')
    BY <2>1, <2>3 DEF WorkerRight, Seen
  <2> QED BY <1>0, <2>3, <2>4, OneWorker DEF WorkLoad
<1>3. CASE cache # Absent
  <2> DEFINE copy == [cache EXCEPT ![work.item] = data]
  <2>1. /\ copy \in Dictionaries /\ copy[work.item] = Of(link, work.item)
        /\ \A i \in Items : i # work.item => copy[i] = cache[i]
    BY <1>0, <1>1, <1>3 DEF TypeOK, Dictionaries
  <2>2. work' = [work EXCEPT !.pc = "store", !.copy = copy]
    BY <1>3 DEF WorkLoad, data
  <2> HIDE DEF copy
  <2>3. work' \in Works /\ work'.pc = "store" /\ work'.copy = copy /\ work'.item = work.item
    BY <1>0, <2>1, <2>2 DEF Works
  <2>4. \A i \in Items : copy[i] = Of(link, i) \/ i \in dirty \cup Resolved
    BY <1>0, <1>3, <2>1 DEF StaleIsFlagged, Calm
  <2>5. WorkerRight(work')
    BY <2>1, <2>3, <2>4 DEF WorkerRight, Seen
  <2> QED BY <1>0, <2>3, <2>5, OneWorker DEF WorkLoad
<1> QED BY <1>2, <1>3

LEMMA WorkBuildKeeps ==
  ASSUME Calm, WorkBuild
  PROVE  Kept
<1>0. /\ work \in Works /\ work.pc = "build" /\ work.item \in Items
      /\ WorkerRight(work) /\ work.item \notin Unsettled
  BY DEF Calm, TypeOK, Sound, WorkBuild, Works, OpenIsFlagged, InHand
<1> DEFINE copy == Rebuilt(work.copy, Groups)
<1>1. /\ copy \in Dictionaries
      /\ \A i \in Items : copy[i] = IF i \in Groups THEN Of(link, i) ELSE work.copy[i]
  BY <1>0, RebuiltType DEF Works
<1>2. work' = [work EXCEPT !.copy = copy, !.pc = "store"]
  BY DEF WorkBuild
<1> HIDE DEF copy
<1>3. /\ work' \in Works /\ work'.pc = "store" /\ work'.copy = copy /\ work'.item = work.item
      /\ work'.crossed = work.crossed
  BY <1>0, <1>1, <1>2 DEF Works
<1>4. WorkerRight(work')
  BY <1>0, <1>1, <1>3 DEF WorkerRight, Seen, Items
<1> QED BY <1>0, <1>3, <1>4, OneWorker DEF WorkBuild

LEMMA WorkStoreKeeps ==
  ASSUME Calm, WorkStore, ~raced'
  PROVE  Kept
<1>0. /\ work \in Works /\ work.pc = "store" /\ ~work.crossed /\ work.item \in Items /\ WorkerRight(work)
  BY DEF Calm, TypeOK, Sound, WorkStore, Works
<1>1. /\ work'.pc = "unflag" /\ work'.item = work.item /\ cache' = work.copy
      /\ UNCHANGED <<link, dirty, edit>> /\ \A o \in Readers : read'[o] = Overtaken(o)
  BY <1>0 DEF WorkStore, Works
<1>2. \A o \in Readers : read'[o].found = read[o].found /\ read'[o].resolved = read[o].resolved
  BY <1>1, OthersCrossed
<1>3. Resolved' = Resolved /\ Unsettled' = Unsettled /\ InHand' = InHand
  BY <1>0, <1>1, <1>2 DEF Resolved, Unsettled, InHand
<1>4. StaleIsFlagged'
  BY <1>0, <1>1, <1>3 DEF StaleIsFlagged, WorkerRight, Seen
<1>5. OpenIsFlagged'
  BY <1>1, <1>3 DEF Calm, Sound, OpenIsFlagged
<1>6. \A o \in Readers : ReaderRight(read[o])'
  <2>1. \A o \in Readers : Reading(read'[o]) => read'[o].crossed
    BY <1>1 DEF Overtaken, Reading, Calm, TypeOK, Reads
  <2> QED BY <1>1, <2>1, OthersCrossed
<1>7. WorkerRight(work)'
  BY <1>0, <1>1 DEF WorkerRight, Seen
<1> QED BY <1>4, <1>5, <1>6, <1>7 DEF Kept, Sound

LEMMA UnflagKeeps ==
  ASSUME Calm, Unflag
  PROVE  Kept
<1>0. /\ work \in Works /\ work.pc = "unflag" /\ work.item \in Items /\ WorkerRight(work)
      /\ work.item \in InHand
  BY DEF Calm, TypeOK, Sound, Unflag, Works, InHand
<1>1. /\ work'.pc = "check" /\ dirty' = dirty \ {work.item} /\ UNCHANGED <<link, cache, edit, read>>
  BY <1>0 DEF Unflag, Works
<1>2. /\ Resolved' = Resolved /\ Unsettled' = Unsettled /\ InHand' \subseteq InHand
  BY <1>1 DEF Resolved, Unsettled, InHand
<1>3. StaleIsFlagged'
  BY <1>0, <1>1, <1>2 DEF Calm, StaleIsFlagged, WorkerRight
<1>4. OpenIsFlagged'
  BY <1>0, <1>1, <1>2 DEF Calm, Sound, OpenIsFlagged
<1>5. ASSUME NEW o \in Readers PROVE ReaderRight(read[o])'
  <2>1. ReaderRight(read[o]) BY DEF Calm, Sound
  <2> QED BY <1>0, <1>1, <2>1 DEF ReaderRight
<1>6. WorkerRight(work)'
  BY <1>1 DEF WorkerRight
<1> QED BY <1>3, <1>4, <1>5, <1>6 DEF Kept, Sound

(* The dictionary goes: what copies there are stay as they were.           *)
LEMMA ExpireKeeps ==
  ASSUME Calm, Expire
  PROVE  Kept
<1>1. cache' = Absent /\ UNCHANGED <<link, dirty, edit, read, work, Resolved, Unsettled, InHand>>
  BY DEF Expire, Resolved, Unsettled, InHand
<1> QED BY <1>1 DEF Kept, Calm, StaleIsFlagged, Sound, OpenIsFlagged, ReaderRight, WorkerRight

-----------------------------------------------------------------------------
LEMMA InitInvariant == Init => IInv
<1> SUFFICES ASSUME Init PROVE IInv OBVIOUS
<1>1. TypeOK BY InitType
<1>2. /\ \A r \in Readers : read[r] = NoRead
      /\ \A e \in Editors : edit[e] = NoEdit
      /\ NoRead.pc = "idle" /\ NoRead.found = {} /\ NoRead.resolved = {}
      /\ NoEdit.pc = "idle" /\ NoEdit.flagged = {} /\ work.pc = "idle"
  BY IdleType DEF Init, NoRead, NoEdit
<1>3. ReadersInOrder /\ EditorsFlagged
  BY <1>2 DEF ReadersInOrder, EditorsFlagged
<1>4. StaleIsFlagged
  BY EmptyType, RebuiltType DEF Init, StaleIsFlagged
<1>5. Unsettled = {}
  BY <1>2 DEF Unsettled
<1>6. Sound
  BY <1>2, <1>5 DEF Sound, OpenIsFlagged, ReaderRight, Reading, Through, WorkerRight
<1> QED BY <1>1, <1>3, <1>4, <1>6 DEF IInv

LEMMA NextInvariant == IInv /\ [Next]_vars => IInv'
<1> SUFFICES ASSUME IInv, [Next]_vars PROVE IInv' OBVIOUS
<1>1. TypeOK' BY NextType DEF IInv
<1>2. ReadersInOrder' /\ EditorsFlagged' BY <1>1, OrderKept
<1>3. CASE UNCHANGED vars
  BY <1>3 DEF vars, IInv, TypeOK, ReadersInOrder, EditorsFlagged, StaleIsFlagged, Resolved, Sound,
              OpenIsFlagged, Unsettled, InHand, ReaderRight, WorkerRight
<1>4. CASE Next
  <2>1. CASE raced'
    BY <1>1, <1>2, <2>1 DEF IInv, StaleIsFlagged
  <2>2. CASE ~raced'
    <3>1. Calm
      BY <1>4, <2>2, RacedStays DEF IInv, Calm
    <3>2. Kept
      BY <1>4, <2>2, <3>1, FlagSteps, CommitKeeps, RollbackKeeps, LoadKeeps, BuildKeeps, LookKeeps, LeaveKeeps,
         ClearKeeps, StoreKeeps, WorkerMoves, WorkLoadKeeps, WorkBuildKeeps, WorkStoreKeeps, UnflagKeeps,
         ExpireKeeps DEF Next, EditStep, ReadStep, WorkStep
    <3> QED BY <1>1, <1>2, <3>2 DEF Kept, IInv
  <2> QED BY <2>1, <2>2
<1> QED BY <1>3, <1>4

(* A change that is committed is never lost but in the races that are      *)
(* named: a stored entry that is out of date has its flag, or a reader     *)
(* that is about to store it.                                              *)
THEOREM NoChangeIsLost == Spec => []StaleIsFlagged
<1>1. IInv => StaleIsFlagged BY DEF IInv
<1> QED BY <1>1, InitInvariant, NextInvariant, PTL DEF Spec

(* A read that nothing was committed under, and that no other copy         *)
(* crossed, shows what the database says of every item.                    *)
THEOREM ReadsAreFresh == Spec => []FreshRead
<1>1. IInv => FreshRead BY DEF IInv, Sound, ReaderRight, Through, FreshRead
<1> QED BY <1>1, InitInvariant, NextInvariant, PTL DEF Spec
=============================================================================
