------------------------------ MODULE RelsCache ------------------------------
(***************************************************************************)
(* The cache of an event's relations between characters and groups         *)
(* (factions, plots, speedlarps, prologues): one dictionary under one key, *)
(* read, changed and stored as a whole by whoever needs it.  A change      *)
(* flags the entries it touches; a reader works flagged entries out on     *)
(* demand, a single worker does so in the background.  No lock anywhere.   *)
(***************************************************************************)
EXTENDS Integers, FiniteSets

CONSTANTS
  Groups, Characters,
  Editors,     \* requests that change a group's characters
  Readers,     \* requests that read the cache
  Absent,      \* no dictionary is stored
  Bounds       \* who takes part, how many changes and how many kills there are

Items == Groups \cup Characters
Pairs == Groups \X Characters

ASSUME ConstantsAssumption ==
  /\ Groups \cap Characters = {} /\ Absent \notin Items
  /\ IsFiniteSet(Items) /\ Editors \cap Readers = {}
  /\ Bounds \subseteq [people : SUBSET (Editors \cup Readers), changes : Nat, kills : Nat]

VARIABLES
  link,    \* the committed relation
  cache,   \* event__rels__<id>
  dirty,   \* the items with a rels_dirty key
  tasks,   \* rows of the background_task table: the items each will refresh
  edit,    \* what each editor's transaction does
  read,    \* where each reader stands, with its copy of the dictionary
  work,    \* where the worker stands
  raced,   \* a flag was taken off, or a copy stored, at a wrong moment
  orphan,  \* a flag was left without a task: only a reader will find it
  left     \* what remains of the bounds

vars == <<link, cache, dirty, tasks, edit, read, work, raced, orphan, left>>

-----------------------------------------------------------------------------
(* What the database says of an item, and of all items.                    *)
Of(l, i) == IF i \in Groups THEN {c \in Characters : <<i, c>> \in l}
            ELSE {g \in Groups : <<g, i>> \in l}

(* A copy with some items worked out anew.                                 *)
Rebuilt(copy, items) == [i \in Items |-> IF i \in items THEN Of(link, i) ELSE copy[i]]

Empty == [i \in Items |-> {}]

NoEdit == [pc |-> "idle", pairs |-> {}, flagged |-> {}, tasks |-> {}]
NoRead == [pc |-> "idle", copy |-> Empty, found |-> {}, resolved |-> {}, crossed |-> FALSE, moved |-> FALSE]
NoWork == [pc |-> "idle", task |-> {}, left |-> {}, item |-> Absent, data |-> {}, copy |-> Empty, crossed |-> FALSE]

(* Entries that an open transaction has touched: what is worked out of     *)
(* them now is what they were before it.                                   *)
Unsettled == UNION {edit[e].flagged : e \in Editors}

(* Entries that are being worked out, whose flags are to be taken off.     *)
InHand == (UNION {read[r].found : r \in Readers})
          \cup IF work.pc \in {"load", "build", "store", "unflag"} THEN {work.item} ELSE {}

-----------------------------------------------------------------------------
(* update_m2m_related_characters, inside the transaction of the add or     *)
(* remove that is made to the relation: flags are seen at once, the rows   *)
(* and the task at the commit.                                             *)
Flag(e, items) ==
  /\ dirty' = dirty \cup items
  /\ raced' = (raced \/ items \cap InHand # {})

ScheduleNever(e, task) == edit[e].tasks  \* mutant: no task

(* skip_duplicates: no second task while there is one, pending or running. *)
(* The one that runs may be past the item.                                 *)
Running(task) == work.pc # "idle" /\ work.task = task
Schedule(e, task) ==
  IF task \in tasks THEN edit[e].tasks ELSE edit[e].tasks \cup {task}

Change(e, g, cs) ==
  /\ edit[e].pc = "idle" /\ e \in left.people /\ left.changes > 0 /\ cs # {}
  /\ Flag(e, {g})
  /\ edit' = [edit EXCEPT ![e] = [pc |-> "characters", pairs |-> {g} \X cs, flagged |-> {g},
                                  tasks |-> Schedule(e, {g})]]
  /\ orphan' = (orphan \/ Running({g}))
  /\ left' = [left EXCEPT !.changes = @ - 1]
  /\ UNCHANGED <<link, cache, tasks, read, work>>

FlagCharacters(e) ==
  LET cs == {p[2] : p \in edit[e].pairs}
  IN  /\ edit[e].pc = "characters"
      /\ Flag(e, cs)
      /\ edit' = [edit EXCEPT ![e].pc = "commit", ![e].flagged = @ \cup cs, ![e].tasks = Schedule(e, cs)]
      /\ orphan' = (orphan \/ Running(cs))
      /\ UNCHANGED <<link, cache, tasks, read, work, left>>

(* The pairs are added, or removed (a change is the symmetric difference). *)
Commit(e) ==
  /\ edit[e].pc = "commit"
  /\ link' = (link \ edit[e].pairs) \cup (edit[e].pairs \ link)
  /\ tasks' = tasks \cup edit[e].tasks
  /\ edit' = [edit EXCEPT ![e] = NoEdit]
  /\ read' = [r \in Readers |-> IF read[r].pc = "idle" THEN read[r] ELSE [read[r] EXCEPT !.moved = TRUE]]
  /\ UNCHANGED <<cache, dirty, work, raced, orphan, left>>

(* The request fails later on: the flags stay.                             *)
Rollback(e) ==
  /\ edit[e].pc = "commit"
  /\ edit' = [edit EXCEPT ![e] = NoEdit]
  /\ orphan' = TRUE
  /\ UNCHANGED <<link, cache, dirty, tasks, read, work, raced, left>>

-----------------------------------------------------------------------------
(* Somebody else stored a copy, or took flags off to store one: a read     *)
(* that goes on, and the copy it may store, are older from now on.         *)
Overtaken(r) == [read[r] EXCEPT !.crossed = (read[r].pc # "idle")]

(* get_event_rels_cache, init_event_rels_all: without a dictionary a new   *)
(* one is built, section by section.                                       *)
Load(r) ==
  /\ read[r].pc = "idle" /\ r \in left.people
  /\ read' = [read EXCEPT ![r] =
       [NoRead EXCEPT !.pc = IF cache = Absent THEN "build" ELSE "characters",
                      !.copy = IF cache = Absent THEN Rebuilt(Empty, Characters) ELSE cache,
                      !.crossed = \E o \in Readers : read[o].resolved # {}]]
  /\ UNCHANGED <<link, cache, dirty, tasks, edit, work, raced, orphan, left>>

Build(r) ==
  /\ read[r].pc = "build"
  /\ read' = [read EXCEPT ![r].copy = Rebuilt(@, Groups), ![r].pc = "store"]
  /\ UNCHANGED <<link, cache, dirty, tasks, edit, work, raced, orphan, left>>

SectionOne(pc) == Characters  \* mutant: groups are never resolved
Section(pc) == IF pc = "characters" THEN Characters ELSE Groups
After(pc, resolved) ==
  IF pc = "characters" THEN "groups" ELSE IF resolved # {} THEN "store" ELSE "done"

(* resolve_dirty_section: the flagged entries of one section are worked    *)
(* out, then their flags are taken off.                                    *)
Look(r) ==
  LET found == dirty \cap Section(read[r].pc)
  IN  /\ read[r].pc \in {"characters", "groups"} /\ read[r].found = {}
      /\ read' = [read EXCEPT ![r].copy = Rebuilt(@, found), ![r].found = found,
                              ![r].pc = IF found = {} THEN After(@, read[r].resolved) ELSE @]
      /\ raced' = (raced \/ found \cap Unsettled # {})
      /\ UNCHANGED <<link, cache, dirty, tasks, edit, work, orphan, left>>

ClearAll(r) == Items  \* mutant: every flag is taken off
ToClear(r) == read[r].found

Clear(r) ==
  /\ read[r].found # {}
  /\ dirty' = dirty \ ToClear(r)
  /\ read' = [o \in Readers |->
       IF o = r THEN [read[r] EXCEPT !.resolved = @ \cup read[r].found, !.found = {},
                                     !.pc = After(@, read[r].found)]
       ELSE Overtaken(o)]
  /\ UNCHANGED <<link, cache, tasks, edit, work, raced, orphan, left>>

Store(r) ==
  /\ read[r].pc = "store"
  /\ cache' = read[r].copy
  /\ raced' = (raced \/ read[r].crossed)
  /\ read' = [o \in Readers |-> IF o = r THEN [read[r] EXCEPT !.pc = "done", !.resolved = {}] ELSE Overtaken(o)]
  /\ work' = [work EXCEPT !.crossed = @ \/ work.pc \in {"build", "store"}]
  /\ UNCHANGED <<link, dirty, tasks, edit, orphan, left>>

Return(r) ==
  /\ read[r].pc = "done"
  /\ read' = [read EXCEPT ![r] = NoRead]
  /\ UNCHANGED <<link, cache, dirty, tasks, edit, work, raced, orphan, left>>

(* A request is killed: what it took the flags off is never stored.        *)
Die(r) ==
  /\ read[r].pc \notin {"idle", "done"} /\ left.kills > 0
  /\ read' = [read EXCEPT ![r] = NoRead]
  /\ raced' = (raced \/ read[r].resolved # {})
  /\ left' = [left EXCEPT !.kills = @ - 1]
  /\ UNCHANGED <<link, cache, dirty, tasks, edit, work, orphan>>

-----------------------------------------------------------------------------
(* process_tasks, one task at a time; refresh_if_dirty, one item at a time.*)
Take(t) ==
  /\ work.pc = "idle" /\ t \in tasks
  /\ work' = [NoWork EXCEPT !.pc = "check", !.task = t, !.left = t]
  /\ UNCHANGED <<link, cache, dirty, tasks, edit, read, raced, orphan, left>>

(* An item that a reader has resolved already is skipped.                  *)
Skip(i) ==
  /\ work.pc = "check" /\ i \in work.left \ dirty
  /\ work' = [work EXCEPT !.left = @ \ {i}]
  /\ UNCHANGED <<link, cache, dirty, tasks, edit, read, raced, orphan, left>>

(* A group is worked out before the dictionary is read.                    *)
Check(i) ==
  /\ work.pc = "check" /\ i \in work.left \cap dirty
  /\ work' = [work EXCEPT !.pc = "load", !.item = i, !.left = @ \ {i}, !.data = Of(link, i)]
  /\ raced' = (raced \/ i \in Unsettled)
  /\ UNCHANGED <<link, cache, dirty, tasks, edit, read, orphan, left>>

(* update_cache_section for a group, refresh_event_character_relationships *)
(* for a character, which is worked out after the dictionary is read.      *)
WorkLoad ==
  LET data == IF work.item \in Groups THEN work.data ELSE Of(link, work.item)
  IN  /\ work.pc = "load"
      /\ work' = IF cache = Absent
                 THEN [work EXCEPT !.pc = "build", !.copy = Rebuilt(Empty, Characters)]
                 ELSE [work EXCEPT !.pc = "store", !.copy = [cache EXCEPT ![work.item] = data]]
      /\ UNCHANGED <<link, cache, dirty, tasks, edit, read, raced, orphan, left>>

WorkBuild ==
  /\ work.pc = "build"
  /\ work' = [work EXCEPT !.pc = "store", !.copy = Rebuilt(@, Groups)]
  /\ UNCHANGED <<link, cache, dirty, tasks, edit, read, raced, orphan, left>>

WorkStore ==
  /\ work.pc = "store"
  /\ cache' = work.copy
  /\ raced' = (raced \/ work.crossed)
  /\ read' = [o \in Readers |-> Overtaken(o)]
  /\ work' = [work EXCEPT !.pc = "unflag", !.copy = Empty, !.data = {}, !.crossed = FALSE]
  /\ UNCHANGED <<link, dirty, tasks, edit, orphan, left>>

UnflagOnly ==  \* mutant: the item is kept
  /\ work.pc = "unflag"
  /\ dirty' = dirty \ {work.item}
  /\ work' = [work EXCEPT !.pc = "check"]
  /\ UNCHANGED <<link, cache, tasks, edit, read, raced, orphan, left>>

Unflag ==
  /\ work.pc = "unflag"
  /\ dirty' = dirty \ {work.item}
  /\ work' = [work EXCEPT !.pc = "check", !.item = Absent]
  /\ UNCHANGED <<link, cache, tasks, edit, read, raced, orphan, left>>

(* The task's row is deleted when it is done.                              *)
Done ==
  /\ work.pc = "check" /\ work.left = {}
  /\ tasks' = tasks \ {work.task}
  /\ work' = NoWork
  /\ UNCHANGED <<link, cache, dirty, edit, read, raced, orphan, left>>

(* deploy.sh kills the worker; the task's lock expires and it runs again.  *)
Kill ==
  /\ work.pc # "idle" /\ left.kills > 0
  /\ work' = NoWork
  /\ left' = [left EXCEPT !.kills = @ - 1]
  /\ UNCHANGED <<link, cache, dirty, tasks, edit, read, raced, orphan>>

-----------------------------------------------------------------------------
ExpireNever == cache = Absent /\ UNCHANGED vars  \* mutant: stored without a timeout

(* The dictionary's day is over, or clear_event_relationships_cache.       *)
Expire ==
  /\ cache # Absent
  /\ cache' = Absent
  /\ UNCHANGED <<link, dirty, tasks, edit, read, work, raced, orphan, left>>

Init ==
  /\ link \in SUBSET Pairs /\ cache = Rebuilt(Empty, Items) /\ dirty = {} /\ tasks = {}
  /\ edit = [e \in Editors |-> NoEdit] /\ read = [r \in Readers |-> NoRead] /\ work = NoWork
  /\ raced = FALSE /\ orphan = FALSE /\ left \in Bounds

EditStep(e) == FlagCharacters(e) \/ Commit(e) \/ Rollback(e)
ReadStep(r) == Build(r) \/ Look(r) \/ Clear(r) \/ Store(r) \/ Return(r)
WorkStep ==
  \/ \E t \in tasks : Take(t)
  \/ \E i \in Items : Skip(i) \/ Check(i)
  \/ WorkLoad \/ WorkBuild \/ WorkStore \/ Unflag \/ Done

Next ==
  \/ \E e \in Editors : EditStep(e) \/ \E g \in Groups, cs \in SUBSET Characters : Change(e, g, cs)
  \/ \E r \in Readers : ReadStep(r) \/ Load(r) \/ Die(r)
  \/ WorkStep \/ Kill \/ Expire

(* A request that has begun goes on, the worker is always restarted and    *)
(* has no other work for ever, a stored dictionary's day ends.             *)
Spec == Init /\ [][Next]_vars
FairSpec ==
  /\ Spec
  /\ \A e \in Editors : WF_vars(EditStep(e))
  /\ \A r \in Readers : WF_vars(ReadStep(r))
  /\ WF_vars(WorkStep) /\ WF_vars(Expire)

-----------------------------------------------------------------------------
Dictionaries == [Items -> SUBSET Items]
Edits == [pc : {"idle", "characters", "commit"}, pairs : SUBSET Pairs,
          flagged : SUBSET Items, tasks : SUBSET SUBSET Items]
Reads == [pc : {"idle", "build", "characters", "groups", "store", "done"}, copy : Dictionaries,
          found : SUBSET Items, resolved : SUBSET Items, crossed : BOOLEAN, moved : BOOLEAN]
Works == [pc : {"idle", "check", "load", "build", "store", "unflag"}, task : SUBSET Items,
          left : SUBSET Items, item : Items \cup {Absent}, data : SUBSET Items,
          copy : Dictionaries, crossed : BOOLEAN]
TypeOK ==
  /\ link \subseteq Pairs /\ cache \in Dictionaries \cup {Absent}
  /\ dirty \subseteq Items /\ tasks \subseteq SUBSET Items
  /\ edit \in [Editors -> Edits] /\ read \in [Readers -> Reads] /\ work \in Works
  /\ work.pc \in {"idle", "check"} <=> work.item = Absent
  /\ raced \in BOOLEAN /\ orphan \in BOOLEAN
  /\ left \in [people : SUBSET (Editors \cup Readers), changes : Nat, kills : Nat]

(* No stored entry is out of date unless it is flagged, or a reader that   *)
(* took its flag off is about to store it: the races that "raced" records  *)
(* (a flag taken off while a transaction that set it was open, or after it *)
(* was set again; a copy stored over a newer one; a reader that died) are  *)
(* the only ways to lose a change.                                         *)
Resolved == UNION {read[r].resolved : r \in Readers}
StaleIsFlagged ==
  cache # Absent /\ ~raced => \A i \in Items : cache[i] # Of(link, i) => i \in dirty \cup Resolved

(* A reader returns what the database says, if nothing was committed and   *)
(* nobody stored or was about to store another copy while it read          *)
(* (get_event_rels_cache: flagged entries are resolved on demand).         *)
FreshRead ==
  \A r \in Readers :
    read[r].pc = "done" /\ ~read[r].crossed /\ ~read[r].moved /\ ~raced =>
      \A i \in Items : read[r].copy[i] = Of(link, i)

(* The inductive invariant.  Readers take flags off only in the sections,  *)
(* and have stored, or had nothing to, when they are done.                 *)
ReadersInOrder ==
  \A r \in Readers :
    /\ read[r].found # {} => read[r].pc \in {"characters", "groups"}
    /\ read[r].pc \in {"idle", "done", "build"} => read[r].resolved = {}

(* A transaction has flagged what it is about to change.                   *)
EditorsFlagged ==
  \A e \in Editors :
    /\ edit[e].pc \in {"characters", "commit"} => \A p \in edit[e].pairs : p[1] \in edit[e].flagged
    /\ edit[e].pc = "commit" => \A p \in edit[e].pairs : p[2] \in edit[e].flagged

(* Without a race: an open transaction's flags are there, and nobody works *)
(* on what it has touched.                                                 *)
OpenIsFlagged == Unsettled \subseteq dirty /\ Unsettled \cap InHand = {}

(* What has been worked out of a copy is right, or wrong where flagged;    *)
(* what is in hand is right, and so are the sections that a reader is      *)
(* through with, as long as nothing is committed.                          *)
Reading(x) == x.pc \in {"build", "characters", "groups", "store"}
Seen(pc) == IF pc = "build" THEN Characters ELSE Items
Through(x) ==
  CASE x.pc \in {"store", "done"} -> Items
    [] x.pc = "groups" -> IF x.found = {} THEN Characters ELSE Items
    [] x.pc = "characters" -> IF x.found = {} THEN {} ELSE Characters
    [] x.pc = "build" -> Characters
    [] OTHER -> {}

ReaderRight(x) ==
  /\ Reading(x) => \A i \in x.found : x.copy[i] = Of(link, i)
  /\ Reading(x) /\ ~x.crossed => \A i \in Seen(x.pc) : x.copy[i] = Of(link, i) \/ i \in dirty
  /\ Reading(x) /\ ~x.crossed /\ work.pc = "unflag" /\ work.item \in Seen(x.pc) =>
       x.copy[work.item] = Of(link, work.item)
  /\ ~x.crossed /\ ~x.moved => \A i \in Through(x) : x.copy[i] = Of(link, i)

WorkerRight(w) ==
  /\ w.pc = "load" /\ w.item \in Groups => w.data = Of(link, w.item)
  /\ w.pc \in {"build", "store"} /\ w.item \in Seen(w.pc) => w.copy[w.item] = Of(link, w.item)
  /\ w.pc \in {"build", "store"} /\ ~w.crossed =>
       \A i \in Seen(w.pc) : w.copy[i] = Of(link, i) \/ i \in dirty \cup Resolved
  /\ w.pc = "unflag" /\ cache # Absent => cache[w.item] = Of(link, w.item)

Sound == OpenIsFlagged /\ (\A r \in Readers : ReaderRight(read[r])) /\ WorkerRight(work)
IInv == TypeOK /\ ReadersInOrder /\ EditorsFlagged /\ StaleIsFlagged /\ (raced \/ Sound)

(* The worker takes every flag off in the end, though nobody may read, but *)
(* for flags without a task: those of a transaction that was rolled back   *)
(* and those set while their task was running.                             *)
FlagsAreHandled == <>[](dirty = {} \/ orphan)

(* Whatever was lost, the cache is right again in the end, without help.   *)
HealsInTheEnd == <>[](cache \in {Absent, Rebuilt(Empty, Items)})
=============================================================================
