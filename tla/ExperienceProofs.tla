-------------------------- MODULE ExperienceProofs --------------------------
(***************************************************************************)
(* For every set of abilities, rules and requests: an ability never stands *)
(* without its prerequisites, and when nothing is under way the stored     *)
(* number is what is left, and nothing can be bought that the system buys, *)
(* but for the calculations that were overtaken; and under rules that only *)
(* add and discount, purchases that met nothing leave nobody below zero.   *)
(***************************************************************************)
EXTENDS Experience, SumLemmas

Fields == {"op", "pc", "of", "plus", "minus", "have", "listed", "px", "start", "used", "sure", "crossed"}

LEMMA IdleShape ==
  /\ DOMAIN Idle = Fields /\ Idle.pc = "idle" /\ Idle.op = "none" /\ Idle.crossed = FALSE
  /\ Idle.plus = {} /\ Idle.minus = {}
BY DEF Idle, Fields

-----------------------------------------------------------------------------
(* What has its prerequisites keeps them when abilities are added that     *)
(* could be bought, and when abilities are taken away with all that needs  *)
(* them.                                                                   *)
LEMMA AddClosed ==
  ASSUME NEW b, NEW h, NEW px, NEW s, s \subseteq Available(b, h, px), Closed(b, h)
  PROVE  Closed(b, h \cup s)
BY DEF Closed, Available

LEMMA RemoveClosed ==
  ASSUME NEW b, NEW h, NEW w, Closed(b, h),
         \A d \in w : \E a : d \in Withdrawn(b, h, a) /\ Withdrawn(b, h, a) \subseteq w
  PROVE  Closed(b, h \ w)
<1> SUFFICES ASSUME NEW c \in h \ w, NEW d \in b.needs[c] PROVE d \in h \ w
  BY DEF Closed
<1>1. d \in h
  BY DEF Closed
<1>2. ASSUME d \in w PROVE FALSE
  <2>1. PICK a : d \in Withdrawn(b, h, a) /\ Withdrawn(b, h, a) \subseteq w
    BY <1>2
  <2>2. \A t \in SUBSET (h \cup {a}) : Upwards(b, h, a, t) => c \in t
    BY <2>1 DEF Withdrawn, Upwards
  <2>3. c \in Withdrawn(b, h, a)
    BY <2>2 DEF Withdrawn
  <2> QED BY <2>1, <2>3
<1> QED BY <1>1, <1>2

-----------------------------------------------------------------------------
(* What a step of p leaves to the others: they are where they were, or     *)
(* marked as overtaken.                                                    *)
LEMMA Others ==
  ASSUME IInv, NEW p \in Procs, NEW x, DOMAIN x = Fields, x.crossed \in BOOLEAN,
         proc' = [(IF held' = held THEN proc ELSE CrossedBy(p)) EXCEPT ![p] = x],
         book' = book, loose \in BOOLEAN, loose' \in BOOLEAN, loose => loose', queued => queued' \/ p = Worker
  PROVE  /\ proc'[p] = x /\ DOMAIN proc' = Procs
         /\ \A o \in Procs : DOMAIN proc'[o] = Fields /\ proc'[o].crossed \in BOOLEAN
         /\ \A o \in Procs \ {p} : /\ proc'[o].pc = proc[o].pc /\ proc'[o].op = proc[o].op
                                   /\ Doing(o, proc[o])' /\ Sums(proc[o])'
<1>0. /\ DOMAIN proc = Procs /\ \A o \in Procs : DOMAIN proc[o] = Fields /\ proc[o].crossed \in BOOLEAN
      /\ \A o \in Procs : Doing(o, proc[o]) /\ Sums(proc[o])
  BY IdleShape DEF IInv, Shape
<1>1. DOMAIN CrossedBy(p) = Procs
  BY DEF CrossedBy
<1>2. proc'[p] = x /\ DOMAIN proc' = Procs
  BY <1>0, <1>1
<1>3. ASSUME NEW o \in Procs, o # p
      PROVE  /\ DOMAIN proc'[o] = Fields /\ proc'[o].crossed \in BOOLEAN
             /\ proc'[o].pc = proc[o].pc /\ proc'[o].op = proc[o].op
             /\ Doing(o, proc[o])' /\ Sums(proc[o])'
  <2>1. CASE held' = held
    <3>1. proc'[o] = proc[o] BY <1>0, <1>3, <2>1
    <3>2. View(proc[o])' = View(proc[o]) BY <2>1, <3>1 DEF View
    <3>3. Sums(proc[o])'
      BY <1>0, <3>1, <3>2 DEF Sums
    <3>4. Doing(o, proc[o])'
      BY <1>0, <1>3, <3>1 DEF Doing
    <3> QED BY <1>0, <3>1, <3>3, <3>4
  <2>2. CASE held' # held
    <3> DEFINE c == proc[o].crossed \/ (o # p /\ proc[o].pc # "idle")
    <3>0. c \in BOOLEAN /\ (proc[o].pc # "idle" => c) BY <1>0, <1>3
    <3>1. proc'[o] = [proc[o] EXCEPT !.crossed = c]
      BY <1>1, <1>3, <2>2 DEF CrossedBy
    <3> HIDE DEF c
    <3>2. /\ DOMAIN proc'[o] = Fields /\ proc'[o].crossed \in BOOLEAN
          /\ proc'[o].pc = proc[o].pc /\ proc'[o].op = proc[o].op
          /\ proc'[o].plus = proc[o].plus /\ proc'[o].minus = proc[o].minus
          /\ proc[o].pc # "idle" => proc'[o].crossed
      BY <1>0, <1>3, <3>0, <3>1 DEF Fields
    <3>3. Sums(proc[o])'
      BY <3>2 DEF Sums
    <3>4. Doing(o, proc[o])'
      BY <1>0, <1>3, <3>2 DEF Doing
    <3> QED BY <3>2, <3>3, <3>4
  <2> QED BY <2>1, <2>2
<1> QED BY <1>2, <1>3

(* A step of p towards x that stores nothing, and leaves the character as  *)
(* it is, or goes on with a calculation whose result is still to come.     *)
LEMMA Moves ==
  ASSUME IInv, NEW p \in Procs, NEW x, DOMAIN x = Fields, x.crossed \in BOOLEAN,
         proc' = [(IF held' = held THEN proc ELSE CrossedBy(p)) EXCEPT ![p] = x],
         UNCHANGED <<book, avail, queued>>, loose' \in BOOLEAN, loose => loose',
         doubt' \in BOOLEAN, doubt => doubt', 
         proc[p].pc # "idle" /\ proc[p].op = "save" => doubt' \/ (x.pc # "idle" /\ x.op = "save"),
         held' = held \/ queued \/ (x.pc # "idle" /\ x.op = "save"),
         Doing(p, x), (Sums(proc[p]) /\ PrerequisitesHeld)'
  PROVE  IInv'
<1>1. /\ proc'[p] = x /\ DOMAIN proc' = Procs
      /\ \A o \in Procs : DOMAIN proc'[o] = Fields /\ proc'[o].crossed \in BOOLEAN
      /\ \A o \in Procs \ {p} : /\ proc'[o].pc = proc[o].pc /\ proc'[o].op = proc[o].op
                                /\ Doing(o, proc[o])' /\ Sums(proc[o])'
  BY Others DEF IInv, Shape
<1>2. Shape'
  BY <1>1, IdleShape DEF IInv, Shape
<1>3. Doing(p, proc[p])'
  BY <1>1 DEF Doing
<1>4. Settled'
  <2>0. Settled BY DEF IInv
  <2>1. CASE doubt \/ queued
    BY <2>1 DEF Settled
  <2>2. CASE \E o \in Procs : Active(o) /\ proc[o].op = "save"
    <3>1. PICK o \in Procs : Active(o) /\ proc[o].op = "save" BY <2>2
    <3>2. CASE o = p BY <1>1, <3>1, <3>2 DEF Settled, Active
    <3>3. CASE o # p BY <1>1, <3>1, <3>3 DEF Settled, Active
    <3> QED BY <3>2, <3>3
  <2>3. CASE avail = Left(book, held) /\ NoneToBuy(book, held, avail)
    <3>1. CASE held' = held BY <2>3, <3>1 DEF Settled
    <3>2. CASE held' # held BY <1>1, <3>2 DEF Settled, Active
    <3> QED BY <3>1, <3>2
  <2> QED BY <2>0, <2>1, <2>2, <2>3 DEF Settled
<1> QED BY <1>1, <1>2, <1>3, <1>4 DEF IInv

(* A step of p that is not seen: held and loose stay.                      *)
LEMMA MovesUnseen ==
  ASSUME IInv, NEW p \in Procs, NEW x, DOMAIN x = Fields, x.crossed \in BOOLEAN,
         proc' = [proc EXCEPT ![p] = x], UNCHANGED <<book, held, avail, queued, doubt, loose>>,
         proc[p].pc # "idle" /\ proc[p].op = "save" => x.pc # "idle" /\ x.op = "save",
         Doing(p, x), Sums(x)
  PROVE  IInv'
<1>1. proc'[p] = x /\ loose \in BOOLEAN /\ doubt \in BOOLEAN
  BY DEF IInv, Shape
<1>2. View(proc[p])' = View(x)
  BY <1>1 DEF View
<1>3. Sums(proc[p])'
  BY <1>1, <1>2 DEF Sums
<1>4. PrerequisitesHeld'
  BY DEF IInv, PrerequisitesHeld
<1>5. proc' = [(IF held' = held THEN proc ELSE CrossedBy(p)) EXCEPT ![p] = x]
  OBVIOUS
<1> QED BY <1>1, <1>3, <1>4, <1>5, Moves

-----------------------------------------------------------------------------
(* How requests and the task begin.                                        *)
LEMMA BuyKeeps ==
  ASSUME IInv, NEW q \in Requests, NEW a \in Abilities, Buy(q, a)
  PROVE  IInv'
<1> DEFINE sure == avail = Left(book, held) /\ ~queued
           x == [Idle EXCEPT !.op = "buy", !.pc = "look", !.of = a, !.plus = {a}, !.sure = sure]
<1>1. q \in Procs /\ q # Worker /\ proc[q].pc = "idle" /\ proc' = [proc EXCEPT ![q] = x]
  BY ConstantsAssumption DEF Buy, Asks, Procs
<1> HIDE DEF sure
<1>2. /\ DOMAIN x = Fields /\ x.crossed = FALSE /\ x.op = "buy" /\ x.pc = "look"
      /\ x.plus = {a} /\ x.minus = {}
  BY IdleShape DEF Fields
<1> HIDE DEF x
<1>3. ~loose => Closed(book, View(x))
  <2>1. View(x) = held \cup {a} BY <1>2 DEF View
  <2>2. {a} \subseteq Available(book, held, avail) BY DEF Buy
  <2>3. Closed(book, held) => Closed(book, held \cup {a}) BY <2>2, AddClosed
  <2> QED BY <2>1, <2>3 DEF IInv, PrerequisitesHeld
<1>4. Doing(q, x) /\ Sums(x)
  BY <1>1, <1>2, <1>3 DEF Doing, Sums, Transactions
<1> QED BY <1>1, <1>2, <1>4, MovesUnseen DEF Buy

LEMMA UndoKeeps ==
  ASSUME IInv, NEW q \in Requests, NEW a \in Abilities, Undo(q, a)
  PROVE  IInv'
<1> DEFINE w == Withdrawn(book, held, a)
           x == [Idle EXCEPT !.op = "undo", !.pc = "look", !.minus = w, !.listed = free]
<1>1. q \in Procs /\ q # Worker /\ proc[q].pc = "idle" /\ proc' = [proc EXCEPT ![q] = x]
  BY ConstantsAssumption DEF Undo, Asks, Procs
<1> HIDE DEF w
<1>2. /\ DOMAIN x = Fields /\ x.crossed = FALSE /\ x.op = "undo" /\ x.pc = "look"
      /\ x.plus = {} /\ x.minus = w
  BY IdleShape DEF Fields
<1> HIDE DEF x
<1>3. ~loose => Closed(book, View(x))
  <2>1. View(x) = held \ w BY <1>2 DEF View
  <2>2. Closed(book, held) => Closed(book, held \ w) BY RemoveClosed DEF w
  <2> QED BY <2>1, <2>2 DEF IInv, PrerequisitesHeld
<1>4. Doing(q, x) /\ Sums(x)
  BY <1>1, <1>2, <1>3 DEF Doing, Sums, Transactions
<1> QED BY <1>1, <1>2, <1>4, MovesUnseen DEF Undo

LEMMA SaveCharacterKeeps ==
  ASSUME IInv, NEW q \in Requests, NEW h, SaveCharacter(q, h)
  PROVE  IInv'
<1> DEFINE x == [Idle EXCEPT !.op = "save", !.pc = "look"]
<1>1. /\ q \in Procs /\ q # Worker /\ proc[q].pc = "idle" /\ held' = h /\ loose' = (loose \/ held' # held)
      /\ proc' = [(IF held' = held THEN proc ELSE CrossedBy(q)) EXCEPT ![q] = x]
      /\ UNCHANGED <<book, avail, queued, doubt>>
  BY ConstantsAssumption DEF SaveCharacter, Procs
<1>2. /\ DOMAIN x = Fields /\ x.crossed = FALSE /\ x.op = "save" /\ x.pc = "look"
      /\ x.plus = {} /\ x.minus = {}
  BY IdleShape DEF Fields
<1> HIDE DEF x
<1>3. loose \in BOOLEAN /\ loose' \in BOOLEAN /\ doubt' \in BOOLEAN
  BY <1>1 DEF IInv, Shape
<1>4. Doing(q, x)
  BY <1>1, <1>2 DEF Doing, Transactions
<1>5. PrerequisitesHeld'
  BY <1>1, <1>3 DEF IInv, PrerequisitesHeld
<1>6. proc'[q] = x
  BY <1>1, <1>2, <1>3, Others
<1>7. Sums(proc[q])'
  <2>1. View(proc[q])' = held' BY <1>2, <1>6 DEF View
  <2> QED BY <1>2, <1>5, <1>6, <2>1 DEF Sums, PrerequisitesHeld
<1> QED BY <1>1, <1>2, <1>3, <1>4, <1>5, <1>7, Moves

LEMMA RunKeeps ==
  ASSUME IInv, Run
  PROVE  IInv'
<1> DEFINE x == [Idle EXCEPT !.op = "task", !.pc = "look"]
<1>1. Worker \in Procs /\ proc[Worker].pc = "idle" /\ proc' = [proc EXCEPT ![Worker] = x] /\ queued
  BY DEF Run, Procs
<1>2. /\ DOMAIN x = Fields /\ x.crossed = FALSE /\ x.op = "task" /\ x.pc = "look"
      /\ x.plus = {} /\ x.minus = {}
  BY IdleShape DEF Fields
<1> HIDE DEF x
<1>3. View(x) = held
  BY <1>2 DEF View
<1>4. Doing(Worker, x) /\ Sums(x)
  BY <1>1, <1>2, <1>3 DEF Doing, Sums, Transactions, IInv, PrerequisitesHeld
<1> QED BY <1>1, <1>2, <1>4, MovesUnseen DEF Run

-----------------------------------------------------------------------------
(* The steps of a calculation that change nothing but its own sums.        *)
LEMMA Calculating ==
  ASSUME IInv, NEW p \in Procs, proc[p].pc # "idle"
  PROVE  /\ DOMAIN proc = Procs /\ DOMAIN proc[p] = Fields /\ proc[p].crossed \in BOOLEAN
         /\ Doing(p, proc[p]) /\ Sums(proc[p])
BY IdleShape DEF IInv, Shape

LEMMA LookKeeps ==
  ASSUME IInv, NEW p \in Procs, Look(p)
  PROVE  IInv'
<1> DEFINE seen == View(proc[p])
           listed == IF proc[p].op = "undo" THEN proc[p].listed ELSE free
           x == [proc[p] EXCEPT !.pc = "grant", !.have = seen, !.listed = listed]
<1>0. /\ DOMAIN proc = Procs /\ DOMAIN proc[p] = Fields /\ proc[p].crossed \in BOOLEAN
      /\ Doing(p, proc[p]) /\ Sums(proc[p]) /\ proc[p].pc = "look"
  BY Calculating DEF Look
<1>1. proc' = [proc EXCEPT ![p] = x]
  BY <1>0 DEF Look, Fields
<1> HIDE DEF listed, seen
<1>2. /\ DOMAIN x = Fields /\ x.crossed = proc[p].crossed /\ x.op = proc[p].op /\ x.pc = "grant"
      /\ x.plus = proc[p].plus /\ x.minus = proc[p].minus /\ x.have = seen
  BY <1>0 DEF Fields
<1> HIDE DEF x
<1>3. View(x) = seen
  BY <1>2 DEF View, seen
<1>4. Doing(p, x) /\ Sums(x)
  BY <1>0, <1>2, <1>3 DEF Doing, Sums, seen
<1> QED BY <1>0, <1>1, <1>2, <1>4, MovesUnseen DEF Look

(* Where a calculation stands after it has dealt with the free abilities.  *)
LEMMA KnownShape ==
  ASSUME IInv, NEW p \in Procs, proc[p].pc # "idle", NEW h, NEW listed, NEW x, x = Known(p, h, listed)
  PROVE  /\ DOMAIN x = Fields /\ x.crossed = proc[p].crossed /\ x.op = proc[p].op
         /\ x.plus = proc[p].plus /\ x.minus = proc[p].minus /\ x.have = h
         /\ x.pc \in {"total", "store"} /\ (x.pc = "store" => ~book.autobuy)
         /\ x.used = Used(book, h)
<1> DEFINE pc == IF book.autobuy THEN "total" ELSE "store"
           used == Used(book, h)
<1>1. pc \in {"total", "store"} /\ (pc = "store" => ~book.autobuy)
  OBVIOUS
<1>2. x = [proc[p] EXCEPT !.pc = pc, !.have = h, !.listed = listed, !.used = used]
  BY DEF Known, Summed
<1>3. DOMAIN proc[p] = Fields
  BY Calculating
<1> HIDE DEF pc, used
<1>4. /\ DOMAIN x = Fields /\ x.crossed = proc[p].crossed /\ x.op = proc[p].op
      /\ x.plus = proc[p].plus /\ x.minus = proc[p].minus /\ x.have = h
      /\ x.pc = pc /\ x.used = used
  BY <1>2, <1>3 DEF Fields
<1> QED BY <1>1, <1>4 DEF used

LEMMA KeepFreeKeeps ==
  ASSUME IInv, NEW p \in Procs, KeepFree(p)
  PROVE  IInv'
<1> DEFINE x == Known(p, proc[p].have, proc[p].listed)
<1>0. /\ DOMAIN proc = Procs /\ proc[p].crossed \in BOOLEAN
      /\ Doing(p, proc[p]) /\ Sums(proc[p]) /\ proc[p].pc = "grant"
  BY Calculating DEF KeepFree
<1>1. proc' = [proc EXCEPT ![p] = x]
  BY DEF KeepFree
<1>2. /\ DOMAIN x = Fields /\ x.crossed = proc[p].crossed /\ x.op = proc[p].op
      /\ x.plus = proc[p].plus /\ x.minus = proc[p].minus /\ x.have = proc[p].have
      /\ x.pc \in {"total", "store"} /\ (x.pc = "store" => ~book.autobuy)
      /\ x.used = Used(book, proc[p].have)
  BY <1>0, KnownShape
<1> HIDE DEF x
<1>3. View(x) = View(proc[p])
  BY <1>2 DEF View
<1>4. Doing(p, x) /\ Sums(x)
  BY <1>0, <1>2, <1>3 DEF Doing, Sums, NoneToBuy
<1> QED BY <1>0, <1>1, <1>2, <1>4, MovesUnseen DEF KeepFree

LEMMA SumKeeps ==
  ASSUME IInv, NEW p \in Procs, Sum(p)
  PROVE  IInv'
<1> DEFINE px == Total(book, proc[p].have) - proc[p].used
           x == [proc[p] EXCEPT !.pc = "spend", !.px = px, !.start = proc[p].have]
<1>0. /\ DOMAIN proc = Procs /\ DOMAIN proc[p] = Fields /\ proc[p].crossed \in BOOLEAN
      /\ Doing(p, proc[p]) /\ Sums(proc[p]) /\ proc[p].pc = "total"
  BY Calculating DEF Sum
<1>1. proc' = [proc EXCEPT ![p] = x]
  BY <1>0 DEF Sum, Fields
<1> HIDE DEF px
<1>2. /\ DOMAIN x = Fields /\ x.crossed = proc[p].crossed /\ x.op = proc[p].op /\ x.pc = "spend"
      /\ x.plus = proc[p].plus /\ x.minus = proc[p].minus /\ x.have = proc[p].have
      /\ x.start = proc[p].have /\ x.used = proc[p].used /\ x.px = px
  BY <1>0 DEF Fields
<1> HIDE DEF x
<1>3. View(x) = View(proc[p])
  BY <1>2 DEF View
<1>4. Doing(p, x) /\ Sums(x)
  BY <1>0, <1>2, <1>3 DEF Doing, Sums, px
<1> QED BY <1>0, <1>1, <1>2, <1>4, MovesUnseen DEF Sum

LEMMA EndRoundKeeps ==
  ASSUME IInv, NEW p \in Procs, EndRound(p)
  PROVE  IInv'
<1> DEFINE pc == IF Again(p) THEN "total" ELSE "store"
           used == IF proc[p].have # proc[p].start THEN Used(book, proc[p].have) ELSE proc[p].used
           x == [proc[p] EXCEPT !.pc = pc, !.used = used]
<1>0. /\ DOMAIN proc = Procs /\ DOMAIN proc[p] = Fields /\ proc[p].crossed \in BOOLEAN
      /\ Doing(p, proc[p]) /\ Sums(proc[p]) /\ proc[p].pc = "spend"
  BY Calculating DEF EndRound
<1>1. proc' = [proc EXCEPT ![p] = x]
  BY <1>0 DEF EndRound, Fields
<1>2. /\ pc = IF proc[p].have # proc[p].start THEN "total" ELSE "store"
      /\ used = IF proc[p].have # proc[p].start THEN Used(book, proc[p].have) ELSE proc[p].used
  BY DEF Again
<1> HIDE DEF pc, used
<1>3. /\ DOMAIN x = Fields /\ x.crossed = proc[p].crossed /\ x.op = proc[p].op /\ x.pc = pc
      /\ x.plus = proc[p].plus /\ x.minus = proc[p].minus /\ x.have = proc[p].have /\ x.used = used
  BY <1>0 DEF Fields
<1> HIDE DEF x
<1>4. View(x) = View(proc[p])
  BY <1>3 DEF View
<1>5. NoneToBuy(book, proc[p].have, proc[p].px)
  BY DEF EndRound, Affordable, NoneToBuy
<1>6. Doing(p, x) /\ Sums(x)
  BY <1>0, <1>2, <1>3, <1>4, <1>5 DEF Doing, Sums
<1> QED BY <1>0, <1>1, <1>2, <1>3, <1>6, MovesUnseen DEF EndRound

-----------------------------------------------------------------------------
(* A calculation adds and takes away abilities and goes on at next.        *)
LEMMA ChangesKeep ==
  ASSUME IInv, NEW p \in Procs, proc[p].pc # "idle", NEW plus, NEW minus, NEW next, NEW v,
         Changes(p, plus, minus, next), UNCHANGED <<book, avail, queued, doubt>>,
         DOMAIN next = Fields, next.crossed = proc[p].crossed, next.op = proc[p].op, next.pc # "idle",
         next.plus = proc[p].plus, next.minus = proc[p].minus,
         v = (View(proc[p]) \cup plus) \ minus,
         Closed(book, View(proc[p]) \cup plus) => Closed(book, v),
         ~next.crossed =>
           /\ Closed(book, View(proc[p])) => Closed(book, View(proc[p]) \cup plus)
           /\ next.have = v
           /\ next.pc \in {"total", "store"} => next.used = Used(book, v)
           /\ next.pc = "spend" => /\ next.used = Used(book, next.start) /\ next.start \subseteq v
                                   /\ v = next.start => next.px = Total(book, v) - next.used
           /\ next.pc = "store" => NoneToBuy(book, v, Total(book, v) - next.used)
  PROVE  IInv'
<1>0. /\ DOMAIN proc = Procs /\ DOMAIN proc[p] = Fields /\ proc[p].crossed \in BOOLEAN
      /\ Doing(p, proc[p]) /\ Sums(proc[p]) /\ loose \in BOOLEAN /\ doubt \in BOOLEAN
  BY Calculating DEF IInv, Shape
<1>1. ~next.crossed /\ ~loose => Closed(book, v)
  BY <1>0 DEF Sums
<1>2. CASE proc[p].op \in Transactions
  <2> DEFINE added == (proc[p].plus \cup plus) \ minus
             taken == (proc[p].minus \ plus) \cup minus
             x == [next EXCEPT !.plus = added, !.minus = taken]
  <2>1. proc' = [proc EXCEPT ![p] = x] /\ UNCHANGED <<held, loose>>
    BY <1>2 DEF Changes, Fields
  <2>2. (held \ taken) \cup added = v
    BY DEF View
  <2> HIDE DEF added, taken
  <2>3. /\ DOMAIN x = Fields /\ x.crossed = next.crossed /\ x.op = next.op /\ x.pc = next.pc
        /\ x.plus = added /\ x.minus = taken /\ x.have = next.have /\ x.used = next.used
        /\ x.px = next.px /\ x.start = next.start
    BY DEF Fields
  <2> HIDE DEF x
  <2>4. View(x) = v
    BY <2>2, <2>3 DEF View
  <2>5. Doing(p, x) /\ Sums(x)
    BY <1>0, <1>1, <1>2, <2>3, <2>4 DEF Doing, Sums
  <2> QED BY <1>0, <2>1, <2>3, <2>5, MovesUnseen
<1>3. CASE proc[p].op \notin Transactions
  <2>1. /\ held' = (held \cup plus) \ minus /\ loose' = (loose \/ (next.crossed /\ plus # {}))
        /\ proc' = [(IF held' = held THEN proc ELSE CrossedBy(p)) EXCEPT ![p] = next]
    BY <1>3 DEF Changes
  <2>2. next.plus = {} /\ next.minus = {} /\ View(proc[p]) = held
    BY <1>0, <1>3 DEF Doing, View
  <2>3. held' = v
    BY <2>1, <2>2
  <2>4. loose' \in BOOLEAN /\ (loose => loose') /\ Doing(p, next)
    BY <1>0, <2>1 DEF Doing
  <2>5. PrerequisitesHeld'
    <3>1. CASE ~next.crossed
      BY <1>1, <2>1, <2>3, <3>1 DEF PrerequisitesHeld
    <3>2. CASE next.crossed
      <4>1. ~loose' => plus = {} /\ ~loose BY <2>1, <3>2
      <4>2. ~loose' => Closed(book, v) BY <2>2, <4>1 DEF IInv, PrerequisitesHeld
      <4> QED BY <2>3, <4>2 DEF PrerequisitesHeld
    <3> QED BY <3>1, <3>2
  <2>6. proc'[p] = next
    BY <1>0, <2>1, <2>4, Others
  <2>7. View(proc[p])' = v
    BY <2>2, <2>3, <2>6 DEF View
  <2>8. Sums(proc[p])'
    BY <1>1, <2>4, <2>6, <2>7 DEF Sums
  <2>9. queued \/ next.op = "save"
    BY <1>0, <1>3 DEF Doing, Transactions
  <2> QED BY <1>0, <2>1, <2>4, <2>5, <2>8, <2>9, Moves
<1> QED BY <1>2, <1>3

LEMMA GrantKeeps ==
  ASSUME IInv, NEW p \in Procs, Grant(p)
  PROVE  IInv'
<1> DEFINE h == proc[p].have
           gained == {a \in Available(book, h, 0) : a \notin proc[p].listed}
           now == h \cup gained
           listed == proc[p].listed \cup gained
           free0 == {b \in now \cap listed : Cost(book, now, b) > 0}
           lost == UNION {Withdrawn(book, View(proc[p]) \cup gained, a) : a \in free0}
           next == Known(p, now \ lost, listed \ lost)
           v == (View(proc[p]) \cup gained) \ lost
<1>0. Sums(proc[p]) /\ proc[p].pc = "grant"
  BY Calculating DEF Grant
<1>1. Changes(p, gained, lost, next) /\ UNCHANGED <<book, avail, queued, doubt>>
  BY DEF Grant
<1>2. gained \subseteq Available(book, h, 0)
  OBVIOUS
<1>3. \A d \in lost : \E a : /\ d \in Withdrawn(book, View(proc[p]) \cup gained, a)
                             /\ Withdrawn(book, View(proc[p]) \cup gained, a) \subseteq lost
  <2> HIDE DEF free0, gained
  <2> QED OBVIOUS
<1> HIDE DEF free0, gained, lost, listed, next
<1>4. Closed(book, View(proc[p]) \cup gained) => Closed(book, v)
  BY <1>3, RemoveClosed
<1>5. /\ DOMAIN next = Fields /\ next.crossed = proc[p].crossed /\ next.op = proc[p].op
      /\ next.plus = proc[p].plus /\ next.minus = proc[p].minus /\ next.have = now \ lost
      /\ next.pc \in {"total", "store"} /\ (next.pc = "store" => ~book.autobuy)
      /\ next.used = Used(book, now \ lost)
  BY <1>0, KnownShape DEF next
<1>6. ~next.crossed => h = View(proc[p])
  BY <1>0, <1>5 DEF Sums
<1>7. ~next.crossed => (Closed(book, View(proc[p])) => Closed(book, View(proc[p]) \cup gained))
  BY <1>2, <1>6, AddClosed
<1>8. ~next.crossed => now \ lost = v
  BY <1>6
<1> HIDE DEF v, now, h
<1>9. v = (View(proc[p]) \cup gained) \ lost
  BY DEF v
<1> QED BY <1>0, <1>1, <1>4, <1>5, <1>7, <1>8, <1>9, ChangesKeep DEF NoneToBuy

LEMMA AutoBuyKeeps ==
  ASSUME IInv, NEW p \in Procs, NEW a \in Abilities, AutoBuy(p, a)
  PROVE  IInv'
<1> DEFINE h == proc[p].have
           px == proc[p].px - Cost(book, h, a)
           have == h \cup {a}
           next == [proc[p] EXCEPT !.have = have, !.px = px]
           v == View(proc[p]) \cup {a}
<1>0. /\ DOMAIN proc[p] = Fields /\ Sums(proc[p]) /\ proc[p].pc = "spend"
  BY Calculating DEF AutoBuy
<1>1. Changes(p, {a}, {}, next) /\ UNCHANGED <<book, avail, queued, doubt>>
  BY <1>0 DEF AutoBuy, Fields
<1>2. {a} \subseteq Available(book, h, proc[p].px) /\ a \notin h
  BY DEF AutoBuy, Affordable, Available
<1> HIDE DEF px, have
<1>3. /\ DOMAIN next = Fields /\ next.crossed = proc[p].crossed /\ next.op = proc[p].op /\ next.pc = "spend"
      /\ next.plus = proc[p].plus /\ next.minus = proc[p].minus /\ next.have = have
      /\ next.used = proc[p].used /\ next.start = proc[p].start
  BY <1>0 DEF Fields
<1> HIDE DEF next
<1>4. ~next.crossed => h = View(proc[p]) /\ next.used = Used(book, next.start) /\ next.start \subseteq h
  BY <1>0, <1>3 DEF Sums
<1>5. ~next.crossed => /\ Closed(book, View(proc[p])) => Closed(book, v)
                       /\ next.have = v /\ next.start \subseteq v /\ v # next.start
  BY <1>2, <1>3, <1>4, AddClosed DEF have
<1>6. v = (View(proc[p]) \cup {a}) \ {}
  OBVIOUS
<1> HIDE DEF v
<1>7. View(proc[p]) \cup {a} = v
  BY DEF v
<1> QED BY <1>0, <1>1, <1>3, <1>4, <1>5, <1>6, <1>7, ChangesKeep

-----------------------------------------------------------------------------
(* The result is stored: right, if nobody overtook the calculation.        *)
LEMMA StoreKeeps ==
  ASSUME IInv, NEW p \in Procs, Store(p)
  PROVE  IInv'
<1> DEFINE v == View(proc[p])
<1>0. /\ DOMAIN proc = Procs /\ DOMAIN proc[p] = Fields /\ proc[p].crossed \in BOOLEAN
      /\ Doing(p, proc[p]) /\ Sums(proc[p]) /\ proc[p].pc = "store"
      /\ loose \in BOOLEAN /\ queued \in BOOLEAN
  BY Calculating DEF Store, IInv, Shape
<1>1. /\ avail' = Total(book, proc[p].have) - proc[p].used /\ held' = v
      /\ queued' = (queued /\ p # Worker) /\ doubt' = proc[p].crossed
      /\ loose' = (loose \/ (proc[p].crossed /\ held' # held)) /\ book' = book
      /\ proc' = [(IF held' = held THEN proc ELSE CrossedBy(p)) EXCEPT ![p] = Idle]
  BY DEF Store
<1> HIDE DEF v
<1>2. /\ loose' \in BOOLEAN /\ doubt' \in BOOLEAN /\ queued' \in BOOLEAN
      /\ (loose => loose') /\ (queued => queued' \/ p = Worker)
  BY <1>0, <1>1
<1>3. /\ proc'[p] = Idle /\ DOMAIN proc' = Procs
      /\ \A o \in Procs : DOMAIN proc'[o] = Fields /\ proc'[o].crossed \in BOOLEAN
      /\ \A o \in Procs \ {p} : Doing(o, proc[o])' /\ Sums(proc[o])'
  BY <1>0, <1>1, <1>2, IdleShape, Others
<1>4. Shape'
  BY <1>1, <1>2, <1>3, IdleShape DEF IInv, Shape
<1>5. Doing(p, proc[p])' /\ Sums(proc[p])'
  BY <1>3, IdleShape DEF Doing, Sums
<1>6. Settled'
  <2>1. CASE proc[p].crossed BY <1>1, <2>1 DEF Settled
  <2>2. CASE ~proc[p].crossed
    <3>1. proc[p].have = v /\ proc[p].used = Used(book, v) /\ NoneToBuy(book, v, Total(book, v) - proc[p].used)
      BY <1>0, <2>2 DEF Sums, v
    <3>2. avail' = Left(book', held') /\ NoneToBuy(book', held', avail')
      BY <1>1, <3>1 DEF Left
    <3> QED BY <3>2 DEF Settled
  <2> QED BY <1>0, <2>1, <2>2
<1>7. PrerequisitesHeld'
  <2>1. CASE proc[p].crossed
    <3>1. ~loose' => ~loose /\ held' = held BY <1>0, <1>1, <2>1
    <3> QED BY <1>1, <3>1 DEF IInv, PrerequisitesHeld
  <2>2. CASE ~proc[p].crossed
    <3>1. ~loose' => Closed(book, v) BY <1>0, <1>1, <2>2 DEF Sums, v
    <3> QED BY <1>1, <3>1 DEF PrerequisitesHeld
  <2> QED BY <1>0, <2>1, <2>2
<1> QED BY <1>3, <1>4, <1>5, <1>6, <1>7 DEF IInv

LEMMA KillKeeps ==
  ASSUME IInv, NEW p \in Procs, Kill(p)
  PROVE  IInv'
<1>0. doubt \in BOOLEAN /\ loose \in BOOLEAN /\ proc[p].pc # "idle"
  BY DEF IInv, Shape, Kill
<1>1. /\ proc' = [(IF held' = held THEN proc ELSE CrossedBy(p)) EXCEPT ![p] = Idle]
      /\ UNCHANGED <<book, avail, queued, held, loose>> /\ doubt' = (doubt \/ proc[p].op = "save")
  BY DEF Kill
<1>2. Doing(p, Idle) /\ DOMAIN proc = Procs
  BY IdleShape DEF Doing, IInv, Shape
<1>3. proc'[p] = Idle
  BY <1>1, <1>2
<1>4. Sums(proc[p])'
  BY <1>3, IdleShape DEF Sums
<1>5. PrerequisitesHeld'
  BY <1>1 DEF IInv, PrerequisitesHeld
<1>6. loose' \in BOOLEAN /\ (loose => loose') /\ doubt' \in BOOLEAN /\ (doubt => doubt')
      /\ (proc[p].op = "save" => doubt')
  BY <1>0, <1>1
<1> QED BY <1>1, <1>2, <1>4, <1>5, <1>6, IdleShape, Moves

(* A rule is changed: every calculation is overtaken, and another queued.  *)
LEMMA AlterKeeps ==
  ASSUME IInv, NEW b, b \in Books, b.needs = book.needs, Alter(b)
  PROVE  IInv'
<1>0. /\ DOMAIN proc = Procs /\ \A o \in Procs : DOMAIN proc[o] = Fields /\ proc[o].crossed \in BOOLEAN
      /\ \A o \in Procs : Doing(o, proc[o])
      /\ loose \in BOOLEAN /\ doubt \in BOOLEAN
  BY IdleShape DEF IInv, Shape
<1>1. book' = b /\ queued' = TRUE /\ proc' = CrossedBy(None) /\ UNCHANGED <<held, avail, doubt, loose>>
  BY DEF Alter, Queue
<1>2. ASSUME NEW o \in Procs
      PROVE  DOMAIN proc'[o] = Fields /\ proc'[o].crossed \in BOOLEAN /\ Doing(o, proc[o])' /\ Sums(proc[o])'
  <2> DEFINE c == proc[o].crossed \/ (o # None /\ proc[o].pc # "idle")
  <2>0. c \in BOOLEAN /\ (proc[o].pc # "idle" => c) BY <1>0, ConstantsAssumption
  <2>1. proc'[o] = [proc[o] EXCEPT !.crossed = c]
    BY <1>1 DEF CrossedBy
  <2> HIDE DEF c
  <2>2. /\ DOMAIN proc'[o] = Fields /\ proc'[o].crossed \in BOOLEAN
        /\ proc'[o].pc = proc[o].pc /\ proc'[o].op = proc[o].op
        /\ proc'[o].plus = proc[o].plus /\ proc'[o].minus = proc[o].minus
        /\ proc[o].pc # "idle" => proc'[o].crossed
    BY <1>0, <2>0, <2>1 DEF Fields
  <2>3. Sums(proc[o])'
    BY <2>2 DEF Sums
  <2>4. Doing(o, proc[o])'
    BY <1>0, <1>1, <2>2 DEF Doing
  <2> QED BY <2>2, <2>3, <2>4
<1>3. Shape'
  <2>1. DOMAIN proc' = Procs BY <1>1 DEF CrossedBy
  <2> QED BY <1>0, <1>1, <1>2, <2>1, IdleShape DEF Shape
<1>4. Settled' BY <1>1 DEF Settled
<1>5. PrerequisitesHeld' BY <1>1 DEF IInv, PrerequisitesHeld, Closed
<1> QED BY <1>2, <1>3, <1>4, <1>5 DEF IInv

LEMMA RepriceKeeps ==
  ASSUME IInv, NEW a \in Abilities, NEW c \in Costs, Reprice(a, c)
  PROVE  IInv'
<1> DEFINE cost == [book.cost EXCEPT ![a] = c]
           b == [book EXCEPT !.cost = cost]
<1>1. book \in Books BY DEF IInv, Shape
<1>2. cost \in [Abilities -> Nat] BY <1>1, ConstantsAssumption DEF Books
<1>3. Alter(b) BY <1>1 DEF Reprice, Books
<1> HIDE DEF cost
<1>4. b \in Books /\ b.needs = book.needs BY <1>1, <1>2 DEF Books
<1> HIDE DEF b
<1> QED BY <1>3, <1>4, AlterKeeps

LEMMA DeliverKeeps ==
  ASSUME IInv, NEW n \in Deliveries, Deliver(n)
  PROVE  IInv'
<1> DEFINE b == [book EXCEPT !.points = n]
<1>1. book \in Books BY DEF IInv, Shape
<1>2. Alter(b) BY DEF Deliver
<1>3. b \in Books /\ b.needs = book.needs BY <1>1, ConstantsAssumption DEF Books
<1> HIDE DEF b
<1> QED BY <1>2, <1>3, AlterKeeps

-----------------------------------------------------------------------------
LEMMA InitInvariant == Init => IInv
<1> SUFFICES ASSUME Init PROVE IInv OBVIOUS
<1>1. book \in Books
  <2>1. PICK i \in Instances : book = i.book BY DEF Init
  <2> QED BY <2>1, ConstantsAssumption
<1>2. /\ DOMAIN proc = Procs /\ \A p \in Procs : proc[p] = Idle
      /\ queued = TRUE /\ loose = FALSE /\ doubt = FALSE /\ held = {}
  BY DEF Init
<1>3. Shape BY <1>1, <1>2, IdleShape DEF Shape
<1>4. \A p \in Procs : Doing(p, proc[p]) /\ Sums(proc[p])
  BY <1>2, IdleShape DEF Doing, Sums
<1>5. Settled /\ PrerequisitesHeld
  BY <1>2 DEF Settled, PrerequisitesHeld, Closed
<1> QED BY <1>3, <1>4, <1>5 DEF IInv

LEMMA NextInvariant == IInv /\ [Next]_vars => IInv'
<1> SUFFICES ASSUME IInv, [Next]_vars PROVE IInv' OBVIOUS
<1>1. ASSUME NEW p \in Procs, Step(p) PROVE IInv'
  BY <1>1, LookKeeps, GrantKeeps, KeepFreeKeeps, SumKeeps, EndRoundKeeps, StoreKeeps, AutoBuyKeeps DEF Step
<1>2. ASSUME NEW p \in Procs, Kill(p) PROVE IInv'
  BY <1>2, KillKeeps
<1>3. ASSUME NEW q \in Requests, NEW a \in Abilities, Buy(q, a) \/ Undo(q, a) PROVE IInv'
  BY <1>3, BuyKeeps, UndoKeeps
<1>4. ASSUME NEW q \in Requests, NEW h, SaveCharacter(q, h) PROVE IInv'
  BY <1>4, SaveCharacterKeeps
<1>5. CASE Run BY <1>5, RunKeeps
<1>6. ASSUME NEW a \in Abilities, NEW c \in Costs, Reprice(a, c) PROVE IInv'
  BY <1>6, RepriceKeeps
<1>7. ASSUME NEW n \in Deliveries, Deliver(n) PROVE IInv'
  BY <1>7, DeliverKeeps
<1>8. CASE UNCHANGED vars
  BY <1>8 DEF vars, IInv, Shape, Doing, Sums, Settled, PrerequisitesHeld, View, Active, Closed
<1>9. CASE Next
  BY <1>1, <1>2, <1>3, <1>4, <1>5, <1>6, <1>7, <1>9 DEF Next
<1> QED BY <1>8, <1>9

LEMMA Invariant == Spec => []IInv
BY InitInvariant, NextInvariant, PTL DEF Spec

(* No ability stands without its prerequisites, unless abilities were set  *)
(* by hand or calculations overtook each other (add_char_addit,            *)
(* remove_char_ability).                                                   *)
THEOREM AbilitiesHavePrerequisites == Spec => []PrerequisitesHeld
<1>1. IInv => PrerequisitesHeld BY DEF IInv
<1> QED BY <1>1, Invariant, PTL

(* When nothing is queued and nothing runs, what is stored is what the     *)
(* rules leave, unless the last calculation was overtaken                  *)
(* (calculate_character_experience_points).                                *)
THEOREM StoredNumberIsRight == Spec => []StoredIsRight
<1>1. ASSUME IInv PROVE StoredIsRight
  BY <1>1 DEF IInv, StoredIsRight, Quiet, Settled
<1> QED BY <1>1, Invariant, PTL

(* When nothing is queued and nothing runs, exp_auto_buy has left nothing  *)
(* that could be bought (_auto_buy_abilities).                             *)
THEOREM AutoBuyIsDone == Spec => []NothingAffordable
<1>1. ASSUME IInv PROVE NothingAffordable
  BY <1>1 DEF IInv, NothingAffordable, Quiet, Settled
<1> QED BY <1>1, Invariant, PTL

-----------------------------------------------------------------------------
(* Rules under which more abilities never mean a smaller total or a higher *)
(* cost: the criterions do not multiply by zero; the modifiers of an       *)
(* ability ask for less than the ability, the earlier the less.            *)
OnlyAdds(b) == \A n \in DOMAIN b.criterions : b.criterions[n].op = "MUL" => b.criterions[n].amount # 0
OnlyDiscounts(b) ==
  /\ \A n \in DOMAIN b.modifiers : b.modifiers[n].cost <= b.cost[b.modifiers[n].of]
  /\ \A n, m \in DOMAIN b.modifiers : n < m /\ b.modifiers[n].of = b.modifiers[m].of =>
       b.modifiers[n].cost <= b.modifiers[m].cost
Gentle(b) == OnlyAdds(b) /\ OnlyDiscounts(b)

IsTotal(t, b, h, n) ==
  t = [i \in 0..n |-> IF i = 0 THEN b.points ELSE Applied(b.criterions[i], h, t[i - 1])]

LEMMA TotalExists ==
  ASSUME NEW b, NEW h, NEW n \in Nat
  PROVE  \E t : IsTotal(t, b, h, n)
<1> DEFINE Bad == {i \in Nat : ~\E t : IsTotal(t, b, h, i)}
<1> SUFFICES ASSUME Bad # {} PROVE FALSE
  OBVIOUS
<1>1. Bad \subseteq Nat
  OBVIOUS
<1> HIDE DEF Bad
<1>2. PICK i \in Bad : \A j \in Bad : i <= j
  BY <1>1, LeastNatural
<1>3. i \in Nat /\ ~\E t : IsTotal(t, b, h, i)
  BY DEF Bad
<1>4. i # 0
  <2>1. IsTotal([j \in 0..0 |-> b.points], b, h, 0)
    BY DEF IsTotal
  <2> QED BY <1>3, <2>1
<1>5. i - 1 \in Nat /\ i - 1 \notin Bad
  BY <1>2, <1>3, <1>4
<1>6. PICK t : IsTotal(t, b, h, i - 1)
  BY <1>5 DEF Bad
<1> DEFINE last == Applied(b.criterions[i], h, t[i - 1])
           u == [j \in 0..i |-> IF j = i THEN last ELSE t[j]]
<1>7. \A j \in 0..(i - 1) : t[j] = IF j = 0 THEN b.points ELSE Applied(b.criterions[j], h, t[j - 1])
  BY <1>6 DEF IsTotal
<1>8. \A j \in 0..(i - 1) : j \in 0..i /\ u[j] = t[j]
  BY <1>3
<1>9. u[i] = last /\ u[i - 1] = t[i - 1]
  BY <1>3, <1>4
<1>10. \A j \in 0..i : u[j] = IF j = 0 THEN b.points ELSE Applied(b.criterions[j], h, u[j - 1])
  <2> SUFFICES ASSUME NEW j \in 0..i
               PROVE  u[j] = IF j = 0 THEN b.points ELSE Applied(b.criterions[j], h, u[j - 1])
    OBVIOUS
  <2>1. CASE j = i
    BY <1>4, <1>9, <2>1
  <2>2. CASE j # i
    <3>1. j \in 0..(i - 1) /\ (j # 0 => j - 1 \in 0..(i - 1))
      BY <1>3, <2>2
    <3> HIDE DEF u, last
    <3> QED BY <1>7, <1>8, <3>1
  <2> QED BY <2>1, <2>2
<1>11. u = [j \in 0..i |-> IF j = 0 THEN b.points ELSE Applied(b.criterions[j], h, u[j - 1])]
  <2>1. u = [j \in 0..i |-> u[j]]
    OBVIOUS
  <2> HIDE DEF u
  <2> QED BY <1>10, <2>1
<1> HIDE DEF u
<1> QED BY <1>3, <1>11 DEF IsTotal

LEMMA TotalIs ==
  ASSUME NEW b, NEW h, Len(b.criterions) \in Nat
  PROVE  \E t : IsTotal(t, b, h, Len(b.criterions)) /\ Total(b, h) = t[Len(b.criterions)]
<1> DEFINE n == Len(b.criterions)
           t == CHOOSE t : IsTotal(t, b, h, n)
<1>1. IsTotal(t, b, h, n)
  BY TotalExists
<1>2. Total(b, h) = t[n]
  BY DEF Total, IsTotal
<1> QED BY <1>1, <1>2

LEMMA AppliedGrows ==
  ASSUME NEW c, c.op \in {"ADD", "MUL"}, c.amount \in Nat, c.op = "MUL" => c.amount # 0,
         NEW h, NEW k, h \subseteq k, NEW s \in Nat, NEW t \in Nat, s <= t
  PROVE  Applied(c, h, s) \in Nat /\ Applied(c, k, t) \in Nat /\ Applied(c, h, s) <= Applied(c, k, t)
<1> DEFINE a == c.amount
<1>1. a \in Nat /\ (c.op = "MUL" => a >= 1)
  OBVIOUS
<1> HIDE DEF a
<1>2. ASSUME a >= 1 PROVE s * a <= t * a /\ t <= t * a /\ s * a \in Nat /\ t * a \in Nat
  <2>1. \A x, y, z \in Nat : x <= y => x * z <= y * z
    OBVIOUS
  <2>2. 1 * t <= a * t
    BY <1>1, <1>2, <2>1
  <2> QED BY <1>1, <2>1, <2>2
<1>3. CASE c.needs \subseteq h
  BY <1>1, <1>2, <1>3 DEF Applied, a
<1>4. CASE ~(c.needs \subseteq h) /\ c.needs \subseteq k
  BY <1>1, <1>2, <1>4 DEF Applied, a
<1>5. CASE ~(c.needs \subseteq k)
  BY <1>5 DEF Applied
<1> QED BY <1>3, <1>4, <1>5

LEMMA CriterionType ==
  ASSUME NEW b \in Books
  PROVE  /\ Len(b.criterions) \in Nat /\ b.points \in Nat /\ DOMAIN b.criterions = 1..Len(b.criterions)
         /\ \A n \in 1..Len(b.criterions) : b.criterions[n].op \in {"ADD", "MUL"} /\ b.criterions[n].amount \in Nat
<1> DEFINE C == [needs : SUBSET Abilities, op : {"ADD", "MUL"}, amount : Nat]
<1>1. b.criterions \in Seq(C) /\ b.points \in Nat
  BY DEF Books
<1>2. \A c \in C : c.op \in {"ADD", "MUL"} /\ c.amount \in Nat
  OBVIOUS
<1> HIDE DEF C
<1> QED BY <1>1, <1>2

LEMMA TotalGrows ==
  ASSUME NEW b \in Books, OnlyAdds(b), NEW h, NEW k, h \subseteq k
  PROVE  Total(b, h) \in Nat /\ Total(b, k) \in Nat /\ Total(b, h) <= Total(b, k)
<1> DEFINE n == Len(b.criterions)
<1>1. n \in Nat /\ \A i \in 1..n : /\ b.criterions[i].op \in {"ADD", "MUL"} /\ b.criterions[i].amount \in Nat
                                   /\ b.criterions[i].op = "MUL" => b.criterions[i].amount # 0
  BY CriterionType DEF OnlyAdds
<1>2. PICK t : IsTotal(t, b, h, n) /\ Total(b, h) = t[n]
  BY <1>1, TotalIs
<1>3. PICK u : IsTotal(u, b, k, n) /\ Total(b, k) = u[n]
  BY <1>1, TotalIs
<1> DEFINE Bad == {i \in 0..n : ~(t[i] \in Nat /\ u[i] \in Nat /\ t[i] <= u[i])}
<1>4. ASSUME Bad # {} PROVE FALSE
  <2>1. Bad \subseteq Nat
    BY <1>1
  <2> HIDE DEF Bad
  <2>2. PICK i \in Bad : \A j \in Bad : i <= j
    BY <1>4, <2>1, LeastNatural
  <2>3. i \in 0..n /\ ~(t[i] \in Nat /\ u[i] \in Nat /\ t[i] <= u[i])
    BY DEF Bad
  <2> HIDE DEF n
  <2>4. /\ t[i] = IF i = 0 THEN b.points ELSE Applied(b.criterions[i], h, t[i - 1])
        /\ u[i] = IF i = 0 THEN b.points ELSE Applied(b.criterions[i], k, u[i - 1])
    BY <1>2, <1>3, <2>3 DEF IsTotal
  <2>5. i # 0
    BY <2>3, <2>4, CriterionType
  <2>6. i - 1 \in 0..n /\ i - 1 \notin Bad /\ i \in 1..n
    BY <1>1, <2>2, <2>3, <2>5
  <2>7. t[i - 1] \in Nat /\ u[i - 1] \in Nat /\ t[i - 1] <= u[i - 1]
    BY <2>6 DEF Bad
  <2> DEFINE c == b.criterions[i]
  <2>8. c.op \in {"ADD", "MUL"} /\ c.amount \in Nat /\ (c.op = "MUL" => c.amount # 0)
    BY <1>1, <2>6
  <2> HIDE DEF c
  <2>9. /\ Applied(c, h, t[i - 1]) \in Nat /\ Applied(c, k, u[i - 1]) \in Nat
        /\ Applied(c, h, t[i - 1]) <= Applied(c, k, u[i - 1])
    BY <2>7, <2>8, AppliedGrows
  <2> QED BY <2>3, <2>4, <2>5, <2>9 DEF c
<1>5. n \in 0..n /\ n \notin Bad
  BY <1>1, <1>4
<1> QED BY <1>2, <1>3, <1>5

LEMMA ModifierType ==
  ASSUME NEW b \in Books
  PROVE  /\ b.cost \in [Abilities -> Nat] /\ DOMAIN b.modifiers \subseteq Nat
         /\ \A n \in DOMAIN b.modifiers : b.modifiers[n].of \in Abilities /\ b.modifiers[n].cost \in Nat
<1> DEFINE M == [of : Abilities, needs : SUBSET Abilities, cost : Nat]
<1>1. b.modifiers \in Seq(M) /\ b.cost \in [Abilities -> Nat]
  BY DEF Books
<1>2. \A m \in M : m.of \in Abilities /\ m.cost \in Nat
  OBVIOUS
<1> HIDE DEF M
<1>3. DOMAIN b.modifiers = 1..Len(b.modifiers) /\ Len(b.modifiers) \in Nat
  BY <1>1
<1> QED BY <1>1, <1>2, <1>3

Meets(b, h, a) == {n \in DOMAIN b.modifiers : b.modifiers[n].of = a /\ b.modifiers[n].needs \subseteq h}

LEMMA CostIs ==
  ASSUME NEW b \in Books, NEW h, NEW a \in Abilities
  PROVE  /\ Cost(b, h, a) \in Nat
         /\ Meets(b, h, a) = {} => Cost(b, h, a) = b.cost[a]
         /\ Meets(b, h, a) # {} => \E n \in Meets(b, h, a) :
              (\A m \in Meets(b, h, a) : n <= m) /\ Cost(b, h, a) = b.modifiers[n].cost
<1> DEFINE meets == Meets(b, h, a)
<1>1. Cost(b, h, a) = IF meets = {} THEN b.cost[a] ELSE b.modifiers[Min(meets)].cost
  BY DEF Cost, Meets
<1>2. meets \subseteq DOMAIN b.modifiers /\ meets \subseteq Nat
  BY ModifierType DEF Meets
<1> HIDE DEF meets
<1>3. CASE meets = {}
  BY <1>1, <1>3, ModifierType DEF meets
<1>4. CASE meets # {}
  <2>1. Min(meets) \in meets /\ \A m \in meets : Min(meets) <= m
    BY <1>2, <1>4, LeastNatural DEF Min
  <2> QED BY <1>1, <1>2, <1>4, <2>1, ModifierType DEF meets
<1> QED BY <1>3, <1>4

LEMMA CostFalls ==
  ASSUME NEW b \in Books, OnlyDiscounts(b), NEW h, NEW k, h \subseteq k, NEW a \in Abilities
  PROVE  Cost(b, k, a) <= Cost(b, h, a)
<1>1. Meets(b, h, a) \subseteq Meets(b, k, a) /\ Meets(b, k, a) \subseteq DOMAIN b.modifiers
  BY DEF Meets
<1>2. b.cost[a] \in Nat
  BY ModifierType
<1>3. CASE Meets(b, k, a) = {}
  BY <1>1, <1>2, <1>3, CostIs
<1>4. CASE Meets(b, k, a) # {}
  <2>1. PICK n \in Meets(b, k, a) : (\A m \in Meets(b, k, a) : n <= m) /\ Cost(b, k, a) = b.modifiers[n].cost
    BY <1>4, CostIs
  <2>2. n \in DOMAIN b.modifiers /\ b.modifiers[n].of = a /\ n \in Nat
    BY <1>1, ModifierType DEF Meets
  <2>3. CASE Meets(b, h, a) = {}
    BY <2>1, <2>2, <2>3, CostIs DEF OnlyDiscounts
  <2>4. CASE Meets(b, h, a) # {}
    <3>1. PICK m \in Meets(b, h, a) : Cost(b, h, a) = b.modifiers[m].cost
      BY <2>4, CostIs
    <3>2. n <= m /\ m \in DOMAIN b.modifiers /\ b.modifiers[m].of = a /\ m \in Nat
      BY <1>1, <2>1, ModifierType DEF Meets
    <3>3. b.modifiers[n].cost <= b.modifiers[m].cost
      BY <2>2, <3>2, ModifierType DEF OnlyDiscounts
    <3> QED BY <2>1, <3>1, <3>3
  <2> QED BY <2>3, <2>4
<1> QED BY <1>3, <1>4

-----------------------------------------------------------------------------
(* What an added ability, or added abilities that are free, leave.         *)
LEMMA LeftType ==
  ASSUME NEW b \in Books, OnlyAdds(b), NEW h, h \subseteq Abilities
  PROVE  Left(b, h) \in Int /\ Used(b, h) \in Nat /\ Total(b, h) \in Nat /\ Left(b, h) = Total(b, h) - Used(b, h)
<1> DEFINE f == [a \in Abilities |-> Cost(b, h, a)]
<1>1. IsFiniteSet(h) /\ \A a \in h : f[a] \in Nat
  BY CostIs, ConstantsAssumption, FS_Subset
<1>2. Used(b, h) = SumFunctionOnSet(f, h)
  BY DEF Used
<1> HIDE DEF f
<1>3. Used(b, h) \in Nat
  BY <1>1, <1>2, SumNatural
<1> QED BY <1>3, TotalGrows DEF Left

LEMMA UsedWithMore ==
  ASSUME NEW b \in Books, Gentle(b), NEW h, h \subseteq Abilities, NEW k, k \subseteq Abilities, h \subseteq k,
         NEW f, f = [a \in Abilities |-> Cost(b, h, a)]
  PROVE  /\ Used(b, k) <= SumFunctionOnSet(f, k) /\ Used(b, h) = SumFunctionOnSet(f, h)
         /\ \A a \in Abilities : f[a] \in Nat
<1> DEFINE g == [a \in Abilities |-> Cost(b, k, a)]
<1>1. \A a \in k : g[a] \in Int /\ f[a] \in Int /\ g[a] <= f[a]
  BY CostIs, CostFalls DEF Gentle
<1>2. Used(b, k) = SumFunctionOnSet(g, k) /\ IsFiniteSet(k)
  BY ConstantsAssumption, FS_Subset DEF Used
<1> HIDE DEF g
<1>3. Used(b, k) <= SumFunctionOnSet(f, k)
  BY <1>1, <1>2, SumAtMost
<1> QED BY <1>3, CostIs DEF Used

LEMMA LeftAfterOne ==
  ASSUME NEW b \in Books, Gentle(b), NEW h, h \subseteq Abilities, NEW a \in Abilities, a \notin h
  PROVE  Left(b, h \cup {a}) \in Int /\ Left(b, h \cup {a}) >= Left(b, h) - Cost(b, h, a)
<1> DEFINE f == [x \in Abilities |-> Cost(b, h, x)]
           k == h \cup {a}
<1>1. k \subseteq Abilities /\ h \subseteq k /\ IsFiniteSet(h)
  BY ConstantsAssumption, FS_Subset
<1>2. f[a] = Cost(b, h, a) /\ f = [x \in Abilities |-> Cost(b, h, x)]
  OBVIOUS
<1> HIDE DEF f
<1>3. SumFunctionOnSet(f, k) = f[a] + SumFunctionOnSet(f, h)
  <2>1. \A x \in h : f[x] \in Int
    BY <1>1, <1>2, UsedWithMore
  <2>2. f[a] \in Int
    BY <1>1, <1>2, UsedWithMore
  <2> QED BY <1>1, <2>1, <2>2, SumAdded
<1> HIDE DEF k
<1>4. Used(b, k) <= Used(b, h) + Cost(b, h, a)
  BY <1>1, <1>2, <1>3, UsedWithMore, CostIs, LeftType DEF Gentle
<1>5. Total(b, h) <= Total(b, k)
  BY <1>1, TotalGrows DEF Gentle
<1>6. Left(b, k) >= Left(b, h) - Cost(b, h, a) /\ Left(b, k) \in Int
  BY <1>1, <1>4, <1>5, LeftType, CostIs DEF Gentle
<1> QED BY <1>6 DEF k

LEMMA LeftAfterFree ==
  ASSUME NEW b \in Books, Gentle(b), NEW h, h \subseteq Abilities,
         NEW g, g \subseteq Abilities, \A a \in g \ h : Cost(b, h, a) = 0
  PROVE  Left(b, h \cup g) \in Int /\ Left(b, h \cup g) >= Left(b, h)
<1> DEFINE f == [x \in Abilities |-> Cost(b, h, x)]
           k == h \cup g
<1>1. k \subseteq Abilities /\ h \subseteq k /\ IsFiniteSet(k)
  BY ConstantsAssumption, FS_Subset
<1>2. (\A a \in k \ h : f[a] = 0) /\ f = [x \in Abilities |-> Cost(b, h, x)]
  OBVIOUS
<1> HIDE DEF f, k
<1>3. \A x \in k : f[x] \in Int
  BY <1>1, <1>2, UsedWithMore
<1>4. SumFunctionOnSet(f, k) = SumFunctionOnSet(f, h)
  BY <1>1, <1>2, <1>3, SumOfMoreZeros
<1>5. Used(b, k) <= Used(b, h)
  BY <1>1, <1>2, <1>4, UsedWithMore
<1>6. Total(b, h) <= Total(b, k)
  BY <1>1, TotalGrows DEF Gentle
<1>7. Left(b, k) >= Left(b, h) /\ Left(b, k) \in Int
  BY <1>1, <1>5, <1>6, LeftType DEF Gentle
<1> QED BY <1>7 DEF k

-----------------------------------------------------------------------------
(* A purchase that found the right number and was not crossed: what is     *)
(* left is not below zero, for what the purchase has by now, and the       *)
(* system does not spend more than that.                                   *)
GivenIsFree == book.free => \A a \in free : Cost(book, held, a) = 0

Paid(x, b, h) ==
  x.op = "buy" /\ x.pc # "idle" /\ x.sure /\ ~x.crossed =>
    /\ x.minus = {} /\ 0 <= Left(b, (h \ x.minus) \cup x.plus)
    /\ x.pc = "grant" /\ b.free => \A a \in x.listed : Cost(b, h, a) = 0
    /\ x.pc = "spend" => x.px \in Int /\ x.px <= Left(b, x.have)

Within ==
  /\ held \subseteq Abilities
  /\ \A p \in Procs : proc[p].plus \subseteq Abilities /\ proc[p].have \subseteq Abilities

BInv == Within /\ \A q \in Requests : Paid(proc[q], book, held)

LEMMA OthersPay ==
  ASSUME IInv, BInv, NEW p \in Procs, NEW x,
         proc' = [(IF held' = held THEN proc ELSE CrossedBy(p)) EXCEPT ![p] = x],
         book' = book, held' \subseteq Abilities, x.plus \subseteq Abilities, x.have \subseteq Abilities,
         p \in Requests => Paid(x, book, held')
  PROVE  BInv'
<1>0. DOMAIN proc = Procs /\ \A o \in Procs : DOMAIN proc[o] = Fields
  BY IdleShape DEF IInv, Shape
<1>1. DOMAIN CrossedBy(p) = Procs
  BY DEF CrossedBy
<1>2. proc'[p] = x
  BY <1>0, <1>1
<1>3. ASSUME NEW o \in Procs, o # p
      PROVE  /\ proc'[o].plus \subseteq Abilities /\ proc'[o].have \subseteq Abilities
             /\ o \in Requests => Paid(proc'[o], book, held')
  <2>1. CASE held' = held
    <3>1. proc'[o] = proc[o] BY <1>0, <1>3, <2>1
    <3> QED BY <2>1, <3>1 DEF BInv, Within
  <2>2. CASE held' # held
    <3> DEFINE c == proc[o].crossed \/ (o # p /\ proc[o].pc # "idle")
    <3>0. proc[o].pc # "idle" => c BY <1>3
    <3>1. proc'[o] = [proc[o] EXCEPT !.crossed = c]
      BY <1>1, <1>3, <2>2 DEF CrossedBy
    <3> HIDE DEF c
    <3>2. /\ proc'[o].pc = proc[o].pc /\ proc'[o].plus = proc[o].plus /\ proc'[o].have = proc[o].have
          /\ proc'[o].crossed = c
      BY <1>0, <3>1 DEF Fields
    <3> QED BY <3>0, <3>2 DEF BInv, Within, Paid
  <2> QED BY <2>1, <2>2
<1>4. Within'
  BY <1>2, <1>3 DEF Within
<1>5. ASSUME NEW q \in Requests PROVE Paid(proc'[q], book', held')
  BY <1>2, <1>3 DEF Procs
<1> QED BY <1>4, <1>5 DEF BInv

LEMMA PaysUnseen ==
  ASSUME IInv, BInv, NEW p \in Procs, NEW x, proc' = [proc EXCEPT ![p] = x], UNCHANGED <<book, held>>,
         x.plus \subseteq Abilities, x.have \subseteq Abilities, p \in Requests => Paid(x, book, held)
  PROVE  BInv'
<1>1. proc' = [(IF held' = held THEN proc ELSE CrossedBy(p)) EXCEPT ![p] = x]
  OBVIOUS
<1>2. held' \subseteq Abilities /\ (p \in Requests => Paid(x, book, held'))
  BY DEF BInv, Within
<1> QED BY <1>1, <1>2, OthersPay

LEMMA NotBuying ==
  ASSUME NEW x, x.op # "buy" \/ x.pc = "idle", NEW b, NEW h
  PROVE  Paid(x, b, h)
BY DEF Paid

LEMMA IdlePays == Idle.plus \subseteq Abilities /\ Idle.have \subseteq Abilities
BY DEF Idle

LEMMA BuyPays ==
  ASSUME IInv, BInv, Gentle(book), NEW q \in Requests, NEW a \in Abilities, Buy(q, a)
  PROVE  BInv'
<1> DEFINE sure == avail = Left(book, held) /\ ~queued
           x == [Idle EXCEPT !.op = "buy", !.pc = "look", !.of = a, !.plus = {a}, !.sure = sure]
<1>1. q \in Procs /\ proc' = [proc EXCEPT ![q] = x] /\ UNCHANGED <<book, held>>
  BY DEF Buy, Asks, Procs
<1>2. a \in Available(book, held, avail) /\ held \subseteq Abilities /\ book \in Books
  BY DEF Buy, BInv, Within, IInv, Shape
<1> HIDE DEF sure
<1>3. x.pc = "look" /\ x.plus = {a} /\ x.minus = {} /\ x.have = {} /\ x.sure = sure
  BY DEF Idle
<1> HIDE DEF x
<1>4. sure => 0 <= Left(book, held \cup {a})
  <2>1. a \notin held /\ Cost(book, held, a) <= avail
    BY <1>2 DEF Available
  <2>2. Left(book, held \cup {a}) \in Int /\ Left(book, held \cup {a}) >= Left(book, held) - Cost(book, held, a)
    BY <1>2, <2>1, LeftAfterOne
  <2>3. Left(book, held) \in Int /\ Cost(book, held, a) \in Nat
    BY <1>2, LeftType, CostIs DEF Gentle
  <2> QED BY <2>1, <2>2, <2>3 DEF sure
<1>5. (held \ x.minus) \cup x.plus = held \cup {a}
  BY <1>3
<1>6. Paid(x, book, held)
  BY <1>3, <1>4, <1>5 DEF Paid
<1> QED BY <1>1, <1>3, <1>6, PaysUnseen

LEMMA BeginPays ==
  ASSUME IInv, BInv, NEW p \in Procs, (p \in Requests /\ \E a \in Abilities : Undo(p, a)) \/ (p = Worker /\ Run)
  PROVE  BInv'
<1>1. CASE p \in Requests /\ \E a \in Abilities : Undo(p, a)
  <2>1. PICK a \in Abilities : Undo(p, a) BY <1>1
  <2> DEFINE w == Withdrawn(book, held, a)
             x == [Idle EXCEPT !.op = "undo", !.pc = "look", !.minus = w, !.listed = free]
  <2>2. proc' = [proc EXCEPT ![p] = x] /\ UNCHANGED <<book, held>>
    BY <2>1 DEF Undo, Asks
  <2> HIDE DEF w
  <2>3. x.op = "undo" /\ x.plus = {} /\ x.have = {}
    BY DEF Idle
  <2> HIDE DEF x
  <2> QED BY <2>2, <2>3, NotBuying, PaysUnseen
<1>2. CASE p = Worker /\ Run
  <2> DEFINE x == [Idle EXCEPT !.op = "task", !.pc = "look"]
  <2>1. proc' = [proc EXCEPT ![p] = x] /\ UNCHANGED <<book, held>>
    BY <1>2 DEF Run
  <2>2. x.op = "task" /\ x.plus = {} /\ x.have = {}
    BY DEF Idle
  <2> HIDE DEF x
  <2> QED BY <2>1, <2>2, NotBuying, PaysUnseen
<1> QED BY <1>1, <1>2

LEMMA SaveCharacterPays ==
  ASSUME IInv, BInv, NEW q \in Requests, NEW h, h \subseteq Abilities, SaveCharacter(q, h)
  PROVE  BInv'
<1> DEFINE x == [Idle EXCEPT !.op = "save", !.pc = "look"]
<1>1. /\ q \in Procs /\ held' = h /\ book' = book
      /\ proc' = [(IF held' = held THEN proc ELSE CrossedBy(q)) EXCEPT ![q] = x]
  BY DEF SaveCharacter, Procs
<1>2. x.op = "save" /\ x.plus = {} /\ x.have = {}
  BY DEF Idle
<1> HIDE DEF x
<1> QED BY <1>1, <1>2, NotBuying, OthersPay

LEMMA LookPays ==
  ASSUME IInv, BInv, GivenIsFree, NEW p \in Procs, Look(p)
  PROVE  BInv'
<1> DEFINE seen == View(proc[p])
           listed == IF proc[p].op = "undo" THEN proc[p].listed ELSE free
           x == [proc[p] EXCEPT !.pc = "grant", !.have = seen, !.listed = listed]
<1>0. DOMAIN proc[p] = Fields /\ proc[p].pc = "look"
  BY Calculating DEF Look
<1>1. proc' = [proc EXCEPT ![p] = x] /\ UNCHANGED <<book, held>>
  BY <1>0 DEF Look, Fields
<1>2. seen \subseteq Abilities /\ proc[p].plus \subseteq Abilities
  BY DEF View, BInv, Within
<1> HIDE DEF listed, seen
<1>3. /\ x.crossed = proc[p].crossed /\ x.op = proc[p].op /\ x.pc = "grant" /\ x.sure = proc[p].sure
      /\ x.plus = proc[p].plus /\ x.minus = proc[p].minus /\ x.have = seen /\ x.listed = listed
  BY <1>0 DEF Fields
<1> HIDE DEF x
<1>4. p \in Requests => Paid(x, book, held)
  <2> SUFFICES ASSUME p \in Requests, x.op = "buy", x.sure, ~x.crossed PROVE Paid(x, book, held)
    BY DEF Paid
  <2>1. listed = free
    BY <1>3 DEF listed
  <2> QED BY <1>0, <1>3, <2>1 DEF BInv, Paid, GivenIsFree
<1> QED BY <1>1, <1>2, <1>3, <1>4, PaysUnseen

LEMMA KnownPays ==
  ASSUME IInv, NEW p \in Procs, proc[p].pc # "idle", NEW h, NEW listed, NEW x, x = Known(p, h, listed)
  PROVE  x.sure = proc[p].sure
<1> DEFINE pc == IF book.autobuy THEN "total" ELSE "store"
           used == Used(book, h)
<1>1. x = [proc[p] EXCEPT !.pc = pc, !.have = h, !.listed = listed, !.used = used]
  BY DEF Known, Summed
<1>2. DOMAIN proc[p] = Fields
  BY Calculating
<1> HIDE DEF pc, used
<1> QED BY <1>1, <1>2 DEF Fields

LEMMA KeepFreePays ==
  ASSUME IInv, BInv, NEW p \in Procs, KeepFree(p)
  PROVE  BInv'
<1> DEFINE x == Known(p, proc[p].have, proc[p].listed)
<1>1. proc' = [proc EXCEPT ![p] = x] /\ proc[p].pc = "grant" /\ UNCHANGED <<book, held>>
  BY DEF KeepFree
<1>2. /\ x.crossed = proc[p].crossed /\ x.op = proc[p].op /\ x.sure = proc[p].sure
      /\ x.plus = proc[p].plus /\ x.minus = proc[p].minus /\ x.have = proc[p].have
      /\ x.pc \in {"total", "store"}
  BY <1>1, KnownShape, KnownPays
<1> HIDE DEF x
<1>3. p \in Requests => Paid(x, book, held)
  BY <1>1, <1>2 DEF BInv, Paid
<1> QED BY <1>1, <1>2, <1>3, PaysUnseen DEF BInv, Within

LEMMA SumPays ==
  ASSUME IInv, BInv, Gentle(book), NEW p \in Procs, Sum(p)
  PROVE  BInv'
<1> DEFINE px == Total(book, proc[p].have) - proc[p].used
           x == [proc[p] EXCEPT !.pc = "spend", !.px = px, !.start = proc[p].have]
<1>0. DOMAIN proc[p] = Fields /\ Sums(proc[p]) /\ proc[p].pc = "total" /\ proc[p].have \subseteq Abilities
  BY Calculating DEF Sum, BInv, Within
<1>1. proc' = [proc EXCEPT ![p] = x] /\ UNCHANGED <<book, held>>
  BY <1>0 DEF Sum, Fields
<1>2. ~proc[p].crossed => px \in Int /\ px <= Left(book, proc[p].have)
  BY <1>0, LeftType DEF Sums, IInv, Shape, Gentle
<1> HIDE DEF px
<1>3. /\ x.crossed = proc[p].crossed /\ x.op = proc[p].op /\ x.pc = "spend" /\ x.sure = proc[p].sure
      /\ x.plus = proc[p].plus /\ x.minus = proc[p].minus /\ x.have = proc[p].have /\ x.px = px
  BY <1>0 DEF Fields
<1> HIDE DEF x
<1>4. p \in Requests => Paid(x, book, held)
  BY <1>0, <1>2, <1>3 DEF BInv, Paid
<1> QED BY <1>1, <1>3, <1>4, PaysUnseen DEF BInv, Within

LEMMA EndRoundPays ==
  ASSUME IInv, BInv, NEW p \in Procs, EndRound(p)
  PROVE  BInv'
<1> DEFINE pc == IF Again(p) THEN "total" ELSE "store"
           used == IF proc[p].have # proc[p].start THEN Used(book, proc[p].have) ELSE proc[p].used
           x == [proc[p] EXCEPT !.pc = pc, !.used = used]
<1>0. DOMAIN proc[p] = Fields /\ proc[p].pc = "spend"
  BY Calculating DEF EndRound
<1>1. proc' = [proc EXCEPT ![p] = x] /\ UNCHANGED <<book, held>>
  BY <1>0 DEF EndRound, Fields
<1>2. pc \in {"total", "store"}
  OBVIOUS
<1> HIDE DEF pc, used
<1>3. /\ x.crossed = proc[p].crossed /\ x.op = proc[p].op /\ x.pc = pc /\ x.sure = proc[p].sure
      /\ x.plus = proc[p].plus /\ x.minus = proc[p].minus /\ x.have = proc[p].have
  BY <1>0 DEF Fields
<1> HIDE DEF x
<1>4. p \in Requests => Paid(x, book, held)
  BY <1>0, <1>2, <1>3 DEF BInv, Paid
<1> QED BY <1>1, <1>3, <1>4, PaysUnseen DEF BInv, Within

(* p adds plus and takes off minus; what a purchase has then is paid.      *)
LEMMA ChangesPay ==
  ASSUME IInv, BInv, NEW p \in Procs, proc[p].pc # "idle", NEW plus, NEW minus, NEW next,
         Changes(p, plus, minus, next), book' = book, plus \subseteq Abilities,
         DOMAIN next = Fields, next.crossed = proc[p].crossed, next.op = proc[p].op, next.pc # "grant",
         next.plus = proc[p].plus, next.minus = proc[p].minus, next.have \subseteq Abilities,
         proc[p].op = "buy" /\ next.sure /\ ~next.crossed =>
           /\ minus = {} /\ next.minus = {} /\ 0 <= Left(book, View(proc[p]) \cup plus)
           /\ next.pc = "spend" => next.px \in Int /\ next.px <= Left(book, next.have)
  PROVE  BInv'
<1>1. CASE proc[p].op \in Transactions
  <2> DEFINE added == (proc[p].plus \cup plus) \ minus
             taken == (proc[p].minus \ plus) \cup minus
             x == [next EXCEPT !.plus = added, !.minus = taken]
  <2>1. proc' = [proc EXCEPT ![p] = x] /\ held' = held
    BY <1>1 DEF Changes, Fields
  <2>2. added \subseteq Abilities
    BY DEF BInv, Within
  <2>3. minus = {} /\ next.minus = {} => taken = {} /\ (held \ taken) \cup added = View(proc[p]) \cup plus
    BY DEF View
  <2> HIDE DEF added, taken
  <2>4. /\ x.crossed = next.crossed /\ x.op = proc[p].op /\ x.pc = next.pc /\ x.sure = next.sure
        /\ x.plus = added /\ x.minus = taken /\ x.have = next.have /\ x.px = next.px
    BY DEF Fields
  <2> HIDE DEF x
  <2>5. p \in Requests => Paid(x, book, held)
    <3> SUFFICES ASSUME x.op = "buy", x.sure, ~x.crossed PROVE Paid(x, book, held)
      BY DEF Paid
    <3>1. (held \ x.minus) \cup x.plus = View(proc[p]) \cup plus /\ x.minus = {}
      BY <2>3, <2>4
    <3> QED BY <2>4, <3>1 DEF Paid
  <2> QED BY <2>1, <2>2, <2>4, <2>5, PaysUnseen
<1>2. CASE proc[p].op \notin Transactions
  <2>1. /\ held' = (held \cup plus) \ minus
        /\ proc' = [(IF held' = held THEN proc ELSE CrossedBy(p)) EXCEPT ![p] = next]
    BY <1>2 DEF Changes
  <2>2. held' \subseteq Abilities /\ next.plus \subseteq Abilities
    BY <2>1 DEF BInv, Within
  <2>3. next.op # "buy"
    BY <1>2 DEF Transactions
  <2> QED BY <2>1, <2>2, <2>3, NotBuying, OthersPay
<1> QED BY <1>1, <1>2

LEMMA GrantPays ==
  ASSUME IInv, BInv, Gentle(book), NEW p \in Procs, Grant(p)
  PROVE  BInv'
<1> DEFINE h == proc[p].have
           gained == {a \in Available(book, h, 0) : a \notin proc[p].listed}
           now == h \cup gained
           listed == proc[p].listed \cup gained
           free0 == {b \in now \cap listed : Cost(book, now, b) > 0}
           lost == UNION {Withdrawn(book, View(proc[p]) \cup gained, a) : a \in free0}
           next == Known(p, now \ lost, listed \ lost)
<1>0. Sums(proc[p]) /\ proc[p].pc = "grant" /\ book.free /\ book \in Books
  BY Calculating DEF Grant, IInv, Shape
<1>1. Changes(p, gained, lost, next) /\ book' = book
  BY DEF Grant
<1>2. gained \subseteq Abilities /\ now \subseteq Abilities /\ now \ lost \subseteq Abilities /\ h \subseteq Abilities
  BY DEF Available, BInv, Within
<1>3. \A a \in gained : Cost(book, h, a) = 0
  BY <1>0, CostIs DEF Available
<1> HIDE DEF gained, lost, next
<1>4. /\ DOMAIN next = Fields /\ next.crossed = proc[p].crossed /\ next.op = proc[p].op
      /\ next.plus = proc[p].plus /\ next.minus = proc[p].minus /\ next.have = now \ lost
      /\ next.pc \in {"total", "store"}
  BY <1>0, KnownShape DEF next
<1>5. next.sure = proc[p].sure
  BY <1>0, KnownPays DEF next
<1>6. ASSUME proc[p].op = "buy", next.sure, ~next.crossed
      PROVE  lost = {} /\ next.minus = {} /\ 0 <= Left(book, View(proc[p]) \cup gained)
  <2>1. p \in Requests
    <3>1. p # Worker \/ proc[p].op = "task"
      BY <1>0, Calculating DEF Doing
    <3> QED BY <1>6, <3>1 DEF Procs
  <2>2. /\ proc[p].minus = {} /\ 0 <= Left(book, (held \ proc[p].minus) \cup proc[p].plus)
        /\ \A a \in proc[p].listed : Cost(book, held, a) = 0
    BY <1>0, <1>4, <1>5, <1>6, <2>1 DEF BInv, Paid
  <2>3. h = View(proc[p]) /\ View(proc[p]) = (held \ proc[p].minus) \cup proc[p].plus
    BY <1>0, <1>4, <1>6 DEF Sums, View
  <2>4. held \subseteq now /\ h \subseteq now /\ held \subseteq Abilities
    BY <2>2, <2>3 DEF BInv, Within
  <2>5. \A b \in now \cap listed : Cost(book, now, b) = 0
    <3> SUFFICES ASSUME NEW b \in now \cap listed PROVE Cost(book, now, b) = 0
      OBVIOUS
    <3>1. b \in Abilities
      BY <1>2
    <3>2. Cost(book, now, b) <= Cost(book, held, b) /\ Cost(book, now, b) <= Cost(book, h, b)
      <4> HIDE DEF now, h
      <4> QED BY <1>0, <2>4, <3>1, CostFalls DEF Gentle
    <3>3. Cost(book, held, b) = 0 \/ Cost(book, h, b) = 0
      BY <1>3, <2>2
    <3> HIDE DEF now, h
    <3>4. Cost(book, now, b) \in Nat /\ Cost(book, held, b) \in Nat /\ Cost(book, h, b) \in Nat
      BY <1>0, <3>1, CostIs
    <3> QED BY <3>2, <3>3, <3>4
  <2>6. lost = {}
    BY <2>5 DEF lost
  <2>7. Left(book, h \cup gained) \in Int /\ Left(book, h \cup gained) >= Left(book, h)
    <3> HIDE DEF h
    <3> QED BY <1>0, <1>2, <1>3, LeftAfterFree
  <2>8. Left(book, h) \in Int
    BY <1>0, <1>2, LeftType DEF Gentle
  <2> HIDE DEF h
  <2> QED BY <1>4, <2>2, <2>3, <2>6, <2>7, <2>8
<1> HIDE DEF now, h
<1> QED BY <1>0, <1>1, <1>2, <1>4, <1>6, ChangesPay

LEMMA AutoBuyPays ==
  ASSUME IInv, BInv, Gentle(book), NEW p \in Procs, NEW a \in Abilities, AutoBuy(p, a)
  PROVE  BInv'
<1> DEFINE h == proc[p].have
           cost == Cost(book, h, a)
           px == proc[p].px - cost
           have == h \cup {a}
           next == [proc[p] EXCEPT !.have = have, !.px = px]
<1>0. DOMAIN proc[p] = Fields /\ Sums(proc[p]) /\ proc[p].pc = "spend" /\ book \in Books
  BY Calculating DEF AutoBuy, IInv, Shape
<1>1. Changes(p, {a}, {}, next) /\ book' = book
  BY <1>0 DEF AutoBuy, Fields
<1>2. a \notin h /\ cost <= proc[p].px /\ h \subseteq Abilities /\ have \subseteq Abilities
  BY DEF AutoBuy, Affordable, Available, BInv, Within
<1>3. cost \in Nat
  BY <1>0, CostIs
<1>4. Left(book, have) \in Int /\ Left(book, have) >= Left(book, h) - cost /\ Left(book, h) \in Int
  <2> HIDE DEF h
  <2> QED BY <1>0, <1>2, LeftAfterOne, LeftType DEF Gentle
<1> HIDE DEF cost, px, have
<1>5. /\ next.crossed = proc[p].crossed /\ next.op = proc[p].op /\ next.pc = "spend" /\ next.sure = proc[p].sure
      /\ next.plus = proc[p].plus /\ next.minus = proc[p].minus /\ next.have = have /\ next.px = px
      /\ DOMAIN next = Fields
  BY <1>0 DEF Fields
<1> HIDE DEF next
<1>6. ASSUME proc[p].op = "buy", next.sure, ~next.crossed
      PROVE  /\ next.minus = {} /\ 0 <= Left(book, View(proc[p]) \cup {a})
             /\ px \in Int /\ px <= Left(book, have)
  <2>1. p \in Requests
    <3>1. p # Worker \/ proc[p].op = "task"
      BY <1>0, Calculating DEF Doing
    <3> QED BY <1>6, <3>1 DEF Procs
  <2>2. proc[p].minus = {} /\ proc[p].px \in Int /\ proc[p].px <= Left(book, h)
    BY <1>0, <1>5, <1>6, <2>1 DEF BInv, Paid
  <2>3. View(proc[p]) \cup {a} = have
    BY <1>0, <1>5, <1>6 DEF Sums, have
  <2> HIDE DEF h
  <2>4. px \in Int /\ px <= Left(book, have) /\ 0 <= px
    BY <1>2, <1>3, <1>4, <2>2 DEF px
  <2>5. 0 <= Left(book, have)
    BY <1>4, <2>4
  <2> QED BY <1>5, <2>2, <2>3, <2>4, <2>5
<1>7. {a} \subseteq Abilities
  OBVIOUS
<1> QED BY <1>0, <1>1, <1>2, <1>5, <1>6, <1>7, ChangesPay

LEMMA StorePays ==
  ASSUME IInv, BInv, NEW p \in Procs, Store(p)
  PROVE  BInv'
<1>1. /\ held' = View(proc[p]) /\ book' = book
      /\ proc' = [(IF held' = held THEN proc ELSE CrossedBy(p)) EXCEPT ![p] = Idle]
  BY DEF Store
<1>2. held' \subseteq Abilities
  BY <1>1 DEF View, BInv, Within
<1> QED BY <1>1, <1>2, IdleShape, IdlePays, NotBuying, OthersPay

LEMMA KillPays ==
  ASSUME IInv, BInv, NEW p \in Procs, Kill(p)
  PROVE  BInv'
BY IdleShape, IdlePays, NotBuying, PaysUnseen DEF Kill

LEMMA AlterPays ==
  ASSUME IInv, BInv, NEW b, Alter(b)
  PROVE  BInv'
<1>0. DOMAIN proc = Procs /\ \A o \in Procs : DOMAIN proc[o] = Fields
  BY IdleShape DEF IInv, Shape
<1>1. proc' = CrossedBy(None) /\ held' = held
  BY DEF Alter
<1>2. ASSUME NEW o \in Procs
      PROVE  /\ proc'[o].plus = proc[o].plus /\ proc'[o].have = proc[o].have
             /\ proc'[o].pc # "idle" => proc'[o].crossed
  <2> DEFINE c == proc[o].crossed \/ (o # None /\ proc[o].pc # "idle")
  <2>0. proc[o].pc # "idle" => c BY ConstantsAssumption
  <2>1. proc'[o] = [proc[o] EXCEPT !.crossed = c]
    BY <1>1 DEF CrossedBy
  <2> HIDE DEF c
  <2> QED BY <1>0, <2>0, <2>1 DEF Fields
<1>3. Within'
  BY <1>1, <1>2 DEF BInv, Within
<1>4. \A q \in Requests : Paid(proc'[q], book', held')
  BY <1>2 DEF Paid, Procs
<1> QED BY <1>3, <1>4 DEF BInv

LEMMA InitPays == Init => BInv
<1> SUFFICES ASSUME Init PROVE BInv OBVIOUS
<1>1. held = {} /\ \A p \in Procs : proc[p] = Idle
  BY DEF Init
<1>2. \A q \in Requests : Paid(proc[q], book, held)
  BY <1>1, IdleShape DEF Paid, Procs
<1> QED BY <1>1, <1>2, IdlePays DEF BInv, Within

LEMMA NextPays == IInv /\ BInv /\ Gentle(book) /\ GivenIsFree /\ [Next]_vars => BInv'
<1> SUFFICES ASSUME IInv, BInv, Gentle(book), GivenIsFree, [Next]_vars PROVE BInv' OBVIOUS
<1>1. ASSUME NEW p \in Procs, Step(p) PROVE BInv'
  BY <1>1, LookPays, GrantPays, KeepFreePays, SumPays, EndRoundPays, StorePays, AutoBuyPays DEF Step
<1>2. ASSUME NEW p \in Procs, Kill(p) PROVE BInv'
  BY <1>2, KillPays
<1>3. ASSUME NEW q \in Requests, NEW a \in Abilities, Buy(q, a) \/ Undo(q, a) PROVE BInv'
  BY <1>3, BuyPays, BeginPays DEF Procs
<1>4. ASSUME NEW q \in Requests, NEW a \in Abilities, NEW h \in {held, held \cup {a}, held \ {a}}, SaveCharacter(q, h)
      PROVE  BInv'
  <2>1. h \subseteq Abilities
    BY DEF BInv, Within
  <2> QED BY <1>4, <2>1, SaveCharacterPays
<1>5. CASE Run BY <1>5, BeginPays DEF Procs
<1>6. ASSUME NEW a \in Abilities, NEW c \in Costs, Reprice(a, c) PROVE BInv'
  BY <1>6, AlterPays DEF Reprice
<1>7. ASSUME NEW n \in Deliveries, Deliver(n) PROVE BInv'
  BY <1>7, AlterPays DEF Deliver
<1>8. CASE UNCHANGED vars
  BY <1>8 DEF vars, BInv, Within
<1>9. CASE Next
  BY <1>1, <1>2, <1>3, <1>4, <1>5, <1>6, <1>7, <1>9 DEF Next
<1> QED BY <1>8, <1>9

(* A step that changes the abilities and ends a purchase is its commit.    *)
LEMMA CommitsAlone ==
  ASSUME IInv, [Next]_vars, NEW q \in Requests, Bought(q), held' # held
  PROVE  Store(q)
<1>0. /\ DOMAIN proc = Procs /\ \A p \in Procs : DOMAIN proc[p] = Fields
      /\ q \in Procs /\ proc[q].pc = "store" /\ proc'[q].pc = "idle"
  BY IdleShape DEF IInv, Shape, Bought, Procs
<1>1. ASSUME NEW p \in Procs, p # q, NEW x, proc' = [(IF held' = held THEN proc ELSE CrossedBy(p)) EXCEPT ![p] = x]
      PROVE  FALSE
  <2> DEFINE c == proc[q].crossed \/ (q # p /\ proc[q].pc # "idle")
  <2>1. proc'[q] = [proc[q] EXCEPT !.crossed = c]
    BY <1>0, <1>1 DEF CrossedBy
  <2> HIDE DEF c
  <2> QED BY <1>0, <2>1 DEF Fields
<1>2. ASSUME NEW p \in Procs, proc[p].pc # "store", NEW plus, NEW minus, NEW next, Changes(p, plus, minus, next)
      PROVE  FALSE
  <2>1. p # q
    BY <1>0, <1>2
  <2>2. proc' = [(IF held' = held THEN proc ELSE CrossedBy(p)) EXCEPT ![p] = next]
    BY <1>2 DEF Changes
  <2> QED BY <1>1, <2>1, <2>2
<1>3. ASSUME NEW p \in Procs, Grant(p) PROVE FALSE
  BY <1>2, <1>3 DEF Grant
<1>4. ASSUME NEW p \in Procs, NEW a \in Abilities, AutoBuy(p, a) PROVE FALSE
  BY <1>2, <1>4 DEF AutoBuy
<1>5. ASSUME NEW p \in Procs, p # q, Store(p) PROVE FALSE
  BY <1>1, <1>5 DEF Store
<1>6. ASSUME NEW p \in Requests, NEW h, SaveCharacter(p, h) PROVE FALSE
  <2>1. p # q /\ p \in Procs
    BY <1>0, <1>6 DEF SaveCharacter, Procs
  <2> QED BY <1>1, <1>6, <2>1 DEF SaveCharacter
<1>7. \A p \in Procs : ~Look(p) /\ ~KeepFree(p) /\ ~Sum(p) /\ ~EndRound(p) /\ ~Kill(p)
  BY DEF Look, KeepFree, Sum, EndRound, Kill
<1>8. \A p \in Requests, a \in Abilities : ~Buy(p, a) /\ ~Undo(p, a)
  BY DEF Buy, Undo
<1>9. ~Run /\ (\A a \in Abilities, c \in Costs : ~Reprice(a, c)) /\ (\A n \in Deliveries : ~Deliver(n))
  BY DEF Run, Reprice, Deliver, Alter
<1>10. ~UNCHANGED vars
  BY DEF vars
<1> QED BY <1>3, <1>4, <1>5, <1>6, <1>7, <1>8, <1>9, <1>10 DEF Next, Step

(* Where the rules only discount and add, and what was given for free      *)
(* stays free, a purchase that found the right number stored and met no    *)
(* change leaves nobody below zero, whatever the system gives and buys     *)
(* after it (_save_character_abilities, _auto_buy_abilities).              *)
THEOREM PurchasesArePaid == Spec /\ [](Gentle(book) /\ GivenIsFree) => BuysWithinPoints
<1> DEFINE Sound == \A q \in Requests :
             Bought(q) /\ proc[q].sure /\ ~proc[q].crossed /\ held' # held => Left(book, held)' >= 0
<1>1. IInv /\ BInv /\ Gentle(book) /\ [Next]_vars => Sound
  <2> SUFFICES ASSUME IInv, BInv, Gentle(book), [Next]_vars,
                      NEW q \in Requests, Bought(q), proc[q].sure, ~proc[q].crossed, held' # held
               PROVE  Left(book, held)' >= 0
    OBVIOUS
  <2>1. held' = (held \ proc[q].minus) \cup proc[q].plus /\ book' = book
    BY CommitsAlone DEF Store, View
  <2>2. 0 <= Left(book, (held \ proc[q].minus) \cup proc[q].plus)
    BY DEF BInv, Paid, Bought
  <2>3. Left(book, (held \ proc[q].minus) \cup proc[q].plus) \in Int
    <3>1. (held \ proc[q].minus) \cup proc[q].plus \subseteq Abilities
      BY DEF BInv, Within, Procs
    <3> QED BY <3>1, LeftType DEF Gentle, IInv, Shape
  <2>4. Left(book', held') >= 0
    BY <2>1, <2>2, <2>3
  <2> QED BY <2>4
<1> QED BY <1>1, InitPays, NextPays, Invariant, PTL DEF Spec, BuysWithinPoints
=============================================================================
