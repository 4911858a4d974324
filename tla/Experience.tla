----------------------------- MODULE Experience -----------------------------
(***************************************************************************)
(* The experience points of one character.  Deliveries give points,        *)
(* abilities cost them; what is left is worked out by                      *)
(* calculate_character_experience_points (utils/services/experience.py),   *)
(* which also gives the abilities that cost nothing, withdraws those that  *)
(* were free and no longer are, buys what it can if the event says so, and *)
(* stores the result as a configuration of the character.  The player buys *)
(* against the stored number.  A purchase locks the character; removals,   *)
(* saves of the character and the background task do not.                  *)
(***************************************************************************)
EXTENDS Integers, Sequences, FiniteSets, FiniteSetsExt

CONSTANTS
  Abilities, Requests, Worker, None,
  Costs, Deliveries,  \* what an ability may come to cost, what may be delivered
  Instances           \* what the organizers may have set up, what was delivered, and
                      \* how many requests, changes and kills there are

Procs == Requests \cup {Worker}

(* needs: prerequisites; visible: for sale; modifiers: other costs for who *)
(* has some abilities, in order; criterions: operations on the total, in   *)
(* order; free: abilities of cost 0 are given; autobuy: exp_auto_buy;      *)
(* points: what was delivered to the character, with those of the start.   *)
Books ==
  [cost : [Abilities -> Nat], points : Nat, needs : [Abilities -> SUBSET Abilities], visible : SUBSET Abilities,
   modifiers : Seq([of : Abilities, needs : SUBSET Abilities, cost : Nat]),
   criterions : Seq([needs : SUBSET Abilities, op : {"ADD", "MUL"}, amount : Nat]),
   free : BOOLEAN, autobuy : BOOLEAN]

ASSUME ConstantsAssumption ==
  /\ IsFiniteSet(Abilities) /\ Worker \notin Requests /\ None \notin Procs
  /\ Costs \subseteq Nat /\ Deliveries \subseteq Nat
  /\ Instances \subseteq
       [book : Books, left : [requests : Nat, changes : Nat, kills : Nat]]

VARIABLES
  book,    \* the rules of the event, and what was delivered
  held,    \* the character's abilities, as committed
  free,    \* the configuration free_abilities
  avail,   \* the configuration exp_avail
  recent,  \* abilities bought, which may be undone
  queued,  \* a recalculation of the event is queued, or runs
  lock,    \* who has locked the character
  config,  \* who has written its configuration and has not committed
  proc,    \* the calculations under way
  doubt,   \* the stored number comes from a calculation that was overtaken
  loose,   \* abilities were set by hand, or by a calculation that was overtaken
  left     \* what remains of the bounds

vars == <<book, held, free, avail, recent, queued, lock, config, proc, doubt, loose, left>>

-----------------------------------------------------------------------------
(* The first modifier whose conditions are met sets the cost.              *)
Cost(b, h, a) ==
  LET meets == {n \in DOMAIN b.modifiers : b.modifiers[n].of = a /\ b.modifiers[n].needs \subseteq h}
  IN  IF meets = {} THEN b.cost[a] ELSE b.modifiers[Min(meets)].cost

Used(b, h) == SumFunctionOnSet([a \in Abilities |-> Cost(b, h, a)], h)

(* The criterions that are met change the total one after the other.       *)
Applied(c, h, tot) ==
  CASE ~(c.needs \subseteq h) -> tot
    [] c.op = "ADD"           -> tot + c.amount
    [] OTHER                  -> tot * c.amount

Total(b, h) ==
  LET tot[n \in 0..Len(b.criterions)] ==
        IF n = 0 THEN b.points ELSE Applied(b.criterions[n], h, tot[n - 1])
  IN  tot[Len(b.criterions)]

Left(b, h) == Total(b, h) - Used(b, h)

UnlockedOnly(b, h, px) ==  \* mutant: the cost is not compared
  {a \in Abilities \ h : a \in b.visible /\ b.needs[a] \subseteq h}

Available(b, h, px) ==
  {a \in Abilities \ h : a \in b.visible /\ b.needs[a] \subseteq h /\ Cost(b, h, a) <= px}

WithdrawnAlone(b, h, a) == {a}  \* mutant: what depends on it stays

(* An ability and whatever needs it, directly or not.                      *)
Upwards(b, h, a, s) == a \in s /\ \A c \in h : b.needs[c] \cap s # {} => c \in s
Withdrawn(b, h, a) == {c \in h \cup {a} : \A s \in SUBSET (h \cup {a}) : Upwards(b, h, a, s) => c \in s}

-----------------------------------------------------------------------------
(* A calculation: op is what began it; plus and minus what its transaction *)
(* has changed and nobody sees; seen and listed what it read of held and   *)
(* free, have what it believes the character has; px, start and used its   *)
(* sums; crossed: something it may have read was changed since.            *)
Idle == [op |-> "none", pc |-> "idle", of |-> None, plus |-> {}, minus |-> {}, have |-> {}, listed |-> {},
         px |-> 0, start |-> {}, used |-> 0, sure |-> FALSE, crossed |-> FALSE]

Transactions == {"buy", "undo"}
View(x) == (held \ x.minus) \cup x.plus

CrossedBy(p) ==
  [q \in Procs |-> [proc[q] EXCEPT !.crossed = @ \/ (q # p /\ proc[q].pc # "idle")]]

(* What p adds to the abilities and takes off them: seen by others at once *)
(* unless p is a transaction.  next is where p stands then.                *)
Changes(p, plus, minus, next) ==
  IF proc[p].op \in Transactions
  THEN /\ proc' = [proc EXCEPT ![p] = [next EXCEPT !.plus = (@ \cup plus) \ minus,
                                                   !.minus = (@ \ plus) \cup minus]]
       /\ UNCHANGED <<held, loose>>
  ELSE /\ held' = (held \cup plus) \ minus
       /\ proc' = [(IF held' = held THEN proc ELSE CrossedBy(p)) EXCEPT ![p] = next]
       /\ loose' = (loose \/ (next.crossed /\ plus # {}))

(* Adding an ability refers to the character's row.                        *)
RowFree(p) == lock \in {None, p}

Asks(q, record) ==
  /\ q \in Requests /\ proc[q].pc = "idle" /\ left.requests > 0
  /\ left' = [left EXCEPT !.requests = @ - 1]
  /\ proc' = [proc EXCEPT ![q] = record]

(* _save_character_abilities: under the lock of the character, against the *)
(* number that was stored last.                                            *)
Buy(q, a) ==
  /\ lock = None /\ a \in Available(book, held, avail)
  /\ lock' = q
  /\ Asks(q, [Idle EXCEPT !.op = "buy", !.pc = "look", !.of = a, !.plus = {a},
                          !.sure = (avail = Left(book, held) /\ ~queued)])
  /\ UNCHANGED <<book, held, free, avail, recent, queued, config, doubt, loose>>

(* character_abilities_del, without a lock.  The configuration was read    *)
(* before, for the list of what may be undone.                             *)
Undo(q, a) ==
  /\ a \in recent
  /\ Asks(q, [Idle EXCEPT !.op = "undo", !.pc = "look", !.minus = Withdrawn(book, held, a), !.listed = free])
  /\ UNCHANGED <<book, held, free, avail, recent, queued, lock, config, doubt, loose>>

(* A form of the character is saved, in which organizers may also set its  *)
(* abilities; no transaction.                                              *)
SaveCharacter(q, h) ==
  /\ h = held \/ RowFree(q)
  /\ q \in Requests /\ proc[q].pc = "idle" /\ left.requests > 0
  /\ left' = [left EXCEPT !.requests = @ - 1]
  /\ held' = h /\ loose' = (loose \/ h # held)
  /\ proc' = [(IF h = held THEN proc ELSE CrossedBy(q)) EXCEPT ![q] = [Idle EXCEPT !.op = "save", !.pc = "look"]]
  /\ UNCHANGED <<book, free, avail, recent, queued, lock, config, doubt>>

(* calculate_event_experience_points_bgk.                                  *)
Run ==
  /\ queued /\ proc[Worker].pc = "idle"
  /\ proc' = [proc EXCEPT ![Worker] = [Idle EXCEPT !.op = "task", !.pc = "look"]]
  /\ UNCHANGED <<book, held, free, avail, recent, queued, lock, config, doubt, loose, left>>

-----------------------------------------------------------------------------
(* _handle_free_abilities reads the list of free abilities and those held. *)
Look(p) ==
  /\ proc[p].pc = "look"
  /\ proc' = [proc EXCEPT ![p].pc = "grant", ![p].have = View(proc[p]),
                          ![p].listed = IF proc[p].op = "undo" THEN @ ELSE free]
  /\ UNCHANGED <<book, held, free, avail, recent, queued, lock, config, doubt, loose, left>>

UsedBefore(p, h) == Used(book, proc[p].have)  \* mutant: the list of before is summed
Summed(p, h) == Used(book, h)

(* Where a calculation goes on once it knows that the character has h.     *)
Known(p, h, listed) ==
  [proc[p] EXCEPT !.pc = IF book.autobuy THEN "total" ELSE "store", !.have = h, !.listed = listed,
                  !.used = Summed(p, h)]

(* What costs nothing is added, what was free and is not any more is       *)
(* removed with all that needs it; the list is written, which waits for    *)
(* other transactions that wrote it.                                       *)
Grant(p) ==
  LET h      == proc[p].have
      gained == {a \in Available(book, h, 0) : a \notin proc[p].listed}
      now    == h \cup gained
      listed == proc[p].listed \cup gained
      lost   == UNION {Withdrawn(book, View(proc[p]) \cup gained, a) : a \in {b \in now \cap listed : Cost(book, now, b) > 0}}
  IN  /\ proc[p].pc = "grant" /\ book.free
      /\ config = None /\ (gained = {} \/ RowFree(p))
      /\ Changes(p, gained, lost, Known(p, now \ lost, listed \ lost))
      /\ IF proc[p].op \in Transactions THEN config' = p /\ UNCHANGED free
                                        ELSE free' = listed \ lost /\ UNCHANGED config
      /\ UNCHANGED <<book, avail, recent, queued, lock, doubt, left>>

(* exp_no_free: nothing is given or withdrawn.                             *)
KeepFree(p) ==
  /\ proc[p].pc = "grant" /\ ~book.free
  /\ proc' = [proc EXCEPT ![p] = Known(p, proc[p].have, proc[p].listed)]
  /\ UNCHANGED <<book, held, free, avail, recent, queued, lock, config, doubt, loose, left>>

(* The outer loop of exp_auto_buy: what is left is worked out anew.        *)
Sum(p) ==
  /\ proc[p].pc = "total"
  /\ proc' = [proc EXCEPT ![p].pc = "spend", ![p].px = Total(book, proc[p].have) - proc[p].used,
                          ![p].start = proc[p].have]
  /\ UNCHANGED <<book, held, free, avail, recent, queued, lock, config, doubt, loose, left>>

Affordable(p) == {a \in Available(book, proc[p].have, proc[p].px) : Cost(book, proc[p].have, a) > 0}

(* _auto_buy_abilities: the most expensive one, again and again.           *)
AutoBuy(p, a) ==
  LET h == proc[p].have
  IN  /\ proc[p].pc = "spend" /\ a \in Affordable(p) /\ RowFree(p)
      /\ \A b \in Affordable(p) : Cost(book, h, b) <= Cost(book, h, a)
      /\ Changes(p, {a}, {}, [proc[p] EXCEPT !.have = h \cup {a}, !.px = @ - Cost(book, h, a)])
      /\ UNCHANGED <<book, free, avail, recent, queued, lock, config, doubt, left>>

NeverAgain(p) == FALSE  \* mutant: one round of purchases
Again(p) == proc[p].have # proc[p].start

(* Nothing more can be had: another round if this one bought something,    *)
(* for what was bought may have changed the total.                         *)
EndRound(p) ==
  /\ proc[p].pc = "spend" /\ Affordable(p) = {}
  /\ proc' = [proc EXCEPT ![p].pc = IF Again(p) THEN "total" ELSE "store",
                          ![p].used = IF proc[p].have # proc[p].start THEN Used(book, proc[p].have) ELSE @]
  /\ UNCHANGED <<book, held, free, avail, recent, queued, lock, config, doubt, loose, left>>

(* _build_experience_data reads the deliveries again and the result is     *)
(* stored; a transaction commits with it.                                  *)
Store(p) ==
  /\ proc[p].pc = "store" /\ config \in {None, p}
  /\ avail' = Total(book, proc[p].have) - proc[p].used
  /\ held' = View(proc[p])
  /\ free' = IF proc[p].op \in Transactions /\ book.free THEN proc[p].listed ELSE free
  /\ recent' = IF proc[p].op = "buy" THEN recent \cup {proc[p].of} ELSE recent
  /\ queued' = (queued /\ p # Worker)
  /\ lock' = IF lock = p THEN None ELSE lock
  /\ config' = IF config = p THEN None ELSE config
  /\ doubt' = proc[p].crossed
  /\ loose' = (loose \/ (proc[p].crossed /\ held' # held))
  /\ proc' = [(IF held' = held THEN proc ELSE CrossedBy(p)) EXCEPT ![p] = Idle]
  /\ UNCHANGED <<book, left>>

(* A process is killed, or a transaction is aborted, as PostgreSQL does    *)
(* when a removal buys for itself, and waits for the character, while the  *)
(* purchase that locked it waits for the configuration.  The task of the   *)
(* worker stays queued.                                                    *)
Kill(p) ==
  /\ proc[p].pc # "idle" /\ left.kills > 0
  /\ left' = [left EXCEPT !.kills = @ - 1]
  /\ proc' = [proc EXCEPT ![p] = Idle]
  /\ lock' = IF lock = p THEN None ELSE lock
  /\ config' = IF config = p THEN None ELSE config
  /\ doubt' = (doubt \/ proc[p].op = "save")
  /\ UNCHANGED <<book, held, free, avail, recent, queued, loose>>

-----------------------------------------------------------------------------
QueueNothing == queued  \* mutant: the change is not recalculated
Queue == TRUE

(* An ability or a delivery is changed by an organizer: a recalculation is *)
(* queued, unless there is one, which may be past reading.                 *)
Alter(b) ==
  /\ left.changes > 0 /\ left' = [left EXCEPT !.changes = @ - 1]
  /\ book' = b /\ queued' = Queue
  /\ proc' = CrossedBy(None)
  /\ UNCHANGED <<held, free, avail, recent, lock, config, doubt, loose>>

Reprice(a, c) == book.cost[a] # c /\ Alter([book EXCEPT !.cost[a] = c])

Deliver(n) == book.points # n /\ Alter([book EXCEPT !.points = n])

(* A new character; the organizers' setup has queued a recalculation.      *)
Init ==
  /\ \E i \in Instances : book = i.book /\ left = i.left
  /\ held = {} /\ free = {} /\ avail = 0 /\ recent = {} /\ queued = TRUE
  /\ lock = None /\ config = None /\ proc = [p \in Procs |-> Idle]
  /\ doubt = FALSE /\ loose = FALSE

Step(p) ==
  \/ Look(p) \/ Grant(p) \/ KeepFree(p) \/ Sum(p) \/ EndRound(p) \/ Store(p)
  \/ \E a \in Abilities : AutoBuy(p, a)

Next ==
  \/ \E p \in Procs : Step(p) \/ Kill(p)
  \/ \E q \in Requests :
       \/ \E a \in Abilities : Buy(q, a) \/ Undo(q, a)
       \/ \E a \in Abilities : \E h \in {held, held \cup {a}, held \ {a}} : SaveCharacter(q, h)
  \/ Run
  \/ \E a \in Abilities, c \in Costs : Reprice(a, c)
  \/ \E n \in Deliveries : Deliver(n)

(* Requests go on once begun; the task processor is always restarted.      *)
Spec == Init /\ [][Next]_vars
FairSpec == Spec /\ \A p \in Procs : WF_vars(Step(p)) /\ WF_vars(Run)

-----------------------------------------------------------------------------
Active(p) == proc[p].pc # "idle"
Quiet == ~queued /\ \A p \in Procs : ~Active(p)

(* When nothing is under way, what is stored is what the character has     *)
(* left by the rules, unless the calculation that stored it was overtaken. *)
StoredIsRight == Quiet /\ ~doubt => avail = Left(book, held)

(* At every moment every ability has its prerequisites, unless abilities   *)
(* were set by hand or calculations overtook each other                    *)
(* (remove_char_ability: "Remove character ability and all dependent       *)
(* abilities").                                                            *)
Closed(b, s) == \A a \in s : b.needs[a] \subseteq s
PrerequisitesHeld == ~loose => Closed(book, held)

(* exp_auto_buy: it goes on "until no affordable non-free abilities        *)
(* remain", by the number that is stored.                                  *)
NoneToBuy(b, h, px) == b.autobuy => \A a \in Available(b, h, px) : ~(Cost(b, h, a) > 0)
NothingAffordable == Quiet /\ ~doubt => NoneToBuy(book, held, avail)

(* The inductive invariant.  The task is queued while it runs, and only    *)
(* transactions keep what they do to themselves.                           *)
Doing(p, x) ==
  x.pc # "idle" =>
    /\ p = Worker => queued /\ x.op = "task"
    /\ p # Worker => x.op \in {"buy", "undo", "save"}
    /\ x.op \notin Transactions => x.plus = {} /\ x.minus = {}

(* A calculation that nobody crossed knows what the character has, and its *)
(* sums are right for that.                                                *)
Sums(x) ==
  x.pc # "idle" /\ ~x.crossed =>
    /\ x.pc # "look" => x.have = View(x)
    /\ x.pc \in {"total", "store"} => x.used = Used(book, x.have)
    /\ x.pc = "spend" => /\ x.used = Used(book, x.start) /\ x.start \subseteq x.have
                         /\ x.have = x.start => x.px = Total(book, x.have) - x.used
    /\ x.pc = "store" => NoneToBuy(book, x.have, Total(book, x.have) - x.used)
    /\ ~loose => Closed(book, View(x))

(* Unless a calculation is still to come, the stored number is right.      *)
Settled ==
  \/ doubt \/ queued \/ \E p \in Procs : Active(p) /\ proc[p].op = "save"
  \/ avail = Left(book, held) /\ NoneToBuy(book, held, avail)

Shape ==
  /\ DOMAIN proc = Procs /\ \A p \in Procs : DOMAIN proc[p] = DOMAIN Idle /\ proc[p].crossed \in BOOLEAN
  /\ loose \in BOOLEAN /\ doubt \in BOOLEAN /\ queued \in BOOLEAN /\ book \in Books
IInv ==
  Shape /\ (\A p \in Procs : Doing(p, proc[p]) /\ Sums(proc[p])) /\ Settled /\ PrerequisitesHeld

(* A purchase that found the right number stored and met no change before  *)
(* its commit leaves nobody below zero (rules that only discount and add). *)
Bought(q) == proc[q].op = "buy" /\ proc[q].pc = "store" /\ proc'[q].pc = "idle"
BuysWithinPoints ==
  [][\A q \in Requests : Bought(q) /\ proc[q].sure /\ ~proc[q].crossed /\ held' # held => Left(book, held)' >= 0]_vars

(* What is stored is right in the end, unless it was stored last by a      *)
(* calculation that was overtaken.                                         *)
CatchesUp == <>[](avail = Left(book, held) \/ doubt)
=============================================================================
