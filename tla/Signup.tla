------------------------------- MODULE Signup -------------------------------
(***************************************************************************)
(* Signing up to a run: the registration form offers tickets from cached   *)
(* counts (cache/registration.py, forms/registration.py); saving it takes  *)
(* the row lock of the run and counts again, but only when the             *)
(* registration is new (views/user/registration.py); an existing           *)
(* registration is saved as the row the request read.  Each save clears    *)
(* the cached counts before its transaction commits.                       *)
(*                                                                         *)
(* reg holds the active registration of each member to one run; a          *)
(* cancelled one is None.  A request is one POST of the form: Validate     *)
(* builds and validates the form, SaveNew or SaveEdit executes the         *)
(* transaction up to its commit, Commit makes it visible.  What a          *)
(* transaction wrote is not seen by the others before (READ COMMITTED).    *)
(***************************************************************************)
EXTENDS Integers, FiniteSets, Functions

CONSTANTS
  Members, Requests, Owner,  \* the member who sends each request
  Tickets, Tier,             \* "player" or "waiting"
  Avail,                     \* max_available of a ticket, 0 is unlimited
  MaxPg, MaxWaiting,         \* places of the event, 0 is unlimited
  MaxSeats,                  \* one and the additional tickets of the form
  Ids,                       \* names of rows
  Editing,                   \* does the instance edit existing registrations?
  Approval,                  \* does the event ask for a signup request first?
  Linked,                    \* the tickets that a direct link is given out for
  None, NoTicket

ASSUME ConstantsAssumption ==
  /\ IsFiniteSet(Members) /\ Owner \in [Requests -> Members]
  /\ Tier \in [Tickets -> {"player", "waiting"}] /\ NoTicket \notin Tickets
  /\ Avail \in [Tickets -> Nat] /\ MaxPg \in Nat /\ MaxWaiting \in Nat
  /\ MaxSeats \in Nat \ {0}
  /\ Editing \in BOOLEAN /\ Approval \in BOOLEAN /\ Linked \subseteq Tickets
  /\ None \notin Requests /\ None \notin Ids

VARIABLES
  reg,        \* the active registrations
  submitted,  \* the row a payment waiting for confirmation is for
  counts,     \* the cached seats per ticket, None when the cache is empty
  lock,       \* the request that holds the lock of the run's row
  req         \* the requests under way

vars == <<reg, submitted, counts, lock, req>>

Row == [id : Ids, ticket : Tickets \cup {NoTicket}, seats : 1..MaxSeats, pending : BOOLEAN]

(* row is None for a new registration, or the id of the row that was read. *)
Form == [pc : {"valid", "saved"}, row : Ids \cup {None}, ticket : Tickets,
         seats : 1..MaxSeats, pending : BOOLEAN]

Idle == [pc |-> "idle"]

Active == {m \in Members : reg[m] # None}

(* What counts as a player: a signup request has no ticket, and SQL keeps  *)
(* the rows whose tier is NULL.                                            *)
IsPlayer(t) == t = NoTicket \/ Tier[t] = "player"

Players == {m \in Active : IsPlayer(reg[m].ticket)}

Seats(S, t) == SumFunctionOnSet([m \in S |-> reg[m].seats], {m \in S : reg[m].ticket = t})

CountsLeft == [t \in Tickets |-> Avail[t] - Seats(Active, t)]  \* mutant: caches what is left

(* What the cache is filled with: seats, and not the pending rows.         *)
Counts == [t \in Tickets |-> Seats({m \in Active : ~reg[m].pending}, t)]

TierSeats(c, tier) == SumFunctionOnSet(c, {t \in Tickets : Tier[t] = tier})

Primary(c) == MaxPg = 0 \/ TierSeats(c, "player") < MaxPg

WaitingOpen(c) == ~Primary(c) /\ (MaxWaiting = 0 \/ TierSeats(c, "waiting") < MaxWaiting)

Holds(m, t) == reg[m] # None /\ reg[m].ticket = t

HoldsTier(m, tier) == \E t \in Tickets : Tier[t] = tier /\ Holds(m, t)

(* The tickets of the form, by the counts it was built from.  A direct     *)
(* link to a ticket shows it as long as any place is left.                 *)
Offered(m, t, c) ==
  /\ reg[m] = None => Primary(c) \/ WaitingOpen(c)
  /\ Avail[t] = 0 \/ Holds(m, t) \/ c[t] < Avail[t]
  /\ \/ HoldsTier(m, Tier[t]) \/ t \in Linked
     \/ Tier[t] = "player"  /\ Primary(c)
     \/ Tier[t] = "waiting" /\ WaitingOpen(c)

FullOfPlayers(m, t) ==  \* mutant: counts the event, and not the ticket
  MaxPg > 0 /\ IsPlayer(t) /\ Cardinality(Players \ {m}) >= MaxPg

FullOfItself(m, t) ==  \* mutant: counts the registration that asks
  MaxPg > 0 /\ IsPlayer(t) /\ Cardinality(Players \cup {m}) >= MaxPg

FullOffByOne(m, t) ==  \* mutant: refuses one too late
  MaxPg > 0 /\ IsPlayer(t) /\ Cardinality(Players \ {m}) > MaxPg

(* The count under the lock: registrations for the event, seats already    *)
(* taken for the ticket.                                                   *)
Full(m, t) ==
  \/ MaxPg > 0 /\ IsPlayer(t) /\ Cardinality(Players \ {m}) >= MaxPg
  \/ Avail[t] > 0 /\ Seats(Active \ {m}, t) >= Avail[t]

Saved(q) == req[q].pc = "saved"

(* A transaction that wrote a row of the member makes the next one wait.   *)
RowFree(m) == \A q \in Requests : Saved(q) => Owner[q] # m

-----------------------------------------------------------------------------
Init ==
  /\ reg = [m \in Members |-> None]
  /\ submitted = [m \in Members |-> None]
  /\ counts = None
  /\ lock = None
  /\ req = [q \in Requests |-> Idle]

(* The form is built from the cached counts, which are filled on a miss,   *)
(* and validated.  Who has to ask for approval first reaches it only by a  *)
(* direct link.  pending is overwritten with whether a payment waits.      *)
Validate(q, t, s) ==
  LET m    == Owner[q]
      c    == IF counts = None THEN Counts ELSE counts
      form == [pc |-> "valid", ticket |-> t, seats |-> s,
               row     |-> IF reg[m] = None THEN None ELSE reg[m].id,
               pending |-> reg[m] # None /\ submitted[m] = reg[m].id]
  IN  /\ req[q] = Idle
      /\ IF reg[m] = None THEN Approval => t \in Linked ELSE Editing /\ ~reg[m].pending
      /\ Offered(m, t, c)
      /\ counts' = c
      /\ req' = [req EXCEPT ![q] = form]
      /\ UNCHANGED <<reg, submitted, lock>>

(* A new registration is inserted under the lock of the run, which other   *)
(* requests wait for.  It is refused when the member has one already (the  *)
(* unique constraint), or when the count under the lock finds no place.    *)
Insert(q) ==
  /\ req[q].pc = "valid" /\ req[q].row = None
  /\ lock = None /\ RowFree(Owner[q])

Duplicate(q) ==
  /\ Insert(q) /\ reg[Owner[q]] # None
  /\ req' = [req EXCEPT ![q] = Idle]
  /\ UNCHANGED <<reg, submitted, counts, lock>>

Deny(q) ==
  /\ Insert(q) /\ reg[Owner[q]] = None /\ Full(Owner[q], req[q].ticket)
  /\ req' = [req EXCEPT ![q] = Idle]
  /\ counts' = None
  /\ UNCHANGED <<reg, submitted, lock>>

SaveNew(q) ==
  /\ Insert(q) /\ reg[Owner[q]] = None /\ ~Full(Owner[q], req[q].ticket)
  /\ lock' = q
  /\ req' = [req EXCEPT ![q].pc = "saved"]
  /\ counts' = None
  /\ UNCHANGED <<reg, submitted>>

(* An existing registration is written as it was read, with the new        *)
(* choices, without the lock and without a count; the signal of a pending  *)
(* one leaves the cached counts.  The constraint refuses to bring a        *)
(* cancelled row back next to another active one.                          *)
Update(q) ==
  /\ req[q].pc = "valid" /\ req[q].row # None /\ RowFree(Owner[q])

SaveEdit(q) ==
  LET m == Owner[q] IN
  /\ Update(q) /\ (m \in Active => reg[m].id = req[q].row)
  /\ req' = [req EXCEPT ![q].pc = "saved"]
  /\ counts' = IF req[q].pending THEN counts ELSE None
  /\ UNCHANGED <<reg, submitted, lock>>

RejectEdit(q) ==
  LET m == Owner[q] IN
  /\ Update(q) /\ m \in Active /\ reg[m].id # req[q].row
  /\ req' = [req EXCEPT ![q] = Idle]
  /\ UNCHANGED <<reg, submitted, counts, lock>>

LockKept(q) == lock  \* mutant: the lock outlives its transaction

LockAfter(q) == IF lock = q THEN None ELSE lock

(* A new row has a name that nobody who read an older row knows it by.     *)
Fresh(m) == {i \in Ids : submitted[m] # i /\ \A q \in Requests : Owner[q] = m /\ req[q] # Idle
                                                              => req[q].row # i}

Commit(q) ==
  LET m == Owner[q]
      f == req[q]
  IN  /\ Saved(q)
      /\ \E i \in Ids :
           /\ IF f.row = None THEN i \in Fresh(m) ELSE i = f.row
           /\ reg' = [reg EXCEPT ![m] = [id |-> i, ticket |-> f.ticket, seats |-> f.seats,
                                         pending |-> f.pending]]
      /\ lock' = LockAfter(q)
      /\ req' = [req EXCEPT ![q] = Idle]
      /\ UNCHANGED <<submitted, counts>>

(* The worker dies, or what follows the save raises: all is rolled back.   *)
Fail(q) ==
  /\ Saved(q)
  /\ lock' = LockAfter(q)
  /\ req' = [req EXCEPT ![q] = Idle]
  /\ UNCHANGED <<reg, submitted, counts>>

(* A signup request: a pending registration, for which no signal runs.     *)
RequestSignup(m) ==
  /\ Approval /\ reg[m] = None /\ RowFree(m)
  /\ \E i \in Fresh(m) :
       reg' = [reg EXCEPT ![m] = [id |-> i, ticket |-> NoTicket, seats |-> 1, pending |-> TRUE]]
  /\ UNCHANGED <<submitted, counts, lock, req>>

Approve(m) ==
  /\ reg[m] # None /\ reg[m].pending /\ RowFree(m)
  /\ reg' = [reg EXCEPT ![m].pending = FALSE]
  /\ counts' = None
  /\ UNCHANGED <<submitted, lock, req>>

Cancel(m) ==
  /\ reg[m] # None /\ RowFree(m)
  /\ reg' = [reg EXCEPT ![m] = None]
  /\ counts' = IF reg[m].pending THEN counts ELSE None
  /\ UNCHANGED <<submitted, lock, req>>

(* A payment is declared for the registration, and later confirmed.        *)
DeclarePayment(m) ==
  /\ Editing /\ reg[m] # None /\ ~reg[m].pending /\ submitted[m] # reg[m].id
  /\ submitted' = [submitted EXCEPT ![m] = reg[m].id]
  /\ UNCHANGED <<reg, counts, lock, req>>

ConfirmPayment(m) ==
  /\ submitted[m] # None
  /\ submitted' = [submitted EXCEPT ![m] = None]
  /\ UNCHANGED <<reg, counts, lock, req>>

(* The cached counts live five minutes.                                    *)
Expire ==
  /\ counts # None
  /\ counts' = None
  /\ UNCHANGED <<reg, submitted, lock, req>>

Next ==
  \/ \E q \in Requests, t \in Tickets, s \in 1..MaxSeats : Validate(q, t, s)
  \/ \E q \in Requests : \/ Duplicate(q) \/ Deny(q) \/ SaveNew(q)
                         \/ SaveEdit(q) \/ RejectEdit(q) \/ Commit(q) \/ Fail(q)
  \/ \E m \in Members : \/ RequestSignup(m) \/ Approve(m) \/ Cancel(m)
                        \/ DeclarePayment(m) \/ ConfirmPayment(m)
  \/ Expire

Spec == Init /\ [][Next]_vars

(* A member goes on trying to get a player's place whenever the form       *)
(* offers one; the row lock is granted in the order it was asked for; not  *)
(* every attempt is killed; the cache times out.                           *)
PlayerForm(q) == \E t \in Tickets, s \in 1..MaxSeats : Tier[t] = "player" /\ Validate(q, t, s)

Answer(q) == Duplicate(q) \/ Deny(q) \/ SaveNew(q) \/ SaveEdit(q) \/ RejectEdit(q)

Fairness ==
  /\ \A q \in Requests : SF_vars(PlayerForm(q)) /\ SF_vars(Answer(q)) /\ SF_vars(Commit(q))
  /\ WF_vars(Expire)

FairSpec == Spec /\ Fairness

-----------------------------------------------------------------------------
TypeOK ==
  /\ reg \in [Members -> Row \cup {None}]
  /\ submitted \in [Members -> Ids \cup {None}]
  /\ counts \in [Tickets -> Nat] \cup {None}
  /\ lock \in Requests \cup {None}
  /\ req \in [Requests -> Form \cup {Idle}]

(* The event is never oversold: what every form was offered from stale     *)
(* counts, the count under the run's lock keeps the players within max_pg. *)
PlayersWithinCap == MaxPg > 0 => Cardinality(Players) <= MaxPg

(* A ticket that several may still hold by the cap of the event is never   *)
(* given to more registrations than its max_available, "the maximum number *)
(* of times it can be requested across all signups": the seats that are    *)
(* taken are counted again under the run's lock.  The seats may pass it,   *)
(* because those that the form itself asks for are not in the count.       *)
TicketWithinCap ==
  \A t \in Tickets : Avail[t] > 0 => Cardinality({m \in Active : reg[m].ticket = t}) <= Avail[t]

(* Every form that was sent is answered: the run's lock and the members'   *)
(* rows are taken in an order that never leaves two requests waiting for   *)
(* each other, and none is held when its request is over.                  *)
EveryFormIsAnswered == \A q \in Requests : (req[q].pc = "valid") ~> (req[q] = Idle)

(* A free place is not withheld for ever: neither counts that were cached  *)
(* between a save and its commit nor the lock keep a member out who goes   *)
(* on trying while the event has room.                                     *)
HasRoom(m) ==
  /\ reg[m] = None
  /\ MaxPg = 0 \/ SumFunctionOnSet([p \in Players |-> reg[p].seats], Players) < MaxPg
  /\ \E t \in Tickets : Tier[t] = "player" /\ (Avail[t] = 0 \/ Seats(Active, t) < Avail[t])

RoomIsFound == \A m \in Members : ~<>[]HasRoom(m)

=============================================================================
