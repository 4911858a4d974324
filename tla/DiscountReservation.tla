------------------------ MODULE DiscountReservation ------------------------
(* The discount codes of one run: a code reserves a use for fifteen minutes, *)
(* saving the registration confirms it, organizers add and remove uses, and  *)
(* every visit deletes the reservations that expired.                        *)
(*                                                                           *)
(* A use is an AccountingItemDiscount row.  Deleting it is a save of the     *)
(* copy that was read, with the mark of the soft delete; confirming it is a  *)
(* save of the copy without an expiry, which also takes the mark away.       *)
(* Only the row of the Discount is ever locked.                              *)
EXTENDS Integers, FiniteSets

CONSTANTS
    Members, Discounts,
    Requests,     \* requests that may be under way at once
    Serves,       \* [Requests -> SUBSET Operations]: what each of them runs
    Rows,         \* bound: rows of uses (a deleted row no request holds is used again)
    MaxRedeem,    \* [Discounts -> Nat], 0: no limit
    Type,         \* [Discounts -> DiscountTypes]
    OnlyNew,      \* discounts with only_reg: not for who is already registered
    Veterans,     \* members registered to another run of the event
    MaxCrashes,   \* bound: requests killed half way
    NoRequest, NoMember, NoDiscount, NoUse

Operations    == {"code", "list", "save", "add", "remove", "cancel"}
DiscountTypes == {"standard", "playagain", "friend", "influencer", "gift"}

ASSUME ConstantsAssumption ==
    /\ IsFiniteSet(Rows)
    /\ Serves \in [Requests -> SUBSET Operations]
    /\ MaxRedeem \in [Discounts -> Nat]
    /\ Type \in [Discounts -> DiscountTypes]
    /\ MaxCrashes \in Nat
    /\ NoRequest \notin Requests
    /\ NoMember \notin Members
    /\ NoDiscount \notin Discounts

Expiries == {"never", "later", "past"}
Use   == [disc : Discounts, member : Members, expires : Expiries, by : {"code", "organizer"}]
\* A row as a request read it, but for its expiry.
Copy  == [row : Rows, use : {u \in Use : u.expires = "never"}]
Local == [pc : {"idle", "delete", "create", "confirm", "insert"},
          op : Operations, member : Members \cup {NoMember}, disc : Discounts \cup {NoDiscount},
          copies : SUBSET Copy]
Idle  == [pc |-> "idle", op |-> "list", member |-> NoMember, disc |-> NoDiscount, copies |-> {}]

ASSUME NoUseAssumption == NoUse \notin Use

VARIABLES
    use,         \* [Rows -> Use \cup {NoUse}], the committed rows that are not deleted
    lock,        \* [Discounts -> Requests \cup {NoRequest}], owner of the row lock
    registered,  \* members with an active registration for the run
    revived,     \* rows brought back by a save of a copy after they were deleted
    req,         \* [Requests -> Local]
    crashes

vars == <<use, lock, registered, revived, req, crashes>>

Init ==
    /\ use = [i \in Rows |-> NoUse]
    /\ lock = [d \in Discounts |-> NoRequest]
    /\ registered = {}
    /\ revived = {}
    /\ req = [q \in Requests |-> Idle]
    /\ crashes = 0

-----------------------------------------------------------------------------
Live == {i \in Rows : use[i] # NoUse}
UsesOf(m) == {i \in Live : use[i].member = m}
UsesIn(d) == {i \in Live : use[i].disc = d}

\* Copies of rows.  The expiry of a copy is never written back: a delete marks
\* the row and a confirmation clears the expiry.
CopiesOf(rows) == {[row |-> i, use |-> [use[i] EXCEPT !.expires = "never"]] : i \in rows}
Held == {c.row : c \in UNION {req[q].copies : q \in Requests}}

Runs(q, op) == req[q].pc = "idle" /\ op \in Serves[q]

Start(q, op, pc, m, d, rows) ==
    req' = [req EXCEPT ![q] = [pc |-> pc, op |-> op, member |-> m, disc |-> d, copies |-> CopiesOf(rows)]]

StartDelete(q, op, m, d, rows) ==
    IF rows = {} /\ op # "code" THEN UNCHANGED req ELSE Start(q, op, "delete", m, d, rows)

GoTo(q, pc) == req' = [req EXCEPT ![q].pc = pc]

Finish(q) == req' = [req EXCEPT ![q] = Idle]

Unlock(q) == lock' = [d \in Discounts |-> IF lock[d] = q THEN NoRequest ELSE lock[d]]

\* The fifteen minutes of a reservation pass.
Elapse(i) ==
    /\ i \in Live /\ use[i].expires = "later"
    /\ use' = [use EXCEPT ![i].expires = "past"]
    /\ UNCHANGED <<lock, registered, revived, req, crashes>>

Expired == {i \in Live : use[i].expires = "past"}

\* discount: what expired, of whatever member, is deleted first, without a lock.
EnterCode(q, m, d) ==
    /\ Runs(q, "code")
    /\ StartDelete(q, "code", m, d, Expired)
    /\ UNCHANGED <<use, lock, registered, revived, crashes>>

\* discount_list: the page deletes what expired of its member.
ListUses(q, m, d) ==
    /\ Runs(q, "list")
    /\ StartDelete(q, "list", m, d, Expired \cap UsesOf(m))
    /\ UNCHANGED <<use, lock, registered, revived, crashes>>

\* orga_registration_discount_del: whatever rows the member has of the discount.
RemoveUse(q, m, d) ==
    /\ Runs(q, "remove") /\ m \in registered
    /\ StartDelete(q, "remove", m, d, UsesOf(m) \cap UsesIn(d))
    /\ UNCHANGED <<use, lock, registered, revived, crashes>>

\* cancel_reg: the date of cancellation first, then all the member's uses.
Cancel(q, m, d) ==
    /\ Runs(q, "cancel") /\ m \in registered
    /\ registered' = registered \ {m}
    /\ StartDelete(q, "cancel", m, d, UsesOf(m))
    /\ UNCHANGED <<use, lock, revived, crashes>>

RemainingOnly(q, copies) == [Idle EXCEPT !.pc = "delete", !.copies = copies]
\* A deletion ends with the last row; a code goes on from there.
Remaining(q, copies) ==
    IF copies = {} /\ req[q].op # "code" THEN Idle ELSE [req[q] EXCEPT !.copies = copies]

\* The queryset deletes one row after the other, each by a save of its copy.
DeleteOne(q, c) ==
    /\ req[q].pc = "delete" /\ c \in req[q].copies
    /\ use' = [use EXCEPT ![c.row] = NoUse]
    /\ revived' = revived \ {c.row}
    /\ req' = [req EXCEPT ![q] = Remaining(q, req[q].copies \ {c})]
    /\ UNCHANGED <<lock, registered, crashes>>

-----------------------------------------------------------------------------
\* The code's own deletion is done.
Purged(q) == req[q].pc = "delete" /\ req[q].op = "code" /\ req[q].copies = {}

LockFree(d) == TRUE
\* select_for_update on the row of the discount.
LockAvailable(d) == lock[d] = NoRequest

\* _is_discount_maxed, asked of discounts with a limit only.
Maxed(d) == MaxRedeem[d] > 0 /\ Cardinality(UsesIn(d)) > MaxRedeem[d]

HasType(m, type) == \E i \in UsesOf(m) : Type[use[i].disc] = type

\* _validate_exclusive_logic: "play again" goes with no other discount, and
\* is for who is registered to another run.
Combinable(d, m) ==
    IF Type[d] = "playagain" THEN UsesOf(m) = {} /\ m \in Veterans
                             ELSE ~HasType(m, "playagain")

\* _is_discount_invalid_for_registration, _is_discount_already_used.
UsedOrClosed(d, m) == (d \in OnlyNew /\ m \in registered) \/ UsesOf(m) \cap UsesIn(d) # {}

\* _check_discount
Refused(d, m) == UsedOrClosed(d, m) \/ HasType(m, Type[d]) \/ Maxed(d) \/ ~Combinable(d, m)

\* The row of the discount is locked and the rules are checked; if one fails
\* the transaction ends at once.
Deny(q) ==
    /\ Purged(q) /\ LockAvailable(req[q].disc)
    /\ Refused(req[q].disc, req[q].member)
    /\ Finish(q)
    /\ UNCHANGED <<use, lock, registered, revived, crashes>>

Accept(q) ==
    LET d == req[q].disc
    IN  /\ Purged(q) /\ LockAvailable(d)
        /\ ~Refused(d, req[q].member)
        /\ lock' = [lock EXCEPT ![d] = q]
        /\ GoTo(q, "create")
        /\ UNCHANGED <<use, registered, revived, crashes>>

\* objects.create: a row no request holds a copy of.
Insert(q, i, expires, by) ==
    /\ i \notin Live \cup Held
    /\ use' = [use EXCEPT ![i] = [disc |-> req[q].disc, member |-> req[q].member,
                                  expires |-> expires, by |-> by]]
    /\ revived' = revived \ {i}
    /\ Finish(q)

\* The reservation is committed, and the discount's row unlocked.
Reserve(q, i) ==
    /\ req[q].pc = "create"
    /\ Insert(q, i, "later", "code")
    /\ Unlock(q)
    /\ UNCHANGED <<registered, crashes>>

\* orga_registration_discount_add: get_or_create, under no lock.
AddUse(q, m, d) ==
    /\ Runs(q, "add") /\ m \in registered /\ UsesOf(m) \cap UsesIn(d) = {}
    /\ Start(q, "add", "insert", m, d, {})
    /\ UNCHANGED <<use, lock, registered, revived, crashes>>

InsertAdded(q, i) ==
    /\ req[q].pc = "insert"
    /\ Insert(q, i, "never", "organizer")
    /\ UNCHANGED <<lock, registered, crashes>>

-----------------------------------------------------------------------------
\* save_registration: the uses of the member that still expire are read ...
ReadUses(q, m, d) ==
    /\ Runs(q, "save")
    /\ Start(q, "save", "confirm", m, d, {i \in UsesOf(m) : use[i].expires # "never"})
    /\ UNCHANGED <<use, lock, registered, revived, crashes>>


\* ... and saved without it, whatever became of the rows since; the transaction
\* commits, with the registration.
Confirm(q) ==
    /\ req[q].pc = "confirm"
    /\ use' = [i \in Rows |-> IF \E c \in req[q].copies : c.row = i
                               THEN (CHOOSE c \in req[q].copies : c.row = i).use
                               ELSE use[i]]
    /\ revived' = revived \cup ({c.row : c \in req[q].copies} \ Live)
    /\ registered' = registered \cup {req[q].member}
    /\ Finish(q)
    /\ UNCHANGED <<lock, crashes>>

\* The worker is killed: its transaction is rolled back, its lock is freed.
Crash(q) ==
    /\ req[q].pc # "idle" /\ crashes < MaxCrashes
    /\ crashes' = crashes + 1
    /\ Finish(q) /\ Unlock(q)
    /\ UNCHANGED <<use, registered, revived>>

Begin(q, m, d) ==
    \/ EnterCode(q, m, d) \/ ListUses(q, m, d) \/ ReadUses(q, m, d)
    \/ AddUse(q, m, d) \/ RemoveUse(q, m, d) \/ Cancel(q, m, d)

Continue(q) ==
    \/ \E c \in req[q].copies : DeleteOne(q, c)
    \/ Deny(q) \/ Accept(q) \/ Confirm(q)
    \/ \E i \in Rows : Reserve(q, i) \/ InsertAdded(q, i)

Next ==
    \/ \E q \in Requests : Continue(q) \/ Crash(q)
    \/ \E q \in Requests, m \in Members, d \in Discounts : Begin(q, m, d)
    \/ \E i \in Rows : Elapse(i)

Spec == Init /\ [][Next]_vars

-----------------------------------------------------------------------------
TypeOK ==
    /\ use \in [Rows -> Use \cup {NoUse}]
    /\ lock \in [Discounts -> Requests \cup {NoRequest}]
    /\ registered \subseteq Members
    /\ revived \subseteq Rows
    /\ req \in [Requests -> Local]
    /\ \A q \in Requests : req[q].pc # "idle" => req[q].member \in Members /\ req[q].disc \in Discounts
    /\ crashes \in Nat

\* The uses a code gave and no late save brought back.
Granted(d) == {i \in UsesIn(d) : use[i].by = "code" /\ i \notin revived}

\* Codes never give more uses of a discount than its max_redeem, "the maximum
\* number of uses" by its help text.  The code gives one more: it asks for the
\* uses to be more than max_redeem.
UsesWithinMaximum == \A d \in Discounts : MaxRedeem[d] > 0 => Cardinality(Granted(d)) <= MaxRedeem[d]

\* A member who sends a code twice at once gets one use of it.
OncePerMember ==
    \A d \in Discounts : \A i, j \in Granted(d) : use[i].member = use[j].member => i = j

-----------------------------------------------------------------------------
\* Who is about to create a use owns the lock of the discount.
CreatorHoldsLock == \A q \in Requests : req[q].pc = "create" => lock[req[q].disc] = q

\* A row that a request holds a copy of is not taken for another use, and
\* the copies of a row agree.
CopiesMatch ==
    \A q \in Requests : \A c \in req[q].copies :
        /\ use[c.row] = NoUse \/ [use[c.row] EXCEPT !.expires = "never"] = c.use
        /\ \A p \in Requests : \A e \in req[p].copies : e.row = c.row => e.use = c.use

\* One use too many is all: whoever asks at once, expires or is confirmed
\* meanwhile, none is given beyond those.
CodeUsesBounded == \A d \in Discounts : MaxRedeem[d] > 0 => Cardinality(Granted(d)) <= MaxRedeem[d] + 1

\* What was found under the lock still holds when the row is created.
RoomFor(d, m) ==
    /\ \A i \in Granted(d) : use[i].member # m
    /\ MaxRedeem[d] > 0 => Cardinality(Granted(d)) <= MaxRedeem[d]

RoomIsKept ==
    \A q \in Requests, d \in Discounts, m \in Members :
        req[q].pc = "create" /\ req[q].disc = d /\ req[q].member = m => RoomFor(d, m)

IInv == TypeOK /\ CreatorHoldsLock /\ CopiesMatch /\ RoomIsKept /\ CodeUsesBounded /\ OncePerMember
=============================================================================
