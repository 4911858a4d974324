---------------------------- MODULE SignupProofs ----------------------------
(***************************************************************************)
(* Proofs about Signup, for every number of members, requests, tickets and *)
(* places: while nobody edits a registration, the count under the run's    *)
(* lock keeps each ticket within its max_available; while nobody asks for  *)
(* approval either, it keeps the event within max_pg.                      *)
(***************************************************************************)
EXTENDS Signup, SumLemmas

(* The seats of a ticket that the members of a set hold, with the          *)
(* registrations given.                                                    *)
SeatsOf(r, S, t) == SumFunctionOnSet([m \in S |-> r[m].seats], {m \in S : r[m].ticket = t})

LEMMA SeatsNatural ==
  ASSUME NEW r, NEW S, NEW t, IsFiniteSet(S), \A m \in S : r[m].seats \in 1..MaxSeats
  PROVE  /\ SeatsOf(r, S, t) \in Nat
         /\ Cardinality({m \in S : r[m].ticket = t}) <= SeatsOf(r, S, t)
  <1> DEFINE f == [m \in S |-> r[m].seats]
             H == {m \in S : r[m].ticket = t}
  <1>1. \A m \in H : f[m] \in Nat \ {0} /\ f[m] \in Nat
    BY ConstantsAssumption DEF ConstantsAssumption
  <1>2. IsFiniteSet(H)
    BY FS_Subset
  <1>3. SumFunctionOnSet(f, H) \in Nat /\ Cardinality(H) <= SumFunctionOnSet(f, H)
    <2> HIDE DEF f, H
    <2> QED BY <1>1, <1>2, SumNatural, CountAtMostSum
  <1>4. QED
    BY <1>3 DEF SeatsOf

(* Fewer holders of a ticket, with the same seats, have no more seats.     *)
LEMMA FewerSeats ==
  ASSUME NEW r, NEW S, NEW r1, NEW S1, NEW t, IsFiniteSet(S),
         \A m \in S : r[m].seats \in 1..MaxSeats,
         \A m \in S1 : r1[m].ticket = t =>
           m \in S /\ r[m].ticket = t /\ r1[m].seats = r[m].seats
  PROVE  /\ SeatsOf(r1, S1, t) <= SeatsOf(r, S, t)
         /\ {m \in S1 : r1[m].ticket = t} \subseteq {m \in S : r[m].ticket = t}
  <1> DEFINE f  == [m \in S |-> r[m].seats]
             f1 == [m \in S1 |-> r1[m].seats]
             H  == {m \in S : r[m].ticket = t}
             H1 == {m \in S1 : r1[m].ticket = t}
  <1>1. /\ H1 \subseteq H /\ H \subseteq S /\ \A m \in H : f[m] \in Nat /\ f[m] \in Int
        /\ \A m \in H1 : f1[m] = f[m]
    BY ConstantsAssumption DEF ConstantsAssumption
  <1>2. IsFiniteSet(H) /\ IsFiniteSet(H1)
    BY <1>1, FS_Subset
  <1>3. SumFunctionOnSet(f1, H1) <= SumFunctionOnSet(f, H)
    <2> HIDE DEF f, f1, H, H1
    <2>1. SumFunctionOnSet(f, H1) <= SumFunctionOnSet(f, H)
      BY <1>1, <1>2, SumOfPart
    <2>2. \A m \in H1 : f1[m] \in Int /\ f1[m] = f[m]
      BY <1>1
    <2>3. SumFunctionOnSet(f1, H1) = SumFunctionOnSet(f, H1)
      BY <1>2, <2>2, SumEqual
    <2>4. QED
      BY <2>1, <2>3
  <1>4. QED
    BY <1>1, <1>3 DEF SeatsOf

-----------------------------------------------------------------------------
(* What the counts and the caps are computed from.                         *)
LEMMA ActiveSeats ==
  ASSUME TypeOK, NEW S, S \subseteq Active, NEW t
  PROVE  /\ IsFiniteSet(S) /\ \A m \in S : m \in Members /\ reg[m].seats \in 1..MaxSeats
         /\ Seats(S, t) = SeatsOf(reg, S, t) /\ Seats(S, t) \in Nat
  <1>1. S \subseteq Members
    BY DEF Active
  <1>2. IsFiniteSet(S)
    BY <1>1, FS_Subset, ConstantsAssumption DEF ConstantsAssumption
  <1>3. \A m \in S : reg[m].seats \in 1..MaxSeats
    BY DEF Active, TypeOK, Row
  <1>4. Seats(S, t) = SeatsOf(reg, S, t)
    BY DEF Seats, SeatsOf
  <1>5. SeatsOf(reg, S, t) \in Nat
    BY <1>2, <1>3, SeatsNatural
  <1>6. QED
    BY <1>1, <1>2, <1>3, <1>4, <1>5

LEMMA CountsTyped == TypeOK => Counts \in [Tickets -> Nat]
  <1>1. {m \in Active : ~reg[m].pending} \subseteq Active
    OBVIOUS
  <1>2. QED
    BY <1>1, ActiveSeats DEF Counts

LEMMA TypesKept ==
  ASSUME TypeOK, [Next]_vars
  PROVE  TypeOK'
  <1> USE DEF TypeOK
  <1>1. ASSUME NEW q \in Requests, NEW t \in Tickets, NEW s \in 1..MaxSeats, Validate(q, t, s)
        PROVE  TypeOK'
    <2>1. req'[q] \in Form /\ req' = [req EXCEPT ![q] = req'[q]]
      BY <1>1, Zenon, SMT, ConstantsAssumption DEF ConstantsAssumption, Validate, Form, Row
    <2>2. counts' \in [Tickets -> Nat] \cup {None}
      BY <1>1, CountsTyped DEF Validate
    <2>3. QED
      BY <1>1, <2>1, <2>2 DEF Validate
  <1>2. ASSUME NEW q \in Requests, Duplicate(q) \/ Deny(q) \/ RejectEdit(q) \/ Fail(q)
        PROVE  TypeOK'
    BY <1>2 DEF Duplicate, Deny, RejectEdit, Fail, LockAfter
  <1>3. ASSUME NEW q \in Requests, SaveNew(q) \/ SaveEdit(q)
        PROVE  TypeOK'
    <2>1. req[q] \in Form
      BY <1>3 DEF SaveNew, SaveEdit, Insert, Update, Idle
    <2>2. [req[q] EXCEPT !.pc = "saved"] \in Form
      BY <2>1 DEF Form
    <2>3. QED
      BY <1>3, <2>2 DEF SaveNew, SaveEdit
  <1>4. ASSUME NEW q \in Requests, Commit(q)
        PROVE  TypeOK'
    <2>1. req[q] \in Form
      BY <1>4 DEF Commit, Saved, Idle
    <2>2. \A i \in Ids : [id |-> i, ticket |-> req[q].ticket, seats |-> req[q].seats,
                         pending |-> req[q].pending] \in Row
      BY <2>1 DEF Form, Row
    <2>3. QED
      BY <1>4, <2>2 DEF Commit, LockAfter
  <1>5. ASSUME NEW m \in Members, RequestSignup(m) \/ Approve(m) \/ Cancel(m)
        PROVE  TypeOK'
    <2>1. \A i \in Ids : [id |-> i, ticket |-> NoTicket, seats |-> 1, pending |-> TRUE] \in Row
      BY ConstantsAssumption DEF ConstantsAssumption, Row
    <2>2. reg[m] # None => [reg[m] EXCEPT !.pending = FALSE] \in Row
      BY DEF Row
    <2>3. QED
      BY <1>5, <2>1, <2>2 DEF RequestSignup, Approve, Cancel, Fresh
  <1>6. ASSUME NEW m \in Members, DeclarePayment(m) \/ ConfirmPayment(m)
        PROVE  TypeOK'
    BY <1>6 DEF DeclarePayment, ConfirmPayment, Row
  <1>7. CASE Expire
    BY <1>7 DEF Expire
  <1>8. CASE UNCHANGED vars
    BY <1>8 DEF vars
  <1>9. QED
    BY <1>1, <1>2, <1>3, <1>4, <1>5, <1>6, <1>7, <1>8 DEF Next

(* Every variable keeps its type; above all, the counts that the cache is  *)
(* filled with are counts (get_registration_counts adds up the seats of    *)
(* the rows it reads), whatever is edited, approved or failed meanwhile.   *)
THEOREM TypesHold == Spec => []TypeOK
  <1>1. Init => TypeOK
    BY DEF Init, TypeOK
  <1>2. TypeOK /\ [Next]_vars => TypeOK'
    BY TypesKept
  <1>3. QED
    BY <1>1, <1>2, PTL DEF Spec

-----------------------------------------------------------------------------

(* Every request makes a new registration.                                 *)
OnlyNew == \A q \in Requests : req[q] # Idle => req[q].row = None

(* Who has saved holds the lock of the run.                                *)
SavedHoldsLock == \A q \in Requests : Saved(q) => lock = q

LInv == TypeOK /\ OnlyNew /\ SavedHoldsLock

(* How the steps move the requests and the lock, while nobody edits:       *)
(* nobody has saved after a step who had not before, except by SaveNew,    *)
(* which finds the lock free.                                              *)
LEMMA LockIsKept ==
  ASSUME ~Editing, LInv, [Next]_vars
  PROVE  LInv'
  <1> USE DEF LInv, OnlyNew, SavedHoldsLock, Saved, Idle
  <1>1. TypeOK'
    BY TypesKept
  <1>2. None \notin Requests
    BY ConstantsAssumption DEF ConstantsAssumption
  <1>3. ASSUME NEW q \in Requests, NEW t \in Tickets, NEW s \in 1..MaxSeats, Validate(q, t, s)
        PROVE  OnlyNew' /\ SavedHoldsLock'
    <2>1. req'[q].row = None /\ req'[q].pc = "valid" /\ lock' = lock
      BY <1>3, Zenon, SMT DEF Validate, TypeOK
    <2>2. \A p \in Requests : p # q => req'[p] = req[p]
      BY <1>3 DEF Validate, TypeOK
    <2>3. QED
      BY <2>1, <2>2
  <1>4. ASSUME NEW q \in Requests, req' = [req EXCEPT ![q] = Idle],
               lock' = lock \/ (lock = q /\ lock' = None)
        PROVE  OnlyNew' /\ SavedHoldsLock'
    <2>1. \A p \in Requests : req'[p] = IF p = q THEN Idle ELSE req[p]
      BY <1>4 DEF TypeOK
    <2>2. QED
      BY <1>4, <2>1
  <1>5. ASSUME NEW q \in Requests, SaveNew(q)
        PROVE  OnlyNew' /\ SavedHoldsLock'
    <2>1. req[q].row = None /\ lock = None /\ lock' = q /\ req[q] \in Form
      BY <1>5 DEF SaveNew, Insert, TypeOK
    <2>2. \A p \in Requests : p # q => req'[p] = req[p]
      BY <1>5 DEF SaveNew, TypeOK
    <2>3. req'[q].row = None
      BY <1>5, <2>1 DEF SaveNew, TypeOK, Form
    <2>4. QED
      BY <1>2, <2>1, <2>2, <2>3
  <1>6. ASSUME NEW q \in Requests, SaveEdit(q)
        PROVE  OnlyNew' /\ SavedHoldsLock'
    BY <1>6 DEF SaveEdit, Update
  <1>7. ASSUME req' = req, lock' = lock
        PROVE  OnlyNew' /\ SavedHoldsLock'
    BY <1>7
  <1>8. QED
    BY <1>1, <1>3, <1>4, <1>5, <1>6, <1>7
       DEF Next, vars, Duplicate, Deny, RejectEdit, Commit, Fail, LockAfter, RequestSignup, Approve,
           Cancel, DeclarePayment, ConfirmPayment, Expire

(* Nobody but SaveNew and Commit matters to those who have saved: what the *)
(* other steps do to them, and to the registrations.                       *)
LEMMA OtherSteps ==
  ASSUME ~Editing, LInv, [Next]_vars,
         \A q \in Requests : ~SaveNew(q) /\ ~Commit(q)
  PROVE  /\ \A q \in Requests : Saved(q)' => Saved(q) /\ req'[q] = req[q]
         /\ \/ reg' = reg
            \/ \E m \in Members : RequestSignup(m) \/ Approve(m) \/ Cancel(m)
  <1> USE DEF LInv, Saved, Idle
  <1>1. ASSUME NEW q \in Requests, NEW t \in Tickets, NEW s \in 1..MaxSeats, Validate(q, t, s)
        PROVE  reg' = reg /\ \A p \in Requests : Saved(p)' => Saved(p) /\ req'[p] = req[p]
    <2>1. req'[q].pc = "valid" /\ reg' = reg
      BY <1>1, Zenon, SMT DEF Validate, TypeOK
    <2>2. \A p \in Requests : p # q => req'[p] = req[p]
      BY <1>1 DEF Validate, TypeOK
    <2>3. QED
      BY <2>1, <2>2
  <1>2. ASSUME NEW q \in Requests, Duplicate(q) \/ Deny(q) \/ RejectEdit(q) \/ Fail(q)
        PROVE  reg' = reg /\ \A p \in Requests : Saved(p)' => Saved(p) /\ req'[p] = req[p]
    <2>1. reg' = reg /\ req' = [req EXCEPT ![q] = Idle]
      BY <1>2 DEF Duplicate, Deny, RejectEdit, Fail
    <2>2. \A p \in Requests : req'[p] = IF p = q THEN Idle ELSE req[p]
      BY <2>1 DEF TypeOK
    <2>3. QED
      BY <2>1, <2>2
  <1>3. ASSUME NEW q \in Requests, SaveEdit(q)
        PROVE  FALSE
    BY <1>3 DEF SaveEdit, Update, OnlyNew
  <1>4. ASSUME NEW m \in Members, RequestSignup(m) \/ Approve(m) \/ Cancel(m)
        PROVE  req' = req
    BY <1>4 DEF RequestSignup, Approve, Cancel
  <1>5. ASSUME NEW m \in Members, DeclarePayment(m) \/ ConfirmPayment(m)
        PROVE  req' = req /\ reg' = reg
    BY <1>5 DEF DeclarePayment, ConfirmPayment
  <1>6. Expire \/ UNCHANGED vars => req' = req /\ reg' = reg
    BY DEF Expire, vars
  <1>7. QED
    BY <1>1, <1>2, <1>3, <1>4, <1>5, <1>6 DEF Next

-----------------------------------------------------------------------------
(* The place that was found free when the lock was taken is free still.    *)
PlaceIsKept ==
  \A q \in Requests : Saved(q) /\ MaxPg > 0 /\ IsPlayer(req[q].ticket) =>
    Cardinality(Players \ {Owner[q]}) < MaxPg

IInv == LInv /\ PlaceIsKept /\ PlayersWithinCap

LEMMA PlayersFinite == IsFiniteSet(Players) /\ IsFiniteSet(Players')
  <1>1. Players \subseteq Members /\ Players' \subseteq Members
    BY DEF Players, Active
  <1>2. QED
    BY <1>1, FS_Subset, ConstantsAssumption DEF ConstantsAssumption

(* Fewer players are still within the cap, and leave the place kept.       *)
LEMMA FewerPlayers ==
  ASSUME Players' \subseteq Players, PlayersWithinCap
  PROVE  /\ PlayersWithinCap'
         /\ \A m : MaxPg > 0 /\ Cardinality(Players \ {m}) < MaxPg =>
              Cardinality(Players' \ {m}) < MaxPg
  <1>1. Cardinality(Players') <= Cardinality(Players)
    BY PlayersFinite, FS_Subset
  <1>2. Cardinality(Players) \in Nat /\ Cardinality(Players') \in Nat /\ MaxPg \in Nat
    BY PlayersFinite, FS_CardinalityType, ConstantsAssumption DEF ConstantsAssumption
  <1>3. ASSUME NEW m
        PROVE  /\ Cardinality(Players' \ {m}) <= Cardinality(Players \ {m})
               /\ Cardinality(Players' \ {m}) \in Nat /\ Cardinality(Players \ {m}) \in Nat
    <2>1. IsFiniteSet(Players \ {m}) /\ IsFiniteSet(Players' \ {m})
      BY PlayersFinite, FS_Subset, Players \ {m} \subseteq Players, Players' \ {m} \subseteq Players'
    <2>2. Players' \ {m} \subseteq Players \ {m}
      OBVIOUS
    <2>3. QED
      BY <2>1, <2>2, FS_Subset, FS_CardinalityType
  <1>4. QED
    BY <1>1, <1>2, <1>3 DEF PlayersWithinCap

(* One more player than those other than m, who were short of the cap.     *)
LEMMA OneMorePlayer ==
  ASSUME NEW m, Players' \subseteq (Players \ {m}) \cup {m},
         Cardinality(Players \ {m}) < MaxPg
  PROVE  PlayersWithinCap'
  <1>1. IsFiniteSet(Players \ {m})
    BY PlayersFinite, FS_Subset, Players \ {m} \subseteq Players
  <1>2. /\ IsFiniteSet((Players \ {m}) \cup {m})
        /\ Cardinality((Players \ {m}) \cup {m}) = Cardinality(Players \ {m}) + 1
    BY <1>1, FS_AddElement, m \notin Players \ {m}
  <1>3. Cardinality(Players') <= Cardinality(Players \ {m}) + 1
    BY <1>2, FS_Subset
  <1>4. Cardinality(Players \ {m}) \in Nat /\ Cardinality(Players') \in Nat /\ MaxPg \in Nat
    BY <1>1, PlayersFinite, FS_CardinalityType, ConstantsAssumption DEF ConstantsAssumption
  <1>5. QED
    BY <1>3, <1>4 DEF PlayersWithinCap

LEMMA InitIInv == Init => IInv
  <1>1. SUFFICES ASSUME Init PROVE IInv
    OBVIOUS
  <1>2. Players = {}
    BY <1>1 DEF Init, Players, Active
  <1>3. PlayersWithinCap
    BY <1>2, FS_EmptySet, ConstantsAssumption DEF PlayersWithinCap, ConstantsAssumption
  <1>4. LInv /\ PlaceIsKept
    BY <1>1 DEF Init, LInv, TypeOK, OnlyNew, SavedHoldsLock, PlaceIsKept, Saved, Idle
  <1>5. QED
    BY <1>3, <1>4 DEF IInv

(* When the lock is taken, the count has just found a place.               *)
LEMMA PlaceFound ==
  ASSUME IInv, NEW q \in Requests, SaveNew(q)
  PROVE  PlaceIsKept' /\ PlayersWithinCap'
  <1>1. reg' = reg /\ lock = None
    BY DEF SaveNew, Insert
  <1>2. \A p \in Requests : ~Saved(p)
    BY <1>1, ConstantsAssumption DEF IInv, LInv, SavedHoldsLock, ConstantsAssumption
  <1>3. /\ \A p \in Requests : Saved(p)' => p = q
        /\ req'[q].ticket = req[q].ticket
    BY <1>2 DEF Saved, SaveNew, Insert, IInv, LInv, TypeOK, Form, Idle
  <1>4. Players' = Players
    BY <1>1 DEF Players, Active
  <1>5. PlayersWithinCap'
    BY <1>4 DEF IInv, PlayersWithinCap
  <1>6. MaxPg > 0 /\ IsPlayer(req[q].ticket) => Cardinality(Players \ {Owner[q]}) < MaxPg
    <2>1. IsFiniteSet(Players \ {Owner[q]})
      BY PlayersFinite, FS_Subset, Players \ {Owner[q]} \subseteq Players
    <2>2. Cardinality(Players \ {Owner[q]}) \in Nat /\ MaxPg \in Nat
      BY <2>1, FS_CardinalityType, ConstantsAssumption DEF ConstantsAssumption
    <2>3. ~(MaxPg > 0 /\ IsPlayer(req[q].ticket)
            /\ Cardinality(Players \ {Owner[q]}) >= MaxPg)
      BY DEF SaveNew, Full
    <2>4. QED
      BY <2>2, <2>3
  <1>7. PlaceIsKept'
    BY <1>3, <1>4, <1>6 DEF PlaceIsKept, IsPlayer
  <1>8. QED
    BY <1>5, <1>7

(* Of a commit: who commits holds the lock, so that nobody else has saved. *)
LEMMA CommitsAlone ==
  ASSUME LInv, NEW q \in Requests, Commit(q)
  PROVE  /\ Saved(q) /\ req[q] \in Form /\ Owner[q] \in Members
         /\ \A p \in Requests : ~Saved(p)'
         /\ \A m \in Members : m # Owner[q] => reg'[m] = reg[m]
         /\ reg'[Owner[q]].ticket = req[q].ticket /\ reg'[Owner[q]].seats = req[q].seats
  <1>1. Saved(q) /\ req[q] \in Form /\ Owner[q] \in Members
    <2>1. Saved(q) /\ req[q] \in Form \cup {Idle}
      BY DEF Commit, LInv, TypeOK
    <2>2. req[q] # Idle
      BY <2>1 DEF Saved, Idle
    <2>3. Owner[q] \in Members
      BY ConstantsAssumption DEF ConstantsAssumption
    <2>4. QED
      BY <2>1, <2>2, <2>3
  <1>2. \A p \in Requests : req'[p] = IF p = q THEN Idle ELSE req[p]
    BY DEF Commit, LInv, TypeOK
  <1>3. \A p \in Requests : ~Saved(p)'
    BY <1>1, <1>2 DEF Saved, Idle, LInv, SavedHoldsLock
  <1>4. PICK i \in Ids :
          reg' = [reg EXCEPT ![Owner[q]] = [id |-> i, ticket |-> req[q].ticket,
                                            seats |-> req[q].seats, pending |-> req[q].pending]]
    BY DEF Commit
  <1>5. /\ \A m \in Members : m # Owner[q] => reg'[m] = reg[m]
        /\ reg'[Owner[q]].ticket = req[q].ticket /\ reg'[Owner[q]].seats = req[q].seats
    BY <1>1, <1>4 DEF LInv, TypeOK
  <1>6. QED
    BY <1>1, <1>3, <1>5

LEMMA PlaceTaken ==
  ASSUME IInv, NEW q \in Requests, Commit(q)
  PROVE  PlaceIsKept' /\ PlayersWithinCap'
  <1> DEFINE m == Owner[q]
  <1>1. /\ Saved(q) /\ \A p \in Requests : ~Saved(p)'
        /\ \A p \in Members : p # m => reg'[p] = reg[p]
        /\ reg'[m].ticket = req[q].ticket
    BY CommitsAlone DEF IInv
  <1>2. PlaceIsKept'
    BY <1>1 DEF PlaceIsKept
  <1>3. CASE MaxPg > 0 /\ IsPlayer(req[q].ticket)
    <2>1. Players' \subseteq (Players \ {m}) \cup {m}
      BY <1>1 DEF Players, Active, IsPlayer
    <2>2. Cardinality(Players \ {m}) < MaxPg
      BY <1>1, <1>3 DEF IInv, PlaceIsKept
    <2>3. QED
      BY <1>2, <2>1, <2>2, OneMorePlayer
  <1>4. CASE ~IsPlayer(req[q].ticket)
    <2>1. Players' \subseteq Players
      BY <1>1, <1>4 DEF Players, Active, IsPlayer
    <2>2. QED
      BY <1>2, <2>1, FewerPlayers DEF IInv
  <1>5. CASE ~(MaxPg > 0)
    BY <1>2, <1>5 DEF PlayersWithinCap
  <1>6. QED
    BY <1>3, <1>4, <1>5

LEMMA NextIInv ==
  ASSUME ~Editing, ~Approval, IInv, [Next]_vars
  PROVE  IInv'
  <1>1. LInv'
    BY LockIsKept DEF IInv
  <1>2. ASSUME NEW q \in Requests, SaveNew(q) \/ Commit(q)
        PROVE  PlaceIsKept' /\ PlayersWithinCap'
    BY <1>2, PlaceFound, PlaceTaken
  <1>3. CASE \A q \in Requests : ~SaveNew(q) /\ ~Commit(q)
    <2>1. /\ \A q \in Requests : Saved(q)' => Saved(q) /\ req'[q] = req[q]
          /\ reg' = reg \/ \E m \in Members : RequestSignup(m) \/ Approve(m) \/ Cancel(m)
      BY <1>3, OtherSteps DEF IInv
    <2>2. Players' \subseteq Players
      BY <2>1 DEF Players, Active, IsPlayer, RequestSignup, Approve, Cancel, IInv, LInv, TypeOK, Row
    <2>3. PlayersWithinCap' /\ PlaceIsKept'
      BY <2>1, <2>2, FewerPlayers DEF IInv, PlaceIsKept, IsPlayer
    <2>4. QED
      BY <1>1, <2>3 DEF IInv
  <1>4. QED
    BY <1>1, <1>2, <1>3 DEF IInv

(* However many members sign up at once, from forms built on counts that   *)
(* are stale, and whichever of them fail after they have saved, the event  *)
(* never has more players than max_pg: the count of                        *)
(* _enforce_capacity_under_lock is made under the lock that is held until  *)
(* the commit (save_registration).                                         *)
THEOREM NeverOversold ==
  ASSUME ~Editing, ~Approval
  PROVE  Spec => []PlayersWithinCap
  <1>1. Init => IInv
    BY InitIInv
  <1>2. IInv /\ [Next]_vars => IInv'
    BY NextIInv
  <1>3. IInv => PlayersWithinCap
    BY DEF IInv
  <1>4. QED
    BY <1>1, <1>2, <1>3, PTL DEF Spec

-----------------------------------------------------------------------------
(* The seats that were found free when the lock was taken are free still.  *)
SeatIsKept ==
  \A q \in Requests : \A t \in Tickets :
    Saved(q) /\ t = req[q].ticket /\ Avail[t] > 0 => Seats(Active \ {Owner[q]}, t) < Avail[t]

TInv == LInv /\ SeatIsKept /\ TicketWithinCap

(* Nobody takes seats of t: the others' seats and its holders do not grow.  *)
LEMMA NoMoreHolders ==
  ASSUME TypeOK, TypeOK', NEW t \in Tickets,
         \A m \in Members : reg'[m] # None /\ reg'[m].ticket = t =>
           reg[m] # None /\ reg[m].ticket = t /\ reg'[m].seats = reg[m].seats
  PROVE  /\ \A n \in Nat : \A m : Seats(Active \ {m}, t) < n => Seats(Active \ {m}, t)' < n
         /\ \A n \in Nat : Cardinality({m \in Active : reg[m].ticket = t}) <= n
              => Cardinality({m \in Active : reg[m].ticket = t})' <= n
  <1>1. ASSUME NEW X
        PROVE  /\ \A n \in Nat : Seats(Active \ X, t) < n => Seats(Active \ X, t)' < n
               /\ {m \in Active' \ X : reg'[m].ticket = t} \subseteq {m \in Active \ X : reg[m].ticket = t}
    <2> DEFINE S  == Active \ X
               S1 == Active' \ X
    <2>1. IsFiniteSet(S) /\ \A m \in S : reg[m].seats \in 1..MaxSeats
      BY ActiveSeats
    <2>2. \A m \in S1 : reg'[m].ticket = t =>
            m \in S /\ reg[m].ticket = t /\ reg'[m].seats = reg[m].seats
      BY DEF Active
    <2>3. Seats(S, t) = SeatsOf(reg, S, t) /\ Seats(Active \ X, t)' = SeatsOf(reg', S1, t)
      BY DEF Seats, SeatsOf
    <2>4. /\ SeatsOf(reg', S1, t) <= SeatsOf(reg, S, t)
          /\ {m \in S1 : reg'[m].ticket = t} \subseteq {m \in S : reg[m].ticket = t}
      <3> HIDE DEF S, S1
      <3> QED BY <2>1, <2>2, FewerSeats
    <2>5. IsFiniteSet(S1) /\ \A m \in S1 : reg'[m].seats \in 1..MaxSeats
      <3>1. S1 \subseteq Members
        BY DEF Active
      <3>2. QED
        BY <3>1, FS_Subset, ConstantsAssumption DEF ConstantsAssumption, TypeOK, Row, Active
    <2>6. SeatsOf(reg', S1, t) \in Nat /\ SeatsOf(reg, S, t) \in Nat
      <3> HIDE DEF S, S1
      <3> QED BY <2>1, <2>5, SeatsNatural
    <2>7. QED
      BY <2>3, <2>4, <2>6
  <1>2. Active \ {} = Active /\ Active' \ {} = Active'
    OBVIOUS
  <1>4. {m \in Active' : reg'[m].ticket = t} \subseteq {m \in Active : reg[m].ticket = t}
    BY <1>1, <1>2
  <1>5. IsFiniteSet({m \in Active : reg[m].ticket = t})
    BY ActiveSeats, FS_Subset
  <1>6. /\ Cardinality({m \in Active' : reg'[m].ticket = t}) \in Nat
        /\ Cardinality({m \in Active : reg[m].ticket = t}) \in Nat
        /\ Cardinality({m \in Active' : reg'[m].ticket = t})
             <= Cardinality({m \in Active : reg[m].ticket = t})
    BY <1>4, <1>5, FS_Subset, FS_CardinalityType
  <1>7. \A n \in Nat : Cardinality({m \in Active : reg[m].ticket = t}) <= n
              => Cardinality({m \in Active : reg[m].ticket = t})' <= n
    BY <1>6
  <1>8. QED
    BY <1>1, <1>7

(* A step of which no ticket loses a free seat, and after which nobody has *)
(* saved who had not.                                                      *)
LEMMA NoSeatTaken ==
  ASSUME TInv, TypeOK',
         \A m \in Members : reg'[m] # None /\ reg'[m].ticket \in Tickets =>
           reg[m] # None /\ reg[m].ticket = reg'[m].ticket /\ reg'[m].seats = reg[m].seats,
         \A q \in Requests : Saved(q)' => Saved(q) /\ req'[q] = req[q]
  PROVE  SeatIsKept' /\ TicketWithinCap'
  <1>1. Avail \in [Tickets -> Nat]
    BY ConstantsAssumption DEF ConstantsAssumption
  <1>2. ASSUME NEW t \in Tickets
        PROVE  /\ \A n \in Nat : \A m : Seats(Active \ {m}, t) < n => Seats(Active \ {m}, t)' < n
               /\ \A n \in Nat : Cardinality({m \in Active : reg[m].ticket = t}) <= n
                    => Cardinality({m \in Active : reg[m].ticket = t})' <= n
    BY NoMoreHolders DEF TInv, LInv
  <1>3. \A t \in Tickets : Avail[t] \in Nat
    BY <1>1
  <1>4. TicketWithinCap'
    BY <1>2, <1>3 DEF TInv, TicketWithinCap
  <1>5. SeatIsKept'
    <2> SUFFICES ASSUME NEW q \in Requests, NEW t \in Tickets, Saved(q)', t = req'[q].ticket,
                        Avail[t] > 0
                 PROVE  Seats(Active \ {Owner[q]}, t)' < Avail[t]
      BY DEF SeatIsKept
    <2>1. Seats(Active \ {Owner[q]}, t) < Avail[t]
      BY DEF TInv, SeatIsKept
    <2>2. QED
      BY <1>2, <1>3, <2>1
  <1>6. QED
    BY <1>4, <1>5

LEMMA InitTInv == Init => TInv
  <1>1. SUFFICES ASSUME Init PROVE TInv
    OBVIOUS
  <1>2. LInv /\ SeatIsKept
    BY <1>1 DEF Init, LInv, TypeOK, OnlyNew, SavedHoldsLock, SeatIsKept, Saved, Idle
  <1>3. ASSUME NEW t \in Tickets, Avail[t] > 0
        PROVE  Cardinality({m \in Active : reg[m].ticket = t}) <= Avail[t]
    <2>1. {m \in Active : reg[m].ticket = t} = {}
      BY <1>1 DEF Init, Active
    <2>2. Avail[t] \in Nat /\ Cardinality({}) = 0
      BY FS_EmptySet, ConstantsAssumption DEF ConstantsAssumption
    <2>3. QED
      BY <2>1, <2>2
  <1>4. QED
    BY <1>2, <1>3 DEF TInv, TicketWithinCap

LEMMA SeatFound ==
  ASSUME TInv, TypeOK', NEW q \in Requests, SaveNew(q)
  PROVE  SeatIsKept' /\ TicketWithinCap'
  <1>1. reg' = reg /\ lock = None
    BY DEF SaveNew, Insert
  <1>2. \A p \in Requests : ~Saved(p)
    BY <1>1, ConstantsAssumption DEF TInv, LInv, SavedHoldsLock, ConstantsAssumption
  <1>3. /\ \A p \in Requests : Saved(p)' => p = q
        /\ req'[q].ticket = req[q].ticket
    BY <1>2 DEF Saved, SaveNew, Insert, TInv, LInv, TypeOK, Form, Idle
  <1>4. Active' = Active /\ \A S, t : Seats(S, t)' = Seats(S, t)
    BY <1>1 DEF Active, Seats
  <1>5. TicketWithinCap'
    BY <1>1, <1>4 DEF TInv, TicketWithinCap
  <1>6. Avail[req[q].ticket] > 0 =>
          Seats(Active \ {Owner[q]}, req[q].ticket) < Avail[req[q].ticket]
    <2>1. Seats(Active \ {Owner[q]}, req[q].ticket) \in Nat
      BY ActiveSeats DEF TInv, LInv
    <2>2. Avail[req[q].ticket] \in Nat
      BY ConstantsAssumption DEF ConstantsAssumption, SaveNew, Insert, TInv, LInv, TypeOK, Form, Idle
    <2>3. ~(Avail[req[q].ticket] > 0
            /\ Seats(Active \ {Owner[q]}, req[q].ticket) >= Avail[req[q].ticket])
      BY DEF SaveNew, Full
    <2>4. QED
      BY <2>1, <2>2, <2>3
  <1>7. SeatIsKept'
    BY <1>1, <1>3, <1>4, <1>6 DEF SeatIsKept, Seats
  <1>8. QED
    BY <1>5, <1>7

(* Another holder of a ticket: no more of them than the seats of the       *)
(* others, and one.                                                        *)
LEMMA OneMoreHolder ==
  ASSUME NEW r, NEW S, NEW r1, NEW m, NEW t, IsFiniteSet(S), m \notin S,
         \A p \in S : r[p].seats \in 1..MaxSeats /\ r1[p] = r[p]
  PROVE  Cardinality({p \in S \cup {m} : r1[p].ticket = t}) <= SeatsOf(r, S, t) + 1
  <1> DEFINE H == {p \in S : r[p].ticket = t}
             K == {p \in S \cup {m} : r1[p].ticket = t}
  <1>1. K \subseteq H \cup {m} /\ m \notin H /\ IsFiniteSet(H)
    BY FS_Subset
  <1>2. SeatsOf(r, S, t) \in Nat /\ Cardinality(H) <= SeatsOf(r, S, t)
    BY SeatsNatural
  <1> HIDE DEF H, K
  <1>3. IsFiniteSet(H \cup {m}) /\ Cardinality(H \cup {m}) = Cardinality(H) + 1
    BY <1>1, FS_AddElement
  <1>4. Cardinality(K) <= Cardinality(H) + 1 /\ Cardinality(K) \in Nat /\ Cardinality(H) \in Nat
    BY <1>1, <1>3, FS_Subset, FS_CardinalityType
  <1>5. Cardinality(K) <= SeatsOf(r, S, t) + 1
    BY <1>2, <1>4
  <1>6. QED
    BY <1>5 DEF K

LEMMA SeatTaken ==
  ASSUME TInv, TypeOK', NEW q \in Requests, Commit(q)
  PROVE  SeatIsKept' /\ TicketWithinCap'
  <1> DEFINE m == Owner[q]
             t0 == req[q].ticket
             S == Active \ {m}
  <1>1. /\ Saved(q) /\ req[q] \in Form /\ m \in Members
        /\ \A p \in Requests : ~Saved(p)'
        /\ \A p \in Members : p # m => reg'[p] = reg[p]
        /\ reg'[m].ticket = t0 /\ reg'[m].seats = req[q].seats
    BY CommitsAlone DEF TInv
  <1>2. SeatIsKept'
    BY <1>1 DEF SeatIsKept
  <1>3. t0 \in Tickets /\ Avail[t0] \in Nat
    BY <1>1, ConstantsAssumption DEF Form, ConstantsAssumption
  <1>4. ASSUME NEW t \in Tickets, Avail[t] > 0, t # t0 \/ reg'[m] = None
        PROVE  Cardinality({p \in Active : reg[p].ticket = t})' <= Avail[t]
    <2>1. Avail[t] \in Nat
      BY <1>3, ConstantsAssumption DEF ConstantsAssumption
    <2>2. \A p \in Members : reg'[p] # None /\ reg'[p].ticket = t =>
            reg[p] # None /\ reg[p].ticket = t /\ reg'[p].seats = reg[p].seats
      BY <1>1, <1>4
    <2>3. TypeOK
      BY DEF TInv, LInv
    <2>4. QED
      BY <1>4, <2>1, <2>2, <2>3, NoMoreHolders DEF TInv, TicketWithinCap
  <1>5. ASSUME NEW t \in Tickets, Avail[t] > 0, t = t0, reg'[m] # None
        PROVE  Cardinality({p \in Active : reg[p].ticket = t})' <= Avail[t]
    <2>1. IsFiniteSet(S) /\ m \notin S /\ Active' = S \cup {m}
      BY <1>1, <1>5, ActiveSeats DEF TInv, LInv, Active
    <2>2. \A p \in S : reg[p].seats \in 1..MaxSeats /\ reg'[p] = reg[p]
      BY <1>1, ActiveSeats DEF TInv, LInv, Active
    <2>3. Seats(S, t) = SeatsOf(reg, S, t) /\ Seats(S, t) \in Nat
      BY ActiveSeats DEF TInv, LInv
    <2>4. Seats(S, t) < Avail[t]
      BY <1>1, <1>3, <1>5 DEF TInv, SeatIsKept
    <2>5. Cardinality({p \in S \cup {m} : reg'[p].ticket = t}) <= SeatsOf(reg, S, t) + 1
      <3> HIDE DEF S, m
      <3> QED BY <2>1, <2>2, OneMoreHolder
    <2>6. {p \in Active' : reg'[p].ticket = t} = {p \in S \cup {m} : reg'[p].ticket = t}
      <3> HIDE DEF S, m
      <3> QED BY <2>1
    <2>7. Cardinality({p \in S \cup {m} : reg'[p].ticket = t}) \in Nat
      <3>1. IsFiniteSet(S \cup {m})
        BY <2>1, FS_AddElement
      <3>2. IsFiniteSet({p \in S \cup {m} : reg'[p].ticket = t})
        BY <3>1, FS_Subset
      <3>3. QED
        BY <3>2, FS_CardinalityType
    <2>8. Avail[t] \in Nat
      BY <1>3, <1>5
    <2>9. Cardinality({p \in S \cup {m} : reg'[p].ticket = t}) <= Avail[t]
      <3> HIDE DEF S, m
      <3> QED BY <2>3, <2>4, <2>5, <2>7, <2>8
    <2>10. QED
      BY <2>6, <2>9
  <1>6. TicketWithinCap'
    BY <1>4, <1>5 DEF TicketWithinCap
  <1>7. QED
    BY <1>2, <1>6

LEMMA NextTInv ==
  ASSUME ~Editing, TInv, [Next]_vars
  PROVE  TInv'
  <1>1. LInv' /\ TypeOK'
    BY LockIsKept DEF TInv, LInv
  <1>2. ASSUME NEW q \in Requests, SaveNew(q) \/ Commit(q)
        PROVE  SeatIsKept' /\ TicketWithinCap'
    BY <1>1, <1>2, SeatFound, SeatTaken
  <1>3. CASE \A q \in Requests : ~SaveNew(q) /\ ~Commit(q)
    <2>1. /\ \A q \in Requests : Saved(q)' => Saved(q) /\ req'[q] = req[q]
          /\ reg' = reg \/ \E m \in Members : RequestSignup(m) \/ Approve(m) \/ Cancel(m)
      BY <1>3, OtherSteps DEF TInv
    <2>2. \A m \in Members : reg'[m] # None /\ reg'[m].ticket \in Tickets =>
            reg[m] # None /\ reg[m].ticket = reg'[m].ticket /\ reg'[m].seats = reg[m].seats
      BY <2>1, ConstantsAssumption
         DEF ConstantsAssumption, RequestSignup, Approve, Cancel, TInv, LInv, TypeOK, Row
    <2>3. QED
      BY <1>1, <2>1, <2>2, NoSeatTaken DEF TInv
  <1>4. QED
    BY <1>1, <1>2, <1>3 DEF TInv

(* However many members ask for the same ticket at once, it is never given *)
(* to more than its max_available of them, whatever the cap of the event.  *)
(* Only an edit, which is saved without the lock and the count, is left    *)
(* out; approval of signup requests is not.                                *)
THEOREM TicketNeverOversold ==
  ASSUME ~Editing
  PROVE  Spec => []TicketWithinCap
  <1>1. Init => TInv
    BY InitTInv
  <1>2. TInv /\ [Next]_vars => TInv'
    BY NextTInv
  <1>3. TInv => TicketWithinCap
    BY DEF TInv
  <1>4. QED
    BY <1>1, <1>2, <1>3, PTL DEF Spec

=============================================================================
