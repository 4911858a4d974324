--------------------- MODULE DiscountReservationProofs ---------------------
(***************************************************************************)
(* Proofs about DiscountReservation, for every number of members, requests *)
(* and rows: under the lock of the discount codes give one use more than   *)
(* its maximum and no further one, and one to each member, whatever        *)
(* expires, is confirmed, added or removed without that lock.              *)
(***************************************************************************)
EXTENDS DiscountReservation, FiniteSetTheorems, TLAPS

LEMMA IdleType == Idle \in Local /\ Idle.pc = "idle" /\ Idle.copies = {}
  BY DEF Idle, Local, Operations

LEMMA CopiesType ==
  ASSUME TypeOK, NEW rows, rows \subseteq Live
  PROVE  CopiesOf(rows) \subseteq Copy
  <1>1. ASSUME NEW i \in rows
        PROVE  [row |-> i, use |-> [use[i] EXCEPT !.expires = "never"]] \in Copy
    <2>1. i \in Rows /\ use[i] \in Use
      BY DEF TypeOK, Live
    <2>2. [use[i] EXCEPT !.expires = "never"] \in {u \in Use : u.expires = "never"}
      BY <2>1 DEF Use, Expiries
    <2>3. QED
      BY <2>1, <2>2 DEF Copy
  <1>2. QED
    BY <1>1 DEF CopiesOf

(* The request that a Start begins.                                        *)
LEMMA StartType ==
  ASSUME TypeOK, NEW q \in Requests, NEW op \in Operations, NEW pc \in {"delete", "confirm", "insert"},
         NEW m \in Members, NEW d \in Discounts, NEW rows, rows \subseteq Live,
         Start(q, op, pc, m, d, rows)
  PROVE  /\ req' \in [Requests -> Local]
         /\ req'[q].pc = pc /\ req'[q].member = m /\ req'[q].disc = d
         /\ req'[q].copies = CopiesOf(rows)
         /\ \A p \in Requests : p # q => req'[p] = req[p]
  <1> DEFINE l == [pc |-> pc, op |-> op, member |-> m, disc |-> d, copies |-> CopiesOf(rows)]
  <1>1. l \in Local
    BY CopiesType DEF Local
  <1>2. req' = [req EXCEPT ![q] = l]
    BY DEF Start
  <1>3. QED
    BY <1>1, <1>2 DEF TypeOK

(* What the steps share: a request that begins, or one that ends.          *)
Begins(q, rows) ==
  /\ req'[q].pc \in {"delete", "confirm", "insert"}
  /\ req'[q].copies = CopiesOf(rows)
  /\ req'[q].member \in Members /\ req'[q].disc \in Discounts
Ends(q) == req'[q] = Idle

Alone(q) ==
  /\ req' \in [Requests -> Local]
  /\ \A p \in Requests : p # q => req'[p] = req[p]

LEMMA BeginShape ==
  ASSUME TypeOK, NEW q \in Requests, NEW m \in Members, NEW d \in Discounts, Begin(q, m, d)
  PROVE  /\ \/ UNCHANGED req
            \/ Alone(q) /\ \E rows \in SUBSET Live : Begins(q, rows)
         /\ UNCHANGED <<use, lock, revived, crashes>>
         /\ registered' \subseteq registered
  <1> USE StartType DEF StartDelete, Begins, Alone, Operations
  <1>0. /\ UsesOf(m) \subseteq Live /\ UsesIn(d) \subseteq Live /\ Expired \subseteq Live
        /\ {i \in UsesOf(m) : use[i].expires # "never"} \subseteq Live
    BY DEF UsesOf, UsesIn, Expired
  <1>1. CASE EnterCode(q, m, d)
    BY <1>0, <1>1 DEF EnterCode
  <1>2. CASE ListUses(q, m, d)
    BY <1>0, <1>2, Expired \cap UsesOf(m) \subseteq Live DEF ListUses
  <1>3. CASE ReadUses(q, m, d)
    BY <1>0, <1>3 DEF ReadUses
  <1>4. CASE AddUse(q, m, d)
    BY <1>4, {} \subseteq Live DEF AddUse
  <1>5. CASE RemoveUse(q, m, d)
    BY <1>0, <1>5, UsesOf(m) \cap UsesIn(d) \subseteq Live DEF RemoveUse
  <1>6. CASE Cancel(q, m, d)
    BY <1>0, <1>6 DEF Cancel
  <1>7. QED
    BY <1>1, <1>2, <1>3, <1>4, <1>5, <1>6 DEF Begin

-----------------------------------------------------------------------------
(* What the steps that write uses do, for the types and for the counting.  *)

(* No use is new: a granted one was granted, with the same columns.        *)
NoneNew ==
  \A d \in Discounts : \A i \in Granted(d)' : i \in Granted(d) /\ use'[i].member = use[i].member

(* Nobody newly creates, and who creates keeps the lock.                   *)
NoCreator ==
  \A p \in Requests : req'[p].pc = "create" =>
    /\ req[p].pc = "create" /\ req'[p].member = req[p].member /\ req'[p].disc = req[p].disc
    /\ lock'[req[p].disc] = lock[req[p].disc]

LEMMA GrantedFinite == \A d : IsFiniteSet(Granted(d)) /\ IsFiniteSet(Granted(d)')
  <1>1. \A d : Granted(d) \subseteq Rows /\ Granted(d)' \subseteq Rows
    BY DEF Granted, UsesIn, Live
  <1>2. QED
    BY <1>1, FS_Subset, ConstantsAssumption DEF ConstantsAssumption

LEMMA FewerGranted ==
  ASSUME IInv, TypeOK', NoneNew, NoCreator
  PROVE  CreatorHoldsLock' /\ RoomIsKept' /\ CodeUsesBounded' /\ OncePerMember'
  <1>1. ASSUME NEW d \in Discounts
        PROVE  /\ Cardinality(Granted(d)') <= Cardinality(Granted(d))
               /\ Cardinality(Granted(d)) \in Nat /\ Cardinality(Granted(d)') \in Nat
               /\ MaxRedeem[d] \in Nat
    <2>1. Granted(d)' \subseteq Granted(d)
      BY DEF NoneNew
    <2>2. QED
      BY <2>1, GrantedFinite, FS_Subset, FS_CardinalityType, ConstantsAssumption DEF ConstantsAssumption
  <1>2. CodeUsesBounded'
    BY <1>1 DEF IInv, CodeUsesBounded
  <1>3. OncePerMember'
    BY DEF IInv, OncePerMember, NoneNew
  <1>4. CreatorHoldsLock'
    BY DEF IInv, CreatorHoldsLock, NoCreator
  <1>5. RoomIsKept'
    <2> SUFFICES ASSUME NEW p \in Requests, NEW d \in Discounts, NEW m \in Members,
                        req'[p].pc = "create", req'[p].disc = d, req'[p].member = m
                 PROVE  RoomFor(d, m)'
      BY DEF RoomIsKept
    <2>1. req[p].pc = "create" /\ req[p].member = m /\ req[p].disc = d
      BY DEF NoCreator
    <2>2. RoomFor(d, m)
      BY <2>1 DEF IInv, RoomIsKept
    <2>3. QED
      BY <1>1, <2>2 DEF RoomFor, NoneNew
  <1>6. QED
    BY <1>2, <1>3, <1>4, <1>5

(* A step that leaves the uses alone, or only their expiry.                *)
LEMMA SameUses ==
  ASSUME TypeOK, use' = use, revived' = revived
  PROVE  NoneNew
  BY DEF NoneNew, Granted, UsesIn, Live

(* The rows that requests hold copies of.                                  *)
CopiesFrom ==
  \A p \in Requests : \/ req'[p].copies \subseteq req[p].copies
                      \/ \E rows \in SUBSET Live : req'[p].copies = CopiesOf(rows)
SameRow(i) ==
  \/ use'[i] = NoUse \/ use'[i] = use[i]
  \/ use[i] # NoUse /\ [use'[i] EXCEPT !.expires = "never"] = [use[i] EXCEPT !.expires = "never"]
RowsKept ==
  \A i \in Rows : SameRow(i) \/ \A p \in Requests : \A c \in req'[p].copies : c.row # i

LEMMA CopiesKept ==
  ASSUME IInv, CopiesFrom, RowsKept
  PROVE  CopiesMatch'
  <1> USE DEF CopiesFrom, RowsKept, SameRow
  <1> DEFINE Old(c) == \E p \in Requests : c \in req[p].copies
  <1>1. ASSUME NEW p \in Requests, NEW c \in req'[p].copies
        PROVE  /\ c.row \in Rows
               /\ use[c.row] = NoUse \/ [use[c.row] EXCEPT !.expires = "never"] = c.use
               /\ Old(c) \/ use[c.row] # NoUse
    <2>1. CASE c \in req[p].copies
      BY <2>1 DEF IInv, CopiesMatch, TypeOK, Local, Copy
    <2>2. CASE \E rows \in SUBSET Live : c \in CopiesOf(rows)
      BY <2>2 DEF CopiesOf, Live
    <2>3. QED
      BY <2>1, <2>2
  <1>2. ASSUME NEW p \in Requests, NEW c \in req'[p].copies
        PROVE  use'[c.row] = NoUse \/ [use'[c.row] EXCEPT !.expires = "never"] = c.use
    BY <1>1, <1>2
  <1>3. ASSUME NEW p \in Requests, NEW c \in req'[p].copies,
               NEW r \in Requests, NEW e \in req'[r].copies, e.row = c.row
        PROVE  e.use = c.use
    <2>1. CASE Old(c) /\ Old(e)
      BY <1>3, <2>1 DEF IInv, CopiesMatch
    <2>2. CASE use[c.row] # NoUse
      BY <1>1, <1>3, <2>2
    <2>3. QED
      BY <1>1, <1>3, <2>1, <2>2
  <1>4. QED
    BY <1>2, <1>3 DEF CopiesMatch

-----------------------------------------------------------------------------
LEMMA InitIInv == Init => IInv
  <1> SUFFICES ASSUME Init PROVE IInv
    OBVIOUS
  <1>1. \A q \in Requests : req[q].pc = "idle" /\ req[q].copies = {}
    BY IdleType DEF Init
  <1>2. \A d : Granted(d) = {}
    BY DEF Init, Granted, UsesIn, Live
  <1>3. TypeOK
    BY <1>1, IdleType DEF Init, TypeOK
  <1>4. CreatorHoldsLock /\ CopiesMatch /\ RoomIsKept /\ OncePerMember
    BY <1>1, <1>2 DEF CreatorHoldsLock, CopiesMatch, RoomIsKept, OncePerMember
  <1>5. CodeUsesBounded
    BY <1>2, FS_EmptySet, ConstantsAssumption DEF CodeUsesBounded, ConstantsAssumption
  <1>6. QED
    BY <1>3, <1>4, <1>5 DEF IInv

LEMMA BeginKeeps ==
  ASSUME IInv, NEW q \in Requests, NEW m \in Members, NEW d \in Discounts, Begin(q, m, d)
  PROVE  IInv'
  <1>1. /\ \/ UNCHANGED req
           \/ Alone(q) /\ \E rows \in SUBSET Live : Begins(q, rows)
        /\ UNCHANGED <<use, lock, revived, crashes>> /\ registered' \subseteq registered
    BY BeginShape DEF IInv
  <1>2. TypeOK'
    BY <1>1 DEF IInv, TypeOK, Alone, Begins
  <1>3. NoneNew /\ NoCreator
    BY <1>1, SameUses DEF IInv, NoCreator, Alone, Begins
  <1>4. CopiesMatch'
    <2>1. CopiesFrom
      BY <1>1 DEF CopiesFrom, Alone, Begins
    <2>2. RowsKept
      BY <1>1 DEF RowsKept, SameRow
    <2>3. QED
      BY <2>1, <2>2, CopiesKept
  <1>5. QED
    BY <1>2, <1>3, <1>4, FewerGranted DEF IInv

(* A request that ends, or deletes: nobody else moves, no use comes.       *)
LEMMA EndKeeps ==
  ASSUME IInv, NEW q \in Requests,
         req' = [req EXCEPT ![q] = Idle], use' = use, revived' = revived, crashes' \in Nat,
         registered' = registered,
         lock' = lock \/ Unlock(q)
  PROVE  IInv'
  <1>1. req'[q] = Idle /\ \A p \in Requests : p # q => req'[p] = req[p]
    BY DEF IInv, TypeOK
  <1>2. TypeOK'
    BY <1>1, IdleType DEF IInv, TypeOK, Unlock
  <1>3. NoneNew
    BY SameUses DEF IInv
  <1>4. NoCreator
    <2> SUFFICES ASSUME NEW p \in Requests, req'[p].pc = "create"
                 PROVE  /\ req[p].pc = "create" /\ req'[p].member = req[p].member
                        /\ req'[p].disc = req[p].disc /\ lock'[req[p].disc] = lock[req[p].disc]
      BY DEF NoCreator
    <2>1. p # q /\ req'[p] = req[p]
      BY <1>1, IdleType
    <2>2. lock[req[p].disc] = p /\ req[p].disc \in Discounts
      BY <2>1 DEF IInv, CreatorHoldsLock, TypeOK
    <2>3. QED
      BY <2>1, <2>2 DEF Unlock
  <1>5. CopiesMatch'
    BY <1>1, IdleType, CopiesKept DEF CopiesFrom, RowsKept, SameRow
  <1>6. QED
    BY <1>2, <1>3, <1>4, <1>5, FewerGranted DEF IInv

LEMMA DeleteKeeps ==
  ASSUME IInv, NEW q \in Requests, NEW c \in req[q].copies, DeleteOne(q, c)
  PROVE  IInv'
  <1>1. /\ req[q].pc = "delete" /\ c.row \in Rows
        /\ use' = [use EXCEPT ![c.row] = NoUse] /\ revived' = revived \ {c.row}
        /\ UNCHANGED <<lock, registered, crashes>>
    BY DEF IInv, TypeOK, DeleteOne, Local, Copy
  <1>2. /\ req'[q] \in Local /\ req'[q].pc \in {"idle", "delete"}
        /\ req'[q].copies \subseteq req[q].copies
        /\ req'[q].pc # "idle" => req'[q].member \in Members /\ req'[q].disc \in Discounts
        /\ req' \in [Requests -> Local]
        /\ \A p \in Requests : p # q => req'[p] = req[p]
    <2> DEFINE l == [req[q] EXCEPT !.copies = req[q].copies \ {c}]
    <2>1. req[q] \in Local /\ req[q].member \in Members /\ req[q].disc \in Discounts
      BY <1>1 DEF IInv, TypeOK
    <2>2. l \in Local /\ l.pc = "delete" /\ l.copies \subseteq req[q].copies
          /\ l.member \in Members /\ l.disc \in Discounts
      BY <1>1, <2>1 DEF Local
    <2>3. req' = [req EXCEPT ![q] = Remaining(q, req[q].copies \ {c})]
          /\ Remaining(q, req[q].copies \ {c}) \in {Idle, l}
      BY DEF DeleteOne, Remaining
    <2>4. QED
      BY <2>2, <2>3, IdleType DEF IInv, TypeOK
  <1>3. TypeOK'
    BY <1>1, <1>2 DEF IInv, TypeOK
  <1>4. NoneNew
    BY <1>1 DEF NoneNew, Granted, UsesIn, Live, IInv, TypeOK
  <1>5. NoCreator
    BY <1>1, <1>2 DEF NoCreator
  <1>6. CopiesMatch'
    <2>1. CopiesFrom
      BY <1>2 DEF CopiesFrom
    <2>2. RowsKept
      BY <1>1 DEF RowsKept, SameRow, IInv, TypeOK
    <2>3. QED
      BY <2>1, <2>2, CopiesKept
  <1>7. QED
    BY <1>3, <1>4, <1>5, <1>6, FewerGranted DEF IInv

LEMMA ElapseKeeps ==
  ASSUME IInv, NEW i \in Rows, Elapse(i)
  PROVE  IInv'
  <1>1. /\ use' = [use EXCEPT ![i].expires = "past"] /\ use[i] \in Use
        /\ UNCHANGED <<lock, registered, revived, req, crashes>>
    BY DEF Elapse, Live, IInv, TypeOK
  <1>2. use'[i] \in Use /\ use'[i].disc = use[i].disc /\ use'[i].member = use[i].member
        /\ use'[i].by = use[i].by
        /\ [use'[i] EXCEPT !.expires = "never"] = [use[i] EXCEPT !.expires = "never"]
        /\ use' \in [Rows -> Use \cup {NoUse}]
        /\ \A j \in Rows : j # i => use'[j] = use[j]
    BY <1>1 DEF IInv, TypeOK, Use, Expiries
  <1>3. TypeOK'
    BY <1>1, <1>2 DEF IInv, TypeOK
  <1>4. NoneNew
    <2>1. \A j \in Rows : use'[j] # NoUse => use[j] # NoUse /\ use'[j].disc = use[j].disc
                              /\ use'[j].member = use[j].member /\ use'[j].by = use[j].by
      BY <1>1, <1>2, NoUseAssumption
    <2>2. QED
      BY <1>1, <2>1 DEF NoneNew, Granted, UsesIn, Live
  <1>5. NoCreator
    BY <1>1 DEF NoCreator
  <1>6. CopiesMatch'
    <2>1. CopiesFrom
      BY <1>1 DEF CopiesFrom
    <2>2. RowsKept
      BY <1>1, <1>2, NoUseAssumption DEF RowsKept, SameRow
    <2>3. QED
      BY <2>1, <2>2, CopiesKept
  <1>7. QED
    BY <1>3, <1>4, <1>5, <1>6, FewerGranted DEF IInv

(* A confirmation saves copies: of rows that are as they were but for the  *)
(* expiry, or of rows that it brings back.                                 *)
LEMMA ConfirmKeeps ==
  ASSUME IInv, NEW q \in Requests, Confirm(q)
  PROVE  IInv'
  <1> DEFINE rows == {c.row : c \in req[q].copies}
             new(i) == (CHOOSE c \in req[q].copies : c.row = i).use
  <1>1. /\ use' = [i \in Rows |-> IF \E c \in req[q].copies : c.row = i THEN new(i) ELSE use[i]]
        /\ revived' = revived \cup (rows \ Live)
        /\ registered' = registered \cup {req[q].member}
        /\ req' = [req EXCEPT ![q] = Idle] /\ UNCHANGED <<lock, crashes>>
        /\ req[q].member \in Members
    BY DEF Confirm, Finish, IInv, TypeOK
  <1>2. /\ req' \in [Requests -> Local] /\ req'[q].pc = "idle" /\ req'[q].copies = {}
        /\ \A p \in Requests : p # q => req'[p] = req[p]
    BY <1>1, IdleType DEF IInv, TypeOK
  <1>3. rows \subseteq Rows
    BY DEF IInv, TypeOK, Local, Copy
  <1>4. ASSUME NEW i \in Rows
        PROVE  /\ use'[i] \in Use \cup {NoUse}
               /\ \/ use'[i] = use[i]
                  \/ /\ i \in rows /\ use'[i] \in Use
                     /\ \E e \in req[q].copies : e.row = i /\ use'[i] = e.use
                     /\ use[i] = NoUse \/ [use[i] EXCEPT !.expires = "never"] = use'[i]
    <2>1. CASE \E c \in req[q].copies : c.row = i
      <3>1. PICK c \in req[q].copies : c.row = i /\ new(i) = c.use
        BY <2>1
      <3>2. c.use \in Use /\ i \in rows
        BY <3>1 DEF IInv, TypeOK, Local, Copy
      <3>3. use'[i] = c.use
        BY <1>1, <2>1, <3>1
      <3>4. use[i] = NoUse \/ [use[i] EXCEPT !.expires = "never"] = c.use
        BY <3>1 DEF IInv, CopiesMatch
      <3>5. QED
        BY <3>1, <3>2, <3>3, <3>4
    <2>2. CASE ~ \E c \in req[q].copies : c.row = i
      BY <1>1, <2>2 DEF IInv, TypeOK
    <2>3. QED
      BY <2>1, <2>2
  <1>5. TypeOK'
    BY <1>1, <1>2, <1>3, <1>4 DEF IInv, TypeOK
  <1>6. NoneNew
    <2> SUFFICES ASSUME NEW d \in Discounts, NEW i \in Granted(d)'
                 PROVE  i \in Granted(d) /\ use'[i].member = use[i].member
      BY DEF NoneNew
    <2>1. i \in Rows /\ use'[i] # NoUse /\ use'[i].disc = d /\ use'[i].by = "code" /\ i \notin revived'
      BY DEF Granted, UsesIn, Live
    <2>2. i \notin revived /\ (i \in rows => use[i] # NoUse)
      BY <1>1, <2>1 DEF Live
    <2>3. /\ use[i] # NoUse
          /\ use'[i] = use[i] \/ use'[i] = [use[i] EXCEPT !.expires = "never"]
      BY <1>4, <2>1, <2>2
    <2>4. /\ use[i].disc = use'[i].disc /\ use[i].by = use'[i].by
          /\ use[i].member = use'[i].member
      BY <2>1, <2>3 DEF IInv, TypeOK, Use
    <2>5. QED
      BY <2>1, <2>2, <2>3, <2>4 DEF Granted, UsesIn, Live
  <1>7. NoCreator
    BY <1>1, <1>2 DEF NoCreator
  <1>8. CopiesMatch'
    <2>1. CopiesFrom
      BY <1>2 DEF CopiesFrom
    <2>2. ASSUME NEW p \in Requests, NEW c \in req'[p].copies
          PROVE  /\ c \in req[p].copies /\ c.row \in Rows
                 /\ use'[c.row] = NoUse \/ [use'[c.row] EXCEPT !.expires = "never"] = c.use
      <3>1. p # q /\ c \in req[p].copies /\ c.row \in Rows
        BY <1>2, <2>2 DEF IInv, TypeOK, Local, Copy
      <3>2. [c.use EXCEPT !.expires = "never"] = c.use
        <4>1. c.use \in Use /\ c.use.expires = "never"
          BY <3>1 DEF IInv, TypeOK, Local, Copy
        <4>2. QED
          BY <4>1 DEF Use
      <3>3. CASE use'[c.row] = use[c.row]
        BY <3>1, <3>3 DEF IInv, CopiesMatch
      <3>4. CASE \E e \in req[q].copies : e.row = c.row /\ use'[c.row] = e.use
        BY <3>1, <3>2, <3>4 DEF IInv, CopiesMatch
      <3>5. QED
        BY <1>4, <3>1, <3>3, <3>4
    <2>3. ASSUME NEW p \in Requests, NEW c \in req'[p].copies,
                 NEW r \in Requests, NEW e \in req'[r].copies, e.row = c.row
          PROVE  e.use = c.use
      <3>1. c \in req[p].copies /\ e \in req[r].copies
        BY <2>2, <2>3
      <3>2. QED
        BY <2>3, <3>1 DEF IInv, CopiesMatch
    <2>4. QED
      BY <2>2, <2>3 DEF CopiesMatch
  <1>9. QED
    BY <1>5, <1>6, <1>7, <1>8, FewerGranted DEF IInv

-----------------------------------------------------------------------------
(* The check under the lock finds room, and it stays until the creation.   *)
LEMMA AcceptKeeps ==
  ASSUME IInv, NEW q \in Requests, Accept(q)
  PROVE  IInv'
  <1> DEFINE d == req[q].disc
             m == req[q].member
  <1>1. /\ d \in Discounts /\ m \in Members /\ lock[d] = NoRequest
        /\ lock' = [lock EXCEPT ![d] = q] /\ ~Refused(d, m)
        /\ req' = [req EXCEPT ![q].pc = "create"]
        /\ req[q].pc = "delete"
        /\ UNCHANGED <<use, registered, revived, crashes>>
    BY DEF Accept, Purged, GoTo, LockAvailable, IInv, TypeOK
  <1>2. /\ req' \in [Requests -> Local]
        /\ req'[q] = [req[q] EXCEPT !.pc = "create"]
        /\ req'[q].disc = d /\ req'[q].member = m /\ req'[q].pc = "create"
        /\ req'[q].copies = req[q].copies
        /\ \A p \in Requests : p # q => req'[p] = req[p]
    BY <1>1 DEF IInv, TypeOK, Local
  <1>3. TypeOK'
    BY <1>1, <1>2 DEF IInv, TypeOK
  <1>4. \A p \in Requests : req[p].pc = "create" => req[p].disc # d
    BY <1>1, ConstantsAssumption DEF IInv, CreatorHoldsLock, ConstantsAssumption
  <1>5. CreatorHoldsLock'
    BY <1>1, <1>2, <1>4 DEF IInv, CreatorHoldsLock, TypeOK
  <1>6. CopiesMatch'
    BY <1>1, <1>2, CopiesKept DEF CopiesFrom, RowsKept, SameRow
  <1>7. \A x : Granted(x)' = Granted(x)
    BY <1>1 DEF Granted, UsesIn, Live
  <1>8. RoomFor(d, m)
    <2>1. \A i \in Granted(d) : use[i].member # m
      BY <1>1 DEF Refused, UsedOrClosed, Granted, UsesOf, UsesIn
    <2>2. ASSUME MaxRedeem[d] > 0
          PROVE  Cardinality(Granted(d)) <= MaxRedeem[d]
      <3>1. /\ Granted(d) \subseteq UsesIn(d) /\ UsesIn(d) \subseteq Rows
        BY DEF Granted, UsesIn, Live
      <3>2. IsFiniteSet(UsesIn(d)) /\ Cardinality(Granted(d)) <= Cardinality(UsesIn(d))
        BY <3>1, FS_Subset, ConstantsAssumption DEF ConstantsAssumption
      <3>3. ~(Cardinality(UsesIn(d)) > MaxRedeem[d])
        BY <1>1, <2>2 DEF Refused, Maxed
      <3>4. Cardinality(UsesIn(d)) \in Nat /\ Cardinality(Granted(d)) \in Nat /\ MaxRedeem[d] \in Nat
        BY <1>1, <3>2, GrantedFinite, FS_CardinalityType, ConstantsAssumption DEF ConstantsAssumption
      <3>5. QED
        BY <3>2, <3>3, <3>4
    <2>3. QED
      BY <2>1, <2>2 DEF RoomFor
  <1>9. RoomIsKept'
    BY <1>1, <1>2, <1>7, <1>8 DEF IInv, RoomIsKept, RoomFor
  <1>10. CodeUsesBounded' /\ OncePerMember'
    BY <1>1, <1>7 DEF IInv, CodeUsesBounded, OncePerMember
  <1>11. QED
    BY <1>3, <1>5, <1>6, <1>9, <1>10 DEF IInv

(* What both insertions do.                                                *)
LEMMA InsertShape ==
  ASSUME IInv, NEW q \in Requests, NEW i \in Rows, req[q].pc # "idle",
         NEW expires \in {"later", "never"}, NEW by \in {"code", "organizer"}, Insert(q, i, expires, by)
  PROVE  /\ i \notin Live /\ revived' = revived \ {i} /\ req'[q] = Idle
         /\ \A p \in Requests : p # q => req'[p] = req[p]
         /\ req' \in [Requests -> Local]
         /\ use' \in [Rows -> Use \cup {NoUse}]
         /\ use'[i] \in Use /\ use'[i].disc = req[q].disc /\ use'[i].member = req[q].member /\ use'[i].by = by
         /\ \A j \in Rows : j # i => use'[j] = use[j]
         /\ \A p \in Requests : req'[p].pc # "idle" => p # q
         /\ CopiesMatch'
  <1> DEFINE new == [disc |-> req[q].disc, member |-> req[q].member, expires |-> expires, by |-> by]
  <1>1. /\ i \notin Live /\ i \notin Held /\ use' = [use EXCEPT ![i] = new]
        /\ revived' = revived \ {i} /\ req' = [req EXCEPT ![q] = Idle]
    BY DEF Insert, Finish
  <1>2. new \in Use
    BY DEF IInv, TypeOK, Use, Expiries
  <1>3. /\ req'[q] = Idle /\ \A p \in Requests : p # q => req'[p] = req[p]
        /\ req' \in [Requests -> Local]
    BY <1>1, IdleType DEF IInv, TypeOK
  <1>4. /\ use' \in [Rows -> Use \cup {NoUse}] /\ use'[i] = new
        /\ \A j \in Rows : j # i => use'[j] = use[j]
    BY <1>1, <1>2 DEF IInv, TypeOK
  <1>5. CopiesMatch'
    <2>1. CopiesFrom
      BY <1>3, IdleType DEF CopiesFrom
    <2>2. \A p \in Requests : \A c \in req'[p].copies : c.row # i
      BY <1>1, <1>3, IdleType DEF Held
    <2>3. RowsKept
      BY <1>4, <2>2 DEF RowsKept, SameRow
    <2>4. QED
      BY <2>1, <2>3, CopiesKept
  <1>6. QED
    BY <1>1, <1>2, <1>3, <1>4, <1>5, IdleType

LEMMA InsertAddedKeeps ==
  ASSUME IInv, NEW q \in Requests, NEW i \in Rows, InsertAdded(q, i)
  PROVE  IInv'
  <1>1. /\ req[q].pc = "insert" /\ Insert(q, i, "never", "organizer")
        /\ UNCHANGED <<lock, registered, crashes>>
    BY DEF InsertAdded
  <1>2. TypeOK' /\ CopiesMatch'
    BY <1>1, InsertShape, IdleType DEF IInv, TypeOK
  <1>3. NoneNew
    BY <1>1, InsertShape DEF NoneNew, Granted, UsesIn, Live
  <1>4. NoCreator
    BY <1>1, InsertShape, IdleType DEF NoCreator
  <1>5. QED
    BY <1>2, <1>3, <1>4, FewerGranted DEF IInv

(* The use that a code creates takes the place kept by the lock.           *)
LEMMA ReserveKeeps ==
  ASSUME IInv, NEW q \in Requests, NEW i \in Rows, Reserve(q, i)
  PROVE  IInv'
  <1>0. PICK d \in Discounts, m \in Members : d = req[q].disc /\ m = req[q].member
    BY DEF Reserve, IInv, TypeOK
  <1>1. /\ req[q].pc = "create" /\ Insert(q, i, "later", "code") /\ Unlock(q)
        /\ UNCHANGED <<registered, crashes>>
        /\ lock[d] = q
    BY <1>0 DEF Reserve, IInv, TypeOK, CreatorHoldsLock
  <1>2. TypeOK' /\ CopiesMatch'
    BY <1>1, InsertShape, IdleType DEF IInv, TypeOK, Unlock
  <1>3. \A p \in Requests : req'[p].pc = "create" => p # q /\ req'[p] = req[p] /\ req[p].disc # d
    BY <1>0, <1>1, InsertShape, IdleType DEF IInv, CreatorHoldsLock
  <1>4. CreatorHoldsLock'
    BY <1>1, <1>3 DEF IInv, CreatorHoldsLock, TypeOK, Unlock
  <1>5. /\ i \notin Live /\ revived' = revived \ {i} /\ use'[i].disc = d /\ use'[i].member = m
        /\ \A j \in Rows : j # i => use'[j] = use[j]
    BY <1>0, <1>1, InsertShape
  <1>5a. i \notin Granted(d)
    BY <1>5 DEF Granted, UsesIn
  <1>5b. ASSUME NEW x \in Discounts, NEW j \in Granted(x)'
         PROVE  /\ j \in Rows
                /\ j = i => x = d
                /\ j # i => j \in Granted(x) /\ use'[j] = use[j]
    BY <1>5 DEF Granted, UsesIn, Live
  <1>6. RoomFor(d, m)
    BY <1>0, <1>1 DEF IInv, RoomIsKept
  <1>7. ASSUME NEW x \in Discounts
        PROVE  /\ Cardinality(Granted(x)) \in Nat /\ Cardinality(Granted(x)') \in Nat /\ MaxRedeem[x] \in Nat
               /\ x # d => Cardinality(Granted(x)') <= Cardinality(Granted(x))
               /\ x = d => Cardinality(Granted(x)') <= Cardinality(Granted(x)) + 1
    <2>0. /\ Granted(x)' \subseteq Granted(x) \cup {i}
          /\ x # d => Granted(x)' \subseteq Granted(x)
      BY <1>5b
    <2>1. /\ IsFiniteSet(Granted(x) \cup {i})
          /\ x = d => Cardinality(Granted(x) \cup {i}) = Cardinality(Granted(x)) + 1
      BY <1>5a, GrantedFinite, FS_AddElement
    <2>2. x = d => Cardinality(Granted(x)') <= Cardinality(Granted(x) \cup {i})
      BY <2>0, <2>1, FS_Subset
    <2>3. x # d => Cardinality(Granted(x)') <= Cardinality(Granted(x))
      BY <2>0, GrantedFinite, FS_Subset
    <2>4. QED
      BY <2>1, <2>2, <2>3, GrantedFinite, FS_CardinalityType, ConstantsAssumption DEF ConstantsAssumption
  <1>8. CodeUsesBounded'
    <2> SUFFICES ASSUME NEW x \in Discounts, MaxRedeem[x] > 0
                 PROVE  Cardinality(Granted(x)') <= MaxRedeem[x] + 1
      BY DEF CodeUsesBounded
    <2>1. CASE x = d
      BY <1>6, <1>7, <2>1 DEF RoomFor
    <2>2. CASE x # d
      BY <1>7, <2>2 DEF IInv, CodeUsesBounded
    <2>3. QED
      BY <2>1, <2>2
  <1>9. OncePerMember'
    <2> SUFFICES ASSUME NEW x \in Discounts, NEW j \in Granted(x)', NEW k \in Granted(x)',
                        use'[j].member = use'[k].member
                 PROVE  j = k
      BY DEF OncePerMember
    <2>1. CASE j # i /\ k # i
      <3>1. j \in Granted(x) /\ k \in Granted(x) /\ use[j].member = use[k].member
        BY <1>5b, <2>1
      <3>2. QED
        BY <3>1 DEF IInv, OncePerMember
    <2>2. CASE j = i \/ k = i
      <3>1. x = d /\ use'[i].member = m
        BY <1>5, <1>5b, <2>2
      <3>2. QED
        BY <1>5, <1>5b, <1>6, <2>2, <3>1 DEF RoomFor
    <2>3. QED
      BY <2>1, <2>2
  <1>10. RoomIsKept'
    <2> SUFFICES ASSUME NEW p \in Requests, NEW x \in Discounts, NEW y \in Members,
                        req'[p].pc = "create", req'[p].disc = x, req'[p].member = y
                 PROVE  RoomFor(x, y)'
      BY DEF RoomIsKept
    <2>1. x # d /\ req[p].pc = "create" /\ req[p].disc = x /\ req[p].member = y
      BY <1>3
    <2>2. RoomFor(x, y)
      BY <2>1 DEF IInv, RoomIsKept
    <2>3. \A j \in Granted(x)' : j \in Granted(x) /\ use'[j] = use[j]
      BY <1>5b, <2>1
    <2>4. QED
      BY <1>7, <2>1, <2>2, <2>3 DEF RoomFor
  <1>11. QED
    BY <1>2, <1>4, <1>8, <1>9, <1>10 DEF IInv

LEMMA StutterKeeps == IInv /\ UNCHANGED vars => IInv'
  <1> SUFFICES ASSUME IInv, UNCHANGED vars PROVE IInv'
    OBVIOUS
  <1>1. TypeOK' /\ NoneNew /\ NoCreator
    BY SameUses DEF IInv, vars, TypeOK, NoCreator
  <1>2. CopiesMatch'
    BY CopiesKept DEF vars, CopiesFrom, RowsKept, SameRow
  <1>3. QED
    BY <1>1, <1>2, FewerGranted DEF IInv

LEMMA NextKeeps == IInv /\ [Next]_vars => IInv'
  <1> SUFFICES ASSUME IInv, Next PROVE IInv'
    BY StutterKeeps
  <1>1. ASSUME NEW q \in Requests, Continue(q) PROVE IInv'
    <2>1. ASSUME NEW c \in req[q].copies, DeleteOne(q, c) PROVE IInv'
      BY <2>1, DeleteKeeps
    <2>2. CASE Deny(q)
      BY <2>2, EndKeeps DEF Deny, Finish, IInv, TypeOK
    <2>3. CASE Accept(q)
      BY <2>3, AcceptKeeps
    <2>4. CASE Confirm(q)
      BY <2>4, ConfirmKeeps
    <2>5. ASSUME NEW i \in Rows, Reserve(q, i) \/ InsertAdded(q, i) PROVE IInv'
      BY <2>5, ReserveKeeps, InsertAddedKeeps
    <2>6. QED
      BY <1>1, <2>1, <2>2, <2>3, <2>4, <2>5 DEF Continue
  <1>2. ASSUME NEW q \in Requests, Crash(q) PROVE IInv'
    <2>1. crashes' \in Nat
      BY <1>2 DEF Crash, IInv, TypeOK
    <2>2. QED
      BY <1>2, <2>1, EndKeeps DEF Crash, Finish
  <1>3. ASSUME NEW q \in Requests, NEW m \in Members, NEW d \in Discounts, Begin(q, m, d) PROVE IInv'
    BY <1>3, BeginKeeps
  <1>4. ASSUME NEW i \in Rows, Elapse(i) PROVE IInv'
    BY <1>4, ElapseKeeps
  <1>5. QED
    BY <1>1, <1>2, <1>3, <1>4 DEF Next

(* The inductive invariant.                                                *)
LEMMA InvariantHolds == Spec => []IInv
  BY InitIInv, NextKeeps, PTL DEF Spec

(* Every table and every request keeps its type.                           *)
THEOREM TypeCorrect == Spec => []TypeOK
  <1>1. IInv => TypeOK
    BY DEF IInv
  <1>2. QED
    BY <1>1, InvariantHolds, PTL

(* _is_discount_maxed lets codes give one use more than max_redeem; under  *)
(* the lock of the discount no race adds another to it.                    *)
THEOREM CodesStayBounded == Spec => []CodeUsesBounded
  <1>1. IInv => CodeUsesBounded
    BY DEF IInv
  <1>2. QED
    BY <1>1, InvariantHolds, PTL

(* _is_discount_already_used under the lock of the discount: a member gets *)
(* one use of it by code.                                                  *)
THEOREM OneUsePerMember == Spec => []OncePerMember
  <1>1. IInv => OncePerMember
    BY DEF IInv
  <1>2. QED
    BY <1>1, InvariantHolds, PTL
=============================================================================
