-------------------------- MODULE FrontDeskProofs --------------------------
(* Theorems about FrontDesk and what DeskViews reads off it, for every gym,  *)
(* every number of plans and branches, and every bound: the front desk keeps *)
(* the books of SoldPlans, so every theorem about those holds of it, and the *)
(* till, the door and the stamp of the last visit agree with them.           *)
EXTENDS DeskViews, SoldPlansRecordsProofs, Totals

-----------------------------------------------------------------------------
(* The steps of the front desk *)

(* The door admits a visit, or turns away some sold plans at their branch. *)
DoorLetsIn(s) ==
  /\ LetIn(s)
  /\ \E b \in Branches : Denial(s, b) = "none"

DoorTurnsAway(blocked) ==
  /\ TurnAway(blocked)
  /\ \A s \in blocked : sub[s].status # "UNSOLD" /\ ~soldEverywhere[s]

FreshIsEmpty == \A s \in Subs : sub[s].status = "UNSOLD" => sub[s] = Unsold

LEMMA ServedPlansAreSold ==
  ASSUME FreshIsEmpty, NEW m \in Members, NEW s \in PlansOf(m)
  PROVE  sub[s].status # "UNSOLD"
<1>1. sub[s].member # Null
  BY TermsAssumption DEF PlansOf
<1> QED
  BY <1>1 DEF PlansOf, FreshIsEmpty, Unsold

LEMMA WrongBranch ==
  ASSUME NEW s \in Subs, NEW b \in Branches, Denial(s, b) = "branch"
  PROVE  ~soldEverywhere[s]
  BY DEF Denial, InScope

LEMMA CheckInShape ==
  ASSUME FreshIsEmpty, NEW m \in Members, NEW b \in Branches, CheckIn(m, b)
  PROVE  \/ \E s \in Subs : DoorLetsIn(s)
         \/ \E blocked \in SUBSET Subs : DoorTurnsAway(blocked)
<1>1. CASE \E s \in Picks(m, b) : LetIn(s)
  BY <1>1 DEF Picks, Eligible, PlansOf, DoorLetsIn
<1>2. CASE TurnAway({s \in PlansOf(m) : Denial(s, b) = "branch"})
  <2> DEFINE blocked == {s \in PlansOf(m) : Denial(s, b) = "branch"}
  <2>1. blocked \in SUBSET Subs
    BY DEF PlansOf
  <2>2. \A s \in blocked : sub[s].status # "UNSOLD" /\ ~soldEverywhere[s]
    BY <2>1, ServedPlansAreSold, WrongBranch
  <2> QED
    BY <1>2, <2>1, <2>2 DEF DoorTurnsAway
<1> QED
  BY <1>1, <1>2 DEF CheckIn

LEMMA CheckInOnShape ==
  ASSUME NEW s \in Subs, NEW b \in Branches, CheckInOn(s, b)
  PROVE  \/ DoorLetsIn(s)
         \/ DoorTurnsAway({s})
<1>1. CASE Denial(s, b) = "none" /\ LetIn(s)
  BY <1>1 DEF DoorLetsIn
<1>2. CASE Denial(s, b) = "branch" /\ TurnAway({s})
  BY <1>2, WrongBranch DEF CheckInOn, IsSold, DoorTurnsAway
<1> QED
  BY <1>1, <1>2 DEF CheckInOn

OwnerEdits ==
  \/ \E p \in Edited : WidenPlan(p) \/ \E bs \in SUBSET Branches : SelectBranches(p, bs)
  \/ \E b \in Branches : PatchBranch(b)
  \/ \E g \in Gates : PatchGate(g)

SomeoneSells ==
  \E s \in Subs, m \in Members, p \in Plans, b \in Branches,
     paid \in Nat, enters \in BOOLEAN : SellDayPass(s, m, p, b, paid, enters)

SomeonePays ==
  \E s \in Subs : \E amount \in Amounts \cup {Due(s)} : IsSold(s) /\ Pay(s, amount)

LEMMA DeskCases ==
  ASSUME FreshIsEmpty, [DeskNext]_deskVars
  PROVE  \/ KeepBooks
         \/ \E s \in Subs, m \in Members, p \in Plans : SellPlan(s, m, p)
         \/ \E s \in Subs, next \in Subs : RenewPlan(s, next)
         \/ \E s \in Subs : DoorLetsIn(s)
         \/ \E blocked \in SUBSET Subs : DoorTurnsAway(blocked)
         \/ SomeoneSells
         \/ OwnerEdits
         \/ SomeonePays
         \/ \E i \in DOMAIN payments : Void(i)
         \/ UNCHANGED deskVars
<1>1. CASE Elsewhere
  <2>1. CASE \E s \in Subs, b \in Branches : CheckInOn(s, b)
    BY <2>1, CheckInOnShape
  <2>2. CASE \E m \in Members, b \in Branches : CheckIn(m, b)
    BY <2>2, CheckInShape
  <2>3. CASE \E s \in Subs, m \in Members, p \in Plans, b \in Branches :
               \E paid \in Amounts \cup {0, Price[p]}, enters \in BOOLEAN :
                 SellDayPass(s, m, p, b, paid, enters)
    <3>1. \A p \in Plans : \A paid \in Amounts \cup {0, Price[p]} : paid \in Nat
      <4>1. Amounts \subseteq Nat /\ \A p \in Plans : Price[p] \in Nat
        BY FrontDeskAssumption
      <4> QED
        BY <4>1
    <3> QED
      BY <2>3, <3>1 DEF SomeoneSells
  <2> QED
    BY <1>1, <2>1, <2>2, <2>3 DEF Elsewhere, OwnerEdits
<1> QED
  BY <1>1 DEF DeskNext, SomeonePays

(* What a step leaves alone of everything that is not in the books. *)
LEMMA BooksMove ==
  ASSUME [DeskNext]_deskVars, FreshIsEmpty
  PROVE  [Next]_vars
<1>1. CASE KeepBooks
  BY <1>1 DEF KeepBooks, Next
<1>2. CASE \E s \in Subs, m \in Members, p \in Plans : SellPlan(s, m, p)
  BY <1>2 DEF SellPlan, Next
<1>3. CASE \E s \in Subs, next \in Subs : RenewPlan(s, next)
  BY <1>3 DEF RenewPlan, Next
<1>4. CASE \E s \in Subs : DoorLetsIn(s)
  BY <1>4 DEF DoorLetsIn, LetIn, Next
<1>5. CASE \E blocked \in SUBSET Subs : DoorTurnsAway(blocked)
  BY <1>5 DEF DoorTurnsAway, TurnAway, Next
<1>6. CASE SomeoneSells
  BY <1>6 DEF SomeoneSells, SellDayPass, Next
<1>7. CASE OwnerEdits
  BY <1>7 DEF OwnerEdits, WidenPlan, SelectBranches, PatchBranch, PatchGate, books
<1>8. CASE SomeonePays \/ \E i \in DOMAIN payments : Void(i)
  BY <1>8 DEF SomeonePays, Pay, Void, books
<1>9. CASE UNCHANGED deskVars
  BY <1>9 DEF deskVars, books
<1> QED
  BY <1>1, <1>2, <1>3, <1>4, <1>5, <1>6, <1>7, <1>8, <1>9, DeskCases

-----------------------------------------------------------------------------
(* Rows under a step of the books *)

LEMMA SoldStays ==
  ASSUME IInv, [Next]_vars, NEW r \in Subs, sub[r].status # "UNSOLD"
  PROVE  /\ sub'[r].status # "UNSOLD"
         /\ sub'[r].plan = sub[r].plan /\ sub'[r].member = sub[r].member
         /\ sub[r].plan \in Plans /\ sub[r].member \in Members
<1>1. /\ RowOK(sub[r], freezes[r], now) /\ RowOK(Settled(r), SettledFreezes(r), now)
      /\ now \in Time /\ settings \in Settings
  BY RowsAreOK, SettledRow
<1>2. /\ Settled(r).plan = sub[r].plan /\ Settled(r).member = sub[r].member
      /\ Settled(r).status # "UNSOLD"
  BY <1>1, SettleKeeps, SettledFields DEF Settled
<1>3. Settled(r) \in SoldPlan /\ sub[r].plan \in Plans /\ sub[r].member \in Members
  BY <1>1 DEF RowOK, InOrder
<1>4. CASE Tick \/ Bystander(r)
  BY <1>2, <1>3, <1>4 DEF Tick, Bystander, Kept, SettledOnly
<1>5. CASE SoldNow(r)
  BY <1>5 DEF SoldNow, IsFresh
<1>6. CASE FrozenNow(r)
  <2>1. PICK days \in Nat \ {0} : sub'[r] = FreezeRow(Settled(r), now, days)
    BY <1>6 DEF FrozenNow
  <2> QED
    BY <1>2, <1>3, <2>1 DEF FreezeRow, SoldPlan
<1>7. CASE UnfrozenNow(r)
  BY <1>2, <1>3, <1>7 DEF UnfrozenNow, UnfreezeRow, ThawRow, SoldPlan
<1>8. CASE CancelledNow(r)
  BY <1>2, <1>3, <1>8 DEF CancelledNow, CancelRow, SoldPlan
<1>9. CASE VisitedNow(r)
  <2>1. /\ RowOK(VisitRow(Settled(r), settings, now), SettledFreezes(r), now)
        /\ VisitRow(Settled(r), settings, now).member = Settled(r).member
        /\ VisitRow(Settled(r), settings, now).plan = Settled(r).plan
    BY <1>1, <1>9, VisitKeeps DEF VisitedNow
  <2>2. VisitRow(Settled(r), settings, now).status # "UNSOLD"
    BY <1>2, <1>3 DEF VisitRow, SoldPlan
  <2> QED
    BY <1>2, <1>3, <1>9, <2>1, <2>2 DEF VisitedNow
<1> QED
  BY <1>4, <1>5, <1>6, <1>7, <1>8, <1>9, StepShape DEF ChangedNow

LEMMA FreshStays ==
  ASSUME IInv, [Next]_vars, NEW r \in Subs, sub[r].status = "UNSOLD"
  PROVE  sub'[r] = sub[r] \/ sub'[r].status # "UNSOLD"
<1>1. Settled(r) = sub[r]
  BY SettledStays
<1>2. CASE Tick \/ Bystander(r)
  BY <1>1, <1>2 DEF Tick, Bystander, Kept, SettledOnly
<1>3. CASE SoldNow(r)
  <2>1. PICK m \in Members, p \in Plans :
          \/ sub'[r] = SellRow(m, p, now)
          \/ \E enters \in BOOLEAN : sub'[r] = WalkInRow(m, p, now, enters)
    BY <1>3 DEF SoldNow
  <2>2. SellRow(m, p, now).status = "ACTIVE"
    BY DEF SellRow, Unsold
  <2>3. \A enters \in BOOLEAN : WalkInRow(m, p, now, enters).status = "ACTIVE"
    BY DEF WalkInRow, SellRow, Unsold
  <2> QED
    BY <2>1, <2>2, <2>3
<1>4. ~FrozenNow(r) /\ ~UnfrozenNow(r) /\ ~CancelledNow(r) /\ ~VisitedNow(r)
  BY <1>1 DEF FrozenNow, UnfrozenNow, CancelledNow, MayCancel, VisitedNow, DoorOpensFor
<1> QED
  BY <1>2, <1>3, <1>4, StepShape DEF ChangedNow

LEMMA EmptyStays ==
  ASSUME IInv, FreshIsEmpty, [Next]_vars
  PROVE  FreshIsEmpty'
<1> SUFFICES ASSUME NEW r \in Subs, sub'[r].status = "UNSOLD" PROVE sub'[r] = Unsold
  BY DEF FreshIsEmpty
<1>1. sub[r].status = "UNSOLD"
  BY SoldStays
<1> QED
  BY <1>1, FreshStays DEF FreshIsEmpty

(* A visit is of a sold plan, and a fresh row has none. *)
LEMMA FreshHasNoVisit ==
  ASSUME RInv, NEW s \in Subs, sub[s].status = "UNSOLD"
  PROVE  visits[s] = <<>>
  BY RowsAreRecorded DEF RecordOK, Accounted

(* A front desk is a gym of SoldPlans, whatever else it does. *)
BooksInv == RInv /\ FreshIsEmpty

LEMMA BooksAreKept ==
  ASSUME BooksInv, [DeskNext]_deskVars
  PROVE  /\ [Next]_vars
         /\ BooksInv'
<1>1. [Next]_vars
  BY BooksMove DEF BooksInv
<1>2. RInv'
  BY <1>1, RecNext DEF BooksInv
<1>3. FreshIsEmpty'
  BY <1>1, EmptyStays DEF BooksInv, RInv
<1> QED
  BY <1>1, <1>2, <1>3 DEF BooksInv

LEMMA BooksStart == DeskInit => BooksInv
<1> SUFFICES ASSUME DeskInit PROVE BooksInv
  OBVIOUS
<1>1. Init
  BY DEF DeskInit
<1>2. RInv
  BY <1>1, RecInit
<1>3. FreshIsEmpty
  BY <1>1 DEF Init, FreshIsEmpty
<1> QED
  BY <1>2, <1>3 DEF BooksInv

LEMMA BooksHold == DeskSpec => []BooksInv
<1>1. BooksInv /\ [DeskNext]_deskVars => BooksInv'
  BY BooksAreKept
<1> QED
  BY <1>1, BooksStart, PTL DEF DeskSpec

(* The front desk implements SoldPlans: the door, the till and the owner's   *)
(* edits touch a sold plan only by its operations, so that every theorem     *)
(* about SoldPlans is a theorem about the whole desk.                        *)
THEOREM DeskKeepsTheBooks == DeskSpec => Spec
<1>1. DeskInit => Init
  BY DEF DeskInit
<1>2. BooksInv /\ [DeskNext]_deskVars => [Next]_vars
  BY BooksAreKept
<1> QED
  BY <1>1, <1>2, BooksHold, PTL DEF DeskSpec, Spec

-----------------------------------------------------------------------------
(* Money: what a sold plan has collected *)

(* The payments that count for s, in a list of payments of its own. *)
CountedFor(pay, s) == {i \in DOMAIN pay : Counts(pay[i], s)}

AmountsOf(pay) == [i \in DOMAIN pay |-> pay[i].amount]

PaidIn(pay, s) == Total(AmountsOf(pay), CountedFor(pay, s))

LEMMA PaymentsAreListed ==
  ASSUME NEW pay \in Seq(Payment)
  PROVE  /\ Len(pay) \in Nat /\ DOMAIN pay = 1 .. Len(pay)
         /\ \A i \in DOMAIN pay : pay[i] \in Payment /\ pay[i].amount \in Nat
         /\ \A T \in SUBSET DOMAIN pay : IsFiniteSet(T)
<1>1. Len(pay) \in Nat /\ DOMAIN pay = 1 .. Len(pay)
  BY LenProperties
<1>2. \A i \in DOMAIN pay : pay[i] \in Payment
  BY <1>1, ElementOfSeq
<1>3. \A i \in DOMAIN pay : pay[i].amount \in Nat
  BY <1>2 DEF Payment
<1>4. IsFiniteSet(DOMAIN pay)
  BY <1>1, FS_Interval
<1>5. \A T \in SUBSET DOMAIN pay : IsFiniteSet(T)
  BY <1>4, FS_Subset
<1> QED
  BY <1>1, <1>2, <1>3, <1>5

(* MapThenSumSet over any set of payments is a Total. *)
LEMMA AmountsAdd ==
  ASSUME NEW pay \in Seq(Payment), NEW T \in SUBSET DOMAIN pay
  PROVE  MapThenSumSet(LAMBDA i : pay[i].amount, T) = Total(AmountsOf(pay), T)
<1> DEFINE g == AmountsOf(pay)
<1>1. IsFiniteSet(T)
  BY PaymentsAreListed
<1>2. \A s \in SUBSET T : s # {} => g[Pick(s)] = pay[Pick(s)].amount
  BY PickIsOne DEF AmountsOf
<1> HIDE DEF g
<1>3. PICK h : Adds(g, T, h)
  BY <1>1, AddsSomehow
<1>4. \A k : k = [s \in SUBSET T |-> IF s = {} THEN 0
                                     ELSE pay[Pick(s)].amount + k[Rest(s)]]
               => Adds(g, T, k)
  <2> SUFFICES ASSUME NEW k,
                      k = [s \in SUBSET T |-> IF s = {} THEN 0
                                              ELSE pay[Pick(s)].amount + k[Rest(s)]]
               PROVE  Adds(g, T, k)
    OBVIOUS
  <2>1. \A s \in SUBSET T : k[s] = IF s = {} THEN 0 ELSE g[Pick(s)] + k[Rest(s)]
    BY <1>2
  <2>2. k = [s \in SUBSET T |-> k[s]]
    OBVIOUS
  <2>3. k = [s \in SUBSET T |-> IF s = {} THEN 0 ELSE g[Pick(s)] + k[Rest(s)]]
    BY <2>1, <2>2
  <2> QED
    BY <2>3 DEF Adds
<1>5. h = [s \in SUBSET T |-> IF s = {} THEN 0 ELSE pay[Pick(s)].amount + h[Rest(s)]]
  <2>1. \A s \in SUBSET T :
          h[s] = IF s = {} THEN 0 ELSE pay[Pick(s)].amount + h[Rest(s)]
    BY <1>2, <1>3 DEF Adds
  <2>2. h = [s \in SUBSET T |-> h[s]]
    BY <1>3 DEF Adds
  <2> QED
    BY <2>1, <2>2
<1>6. \E k : /\ k = [s \in SUBSET T |-> IF s = {} THEN 0
                                       ELSE pay[Pick(s)].amount + k[Rest(s)]]
             /\ MapThenSumSet(LAMBDA i : pay[i].amount, T) = k[T]
  BY <1>5 DEF MapThenSumSet, MapThenFoldSet, Pick, Rest
<1>7. MapThenSumSet(LAMBDA i : pay[i].amount, T) = Total(g, T)
  BY <1>1, <1>4, <1>6, TotalAdds
<1> QED
  BY <1>7 DEF g

LEMMA PaidTotalIs ==
  ASSUME payments \in Seq(Payment), NEW s
  PROVE  PaidTotal(s) = PaidIn(payments, s)
  BY AmountsAdd DEF PaidTotal, PaidIn, CountedFor

LEMMA PaidIsNumber ==
  ASSUME NEW pay \in Seq(Payment), NEW s
  PROVE  PaidIn(pay, s) \in Nat
<1> DEFINE g == AmountsOf(pay)
           T == CountedFor(pay, s)
<1>1. T \in SUBSET DOMAIN pay /\ IsFiniteSet(T)
  BY PaymentsAreListed DEF CountedFor
<1>2. \A i \in T : g[i] \in Int /\ g[i] >= 0
  BY <1>1, PaymentsAreListed DEF AmountsOf
<1> HIDE DEF g, T
<1>3. Total(g, T) \in Int /\ Total(g, T) >= 0
  BY <1>1, <1>2, TotalIsNumber
<1> QED
  BY <1>3 DEF PaidIn, g, T

LEMMA NothingPaid ==
  ASSUME NEW pay, NEW s, \A i \in DOMAIN pay : pay[i].sub # s
  PROVE  PaidIn(pay, s) = 0
<1>1. CountedFor(pay, s) = {}
  BY DEF CountedFor, Counts
<1> QED
  BY <1>1, TotalOfNone DEF PaidIn

LEMMA PaymentIsAdded ==
  ASSUME NEW pay \in Seq(Payment), NEW e \in Payment, NEW s
  PROVE  /\ Append(pay, e) \in Seq(Payment)
         /\ DOMAIN Append(pay, e) = DOMAIN pay \cup {Len(pay) + 1}
         /\ Append(pay, e)[Len(pay) + 1] = e
         /\ \A i \in DOMAIN pay : Append(pay, e)[i] = pay[i]
         /\ PaidIn(Append(pay, e), s)
              = PaidIn(pay, s) + (IF Counts(e, s) THEN e.amount ELSE 0)
<1> DEFINE more == Append(pay, e)
           new  == Len(pay) + 1
           T    == CountedFor(pay, s)
<1>1. /\ more \in Seq(Payment) /\ Len(more) = new /\ more[new] = e
      /\ \A i \in 1 .. Len(pay) : more[i] = pay[i]
  BY AppendProperties
<1>2. /\ Len(pay) \in Nat /\ DOMAIN pay = 1 .. Len(pay) /\ DOMAIN more = 1 .. new
      /\ new \notin DOMAIN pay /\ DOMAIN more = DOMAIN pay \cup {new}
  <2>1. Len(pay) \in Nat /\ DOMAIN pay = 1 .. Len(pay) /\ DOMAIN more = 1 .. new
    BY <1>1, LenProperties
  <2> QED
    BY <2>1
<1> HIDE DEF more, new
<1>3. /\ T \in SUBSET DOMAIN pay /\ IsFiniteSet(T) /\ new \notin T
      /\ \A i \in T : AmountsOf(more)[i] = AmountsOf(pay)[i]
      /\ \A i \in T \cup {new} : AmountsOf(more)[i] \in Int
  <2>1. T \in SUBSET DOMAIN pay /\ IsFiniteSet(T) /\ new \notin T
    BY <1>2, PaymentsAreListed DEF CountedFor
  <2>2. \A i \in T : AmountsOf(more)[i] = AmountsOf(pay)[i]
    BY <1>1, <1>2, <2>1 DEF AmountsOf
  <2>3. \A i \in DOMAIN more : more[i].amount \in Nat
    BY <1>1, PaymentsAreListed
  <2>4. \A i \in T \cup {new} : AmountsOf(more)[i] \in Int
    <3>1. \A i \in T \cup {new} : i \in DOMAIN more
      BY <1>2, <2>1
    <3>2. \A i \in DOMAIN more : AmountsOf(more)[i] = more[i].amount
      BY DEF AmountsOf
    <3> HIDE DEF T
    <3> QED
      BY <2>3, <3>1, <3>2
  <2> QED
    BY <2>1, <2>2, <2>4
<1>4. Total(AmountsOf(more), T) = PaidIn(pay, s)
  BY <1>3, TotalSame DEF PaidIn, T
<1>5. PaidIn(more, s) = PaidIn(pay, s) + (IF Counts(e, s) THEN e.amount ELSE 0)
  <2>1. CASE Counts(e, s)
    <3>1. CountedFor(more, s) = T \cup {new}
      BY <1>1, <1>2, <2>1 DEF CountedFor, T
    <3>2. AmountsOf(more)[new] = e.amount
      BY <1>1, <1>2 DEF AmountsOf
    <3>3. Total(AmountsOf(more), T \cup {new})
            = AmountsOf(more)[new] + Total(AmountsOf(more), T)
      BY <1>3, TotalWith
    <3>4. e.amount \in Nat /\ PaidIn(pay, s) \in Nat
      BY PaidIsNumber DEF Payment
    <3>5. PaidIn(more, s) = e.amount + PaidIn(pay, s)
      BY <1>4, <3>1, <3>2, <3>3 DEF PaidIn
    <3> QED
      BY <2>1, <3>4, <3>5
  <2>2. CASE ~Counts(e, s)
    <3>1. CountedFor(more, s) = T
      BY <1>1, <1>2, <2>2 DEF CountedFor, T
    <3>2. PaidIn(more, s) = PaidIn(pay, s)
      BY <1>4, <3>1 DEF PaidIn
    <3> QED
      BY <2>2, <3>2, PaidIsNumber
  <2> QED
    BY <2>1, <2>2
<1> QED
  BY <1>1, <1>2, <1>5 DEF more, new

LEMMA PaymentIsVoided ==
  ASSUME NEW pay \in Seq(Payment), NEW i \in DOMAIN pay, NEW s
  PROVE  LET less == [pay EXCEPT ![i].status = "VOIDED"]
         IN  /\ less \in Seq(Payment) /\ DOMAIN less = DOMAIN pay
             /\ \A j \in DOMAIN pay :
                  /\ less[j].sub = pay[j].sub /\ less[j].amount = pay[j].amount
                  /\ less[j].paidAt = pay[j].paidAt
             /\ PaidIn(less, s) <= PaidIn(pay, s)
<1> DEFINE less == [pay EXCEPT ![i].status = "VOIDED"]
           T    == CountedFor(pay, s)
<1>1. /\ Len(pay) \in Nat /\ DOMAIN pay = 1 .. Len(pay)
      /\ \A j \in DOMAIN pay : pay[j] \in Payment /\ pay[j].amount \in Nat
  BY PaymentsAreListed
<1>2. /\ less = [j \in 1 .. Len(pay) |-> less[j]] /\ DOMAIN less = DOMAIN pay
      /\ less[i] = [pay[i] EXCEPT !.status = "VOIDED"]
      /\ \A j \in DOMAIN pay : j # i => less[j] = pay[j]
  BY <1>1
<1> HIDE DEF less
<1>3. /\ \A j \in DOMAIN pay :
           /\ less[j] \in Payment
           /\ less[j].sub = pay[j].sub /\ less[j].amount = pay[j].amount
           /\ less[j].paidAt = pay[j].paidAt
      /\ less[i].status = "VOIDED"
  BY <1>1, <1>2 DEF Payment
<1>4. less \in Seq(Payment)
  <2>1. less \in [1 .. Len(pay) -> Payment]
    BY <1>1, <1>2, <1>3
  <2> QED
    BY <1>1, <2>1, SeqDef
<1>5. AmountsOf(less) = AmountsOf(pay)
  BY <1>2, <1>3 DEF AmountsOf
<1>6. CountedFor(less, s) = T \ {i}
  BY <1>2, <1>3 DEF CountedFor, Counts, T
<1>7. PaidIn(less, s) <= PaidIn(pay, s)
  <2> DEFINE g == AmountsOf(pay)
  <2>1. T \in SUBSET DOMAIN pay /\ IsFiniteSet(T) /\ \A j \in T : g[j] \in Int
    BY <1>1, PaymentsAreListed DEF CountedFor, AmountsOf
  <2>2. PaidIn(less, s) = Total(g, T \ {i}) /\ PaidIn(pay, s) = Total(g, T)
    BY <1>5, <1>6 DEF PaidIn
  <2>3. PaidIn(less, s) \in Nat /\ PaidIn(pay, s) \in Nat
    BY <1>4, PaidIsNumber
  <2>4. CASE i \in T
    <3>1. g[i] \in Nat
      BY <1>1 DEF AmountsOf
    <3> HIDE DEF g, T
    <3>2. Total(g, T) = g[i] + Total(g, T \ {i})
      BY <2>1, <2>4, TotalWithout
    <3> QED
      BY <2>2, <2>3, <3>1, <3>2
  <2>5. CASE i \notin T
    <3>1. T \ {i} = T
      BY <2>5
    <3> HIDE DEF g, T
    <3>2. PaidIn(less, s) = PaidIn(pay, s)
      BY <2>2, <3>1
    <3> QED
      BY <2>3, <3>2
  <2> QED
    BY <2>4, <2>5
<1> QED
  BY <1>2, <1>3, <1>4, <1>7 DEF less

-----------------------------------------------------------------------------
(* The till *)

LEMMA PaidTotalsAre ==
  payments \in Seq(Payment) => \A s \in Subs : PaidTotal(s) = PaidIn(payments, s)
  BY PaidTotalIs

LEMMA PaidTotalsWillBe ==
  payments' \in Seq(Payment) => \A s \in Subs : PaidTotal(s)' = PaidIn(payments', s)
<1>1. (payments \in Seq(Payment) => \A s \in Subs : PaidTotal(s) = PaidIn(payments, s))'
  BY PaidTotalsAre, PTL
<1> QED
  BY <1>1

(* A payment is of a sold plan, and was taken by now. *)
PaymentsAreOfSold ==
  \A i \in DOMAIN payments :
    sub[payments[i].sub].status # "UNSOLD" /\ payments[i].paidAt <= now

TillInv ==
  /\ payments \in Seq(Payment)
  /\ PaymentsAreOfSold
  /\ NeverOverpaid

(* The three ways the list of payments moves. *)
PaidAtSale(s, amount) ==
  /\ sub[s].status = "UNSOLD" /\ sub'[s].status # "UNSOLD"
  /\ amount <= Price[sub'[s].plan]
  /\ payments' = Append(payments, Collected(s, amount))

PaidAtDesk(s, amount) ==
  /\ sub[s].status # "UNSOLD" /\ sub' = sub
  /\ amount <= Due(s)
  /\ payments' = Append(payments, Collected(s, amount))

VoidedAtDesk(i) ==
  sub' = sub /\ payments' = [payments EXCEPT ![i].status = "VOIDED"]

LEMMA WalkInSells ==
  ASSUME BooksInv, NEW s \in Subs, NEW m \in Members, NEW p \in Plans,
         NEW enters \in BOOLEAN, WalkIn(s, m, p, enters)
  PROVE  /\ sub[s].status = "UNSOLD" /\ sub'[s].status = "ACTIVE"
         /\ sub'[s].plan = p /\ sub'[s].member = m
         /\ Terms[p].kind = "DAY_PASS" /\ now' = now
<1>1. /\ sub[s].status = "UNSOLD" /\ Terms[p].kind = "DAY_PASS" /\ now' = now
      /\ sub' = [SettledSubs(Subs) EXCEPT ![s] = WalkInRow(m, p, now, enters)]
  BY DEF WalkIn, IsFresh
<1>2. sub'[s] = WalkInRow(m, p, now, enters)
  BY <1>1 DEF SettledSubs
<1>3. /\ WalkInRow(m, p, now, enters).status = "ACTIVE"
      /\ WalkInRow(m, p, now, enters).plan = p
      /\ WalkInRow(m, p, now, enters).member = m
  BY DEF WalkInRow, SellRow, Unsold
<1> QED
  BY <1>1, <1>2, <1>3

LEMMA SoldPlansAreOfPlans ==
  ASSUME BooksInv, NEW r \in Subs, sub[r].status # "UNSOLD"
  PROVE  /\ sub[r].plan \in Plans /\ sub[r].member \in Members
         /\ Price[sub[r].plan] \in Nat
<1>1. sub[r].plan \in Plans /\ sub[r].member \in Members
  BY RowsAreOK DEF BooksInv, RInv, RowOK, InOrder
<1> QED
  BY <1>1, FrontDeskAssumption

LEMMA SoldPlansWillBeOfPlans ==
  ASSUME BooksInv', NEW r \in Subs, sub'[r].status # "UNSOLD"
  PROVE  /\ sub'[r].plan \in Plans /\ sub'[r].member \in Members
         /\ Price[sub'[r].plan] \in Nat
<1>1. sub'[r].plan \in Plans /\ sub'[r].member \in Members
  BY DEF BooksInv, RInv, IInv, DatesInOrder, InOrder
<1> QED
  BY <1>1, FrontDeskAssumption

LEMMA TillMoves ==
  ASSUME BooksInv, payments \in Seq(Payment), [DeskNext]_deskVars
  PROVE  \/ payments' = payments
         \/ \E s \in Subs, amount \in Nat \ {0} : PaidAtSale(s, amount)
         \/ \E s \in Subs, amount \in Nat \ {0} : PaidAtDesk(s, amount)
         \/ \E i \in DOMAIN payments : VoidedAtDesk(i)
<1>0. FreshIsEmpty
  BY DEF BooksInv
<1>1. CASE KeepBooks
  BY <1>1 DEF KeepBooks, money
<1>2. CASE \E s \in Subs, m \in Members, p \in Plans : SellPlan(s, m, p)
  BY <1>2 DEF SellPlan, money
<1>3. CASE \E s \in Subs, next \in Subs : RenewPlan(s, next)
  BY <1>3 DEF RenewPlan, money
<1>4. CASE \E s \in Subs : DoorLetsIn(s)
  BY <1>4 DEF DoorLetsIn, LetIn, money
<1>5. CASE \E blocked \in SUBSET Subs : DoorTurnsAway(blocked)
  BY <1>5 DEF DoorTurnsAway, TurnAway, money
<1>6. CASE SomeoneSells
  <2>1. PICK s \in Subs, m \in Members, p \in Plans, b \in Branches,
             paid \in Nat, enters \in BOOLEAN : SellDayPass(s, m, p, b, paid, enters)
    BY <1>6 DEF SomeoneSells
  <2>2. sub[s].status = "UNSOLD" /\ sub'[s].status = "ACTIVE" /\ sub'[s].plan = p
    BY <2>1, WalkInSells DEF SellDayPass
  <2>3. CASE paid = 0
    BY <2>1, <2>3 DEF SellDayPass
  <2>4. CASE paid # 0
    <3>1. paid \in Nat \ {0} /\ paid <= Price[p]
      BY <2>1, <2>4 DEF SellDayPass, WalkInTakes
    <3>2. payments' = Append(payments, Collected(s, paid))
      BY <2>1, <2>4 DEF SellDayPass
    <3>3. PaidAtSale(s, paid)
      BY <2>2, <3>1, <3>2 DEF PaidAtSale
    <3> QED
      BY <3>1, <3>3
  <2> QED
    BY <2>3, <2>4
<1>7. CASE OwnerEdits
  BY <1>7 DEF OwnerEdits, WidenPlan, SelectBranches, PatchBranch, PatchGate, money
<1>8. CASE SomeonePays
  <2>1. PICK s \in Subs : \E amount \in Amounts \cup {Due(s)} : IsSold(s) /\ Pay(s, amount)
    BY <1>8 DEF SomeonePays
  <2>2. PICK amount \in Amounts \cup {Due(s)} : IsSold(s) /\ Pay(s, amount)
    BY <2>1
  <2>3. /\ Due(s) > 0 /\ amount <= Due(s) /\ sub' = sub
        /\ payments' = Append(payments, Collected(s, amount))
    BY <2>2 DEF Pay, MayPay, books, vars
  <2>4. Due(s) \in Int
    <3>1. PaidTotal(s) \in Nat
      BY PaidTotalIs, PaidIsNumber
    <3>2. sub[s].plan \in Plans
      BY <2>2, SoldPlansAreOfPlans DEF IsSold
    <3> QED
      BY <3>1, <3>2, FrontDeskAssumption DEF Due
  <2>5. amount \in Nat \ {0}
    BY <2>3, <2>4, FrontDeskAssumption
  <2>6. PaidAtDesk(s, amount)
    BY <2>2, <2>3 DEF PaidAtDesk, IsSold
  <2> QED
    BY <2>5, <2>6
<1>9. CASE \E i \in DOMAIN payments : Void(i)
  BY <1>9 DEF Void, VoidedAtDesk, books, vars
<1>10. CASE UNCHANGED deskVars
  BY <1>10 DEF deskVars, money
<1> QED
  BY <1>0, <1>1, <1>2, <1>3, <1>4, <1>5, <1>6, <1>7, <1>8, <1>9, <1>10, DeskCases

LEMMA ClockRuns ==
  ASSUME BooksInv, [Next]_vars
  PROVE  now \in Nat /\ now' \in Nat /\ now <= now'
<1>1. now \in Nat /\ IInv
  BY DEF BooksInv, RInv, IInv, TypeOK, Time
<1>2. Tick \/ now' = now
  BY <1>1, StepShape
<1> QED
  BY <1>1, <1>2 DEF Tick

(* What a sold plan has collected stays within its price. *)
LEMMA TillNext ==
  ASSUME BooksInv, TillInv, [DeskNext]_deskVars
  PROVE  TillInv'
<1>0. /\ [Next]_vars /\ BooksInv' /\ IInv
      /\ payments \in Seq(Payment)
      /\ now \in Nat /\ now' \in Nat /\ now <= now'
  BY BooksAreKept, ClockRuns DEF BooksInv, RInv, TillInv
<1>1. \A i \in DOMAIN payments :
        /\ payments[i].sub \in Subs /\ payments[i].paidAt \in Nat
        /\ sub[payments[i].sub].status # "UNSOLD" /\ payments[i].paidAt <= now
  BY PaymentsAreListed DEF Payment, Time, TillInv, PaymentsAreOfSold
<1>2. \A r \in Subs : sub[r].status # "UNSOLD" =>
        /\ sub'[r].status # "UNSOLD" /\ sub'[r].plan = sub[r].plan
        /\ Price[sub[r].plan] \in Nat
        /\ PaidIn(payments, r) <= Price[sub[r].plan]
  <2>1. \A r \in Subs : sub[r].status # "UNSOLD" => PaidTotal(r) <= Price[sub[r].plan]
    BY DEF TillInv, NeverOverpaid, IsSold
  <2> QED
    BY <1>0, <2>1, SoldStays, PaidTotalIs, FrontDeskAssumption
<1>3. \A i \in DOMAIN payments :
        sub'[payments[i].sub].status # "UNSOLD" /\ payments[i].paidAt <= now'
  <2>1. \A i \in DOMAIN payments : payments[i].paidAt <= now'
    BY <1>0, <1>1
  <2> QED
    BY <1>1, <1>2, <2>1
<1>4. \A r \in Subs : sub[r].status = "UNSOLD" => PaidIn(payments, r) = 0
  BY <1>1, NothingPaid
<1>5. \A r \in Subs : sub'[r].status # "UNSOLD" => Price[sub'[r].plan] \in Nat
  BY <1>0, SoldPlansWillBeOfPlans
<1>6. SUFFICES /\ payments' \in Seq(Payment)
               /\ \A i \in DOMAIN payments' : /\ sub'[payments'[i].sub].status # "UNSOLD"
                                              /\ payments'[i].paidAt <= now'
               /\ \A r \in Subs : sub'[r].status # "UNSOLD" =>
                    PaidIn(payments', r) <= Price[sub'[r].plan]
  BY PaidTotalsWillBe DEF TillInv, PaymentsAreOfSold, NeverOverpaid, IsSold
<1>7. CASE payments' = payments
  BY <1>0, <1>2, <1>3, <1>4, <1>5, <1>7
<1>8. ASSUME NEW s \in Subs, NEW amount \in Nat \ {0},
             PaidAtSale(s, amount) \/ PaidAtDesk(s, amount)
      PROVE  /\ payments' \in Seq(Payment)
             /\ \A i \in DOMAIN payments' : /\ sub'[payments'[i].sub].status # "UNSOLD"
                                            /\ payments'[i].paidAt <= now'
             /\ \A r \in Subs : sub'[r].status # "UNSOLD" =>
                  PaidIn(payments', r) <= Price[sub'[r].plan]
  <2> DEFINE e == Collected(s, amount)
  <2>1. /\ e \in Payment /\ e.sub = s /\ e.amount = amount /\ e.paidAt = now
        /\ \A r \in Subs : Counts(e, r) <=> r = s
    BY <1>0 DEF Collected, Payment, Time, Counts
  <2>2. payments' = Append(payments, e) /\ sub'[s].status # "UNSOLD"
    BY <1>8 DEF PaidAtSale, PaidAtDesk
  <2> HIDE DEF e
  <2>3. /\ payments' \in Seq(Payment)
        /\ DOMAIN payments' = DOMAIN payments \cup {Len(payments) + 1}
        /\ payments'[Len(payments) + 1] = e
        /\ \A i \in DOMAIN payments : payments'[i] = payments[i]
    BY <1>0, <2>1, <2>2, PaymentIsAdded
  <2>4. \A i \in DOMAIN payments' :
          sub'[payments'[i].sub].status # "UNSOLD" /\ payments'[i].paidAt <= now'
    BY <1>0, <1>3, <2>1, <2>2, <2>3
  <2>5. ASSUME NEW r \in Subs, sub'[r].status # "UNSOLD"
        PROVE  PaidIn(payments', r) <= Price[sub'[r].plan]
    <3>1. PaidIn(payments', r) = PaidIn(payments, r) + (IF r = s THEN amount ELSE 0)
      BY <1>0, <2>1, <2>2, PaymentIsAdded
    <3>2. PaidIn(payments, r) \in Nat
      BY <1>0, PaidIsNumber
    <3>3. CASE r # s
      BY <1>2, <1>4, <1>5, <2>5, <3>1, <3>2, <3>3
    <3>4. CASE r = s /\ PaidAtSale(s, amount)
      <4>1. PaidIn(payments, s) = 0 /\ amount <= Price[sub'[s].plan]
        BY <1>4, <3>4 DEF PaidAtSale
      <4> QED
        BY <3>1, <3>4, <4>1
    <3>5. CASE r = s /\ PaidAtDesk(s, amount)
      <4>1. /\ sub[s].status # "UNSOLD" /\ sub' = sub
            /\ amount <= Price[sub[s].plan] - PaidIn(payments, s)
        BY <1>0, <3>5, PaidTotalIs DEF PaidAtDesk, Due
      <4> QED
        BY <1>2, <3>1, <3>2, <3>5, <4>1
    <3> QED
      BY <1>8, <3>3, <3>4, <3>5
  <2> QED
    BY <2>3, <2>4, <2>5
<1>9. ASSUME NEW i \in DOMAIN payments, VoidedAtDesk(i)
      PROVE  /\ payments' \in Seq(Payment)
             /\ \A j \in DOMAIN payments' : /\ sub'[payments'[j].sub].status # "UNSOLD"
                                            /\ payments'[j].paidAt <= now'
             /\ \A r \in Subs : sub'[r].status # "UNSOLD" =>
                  PaidIn(payments', r) <= Price[sub'[r].plan]
  <2>1. payments' = [payments EXCEPT ![i].status = "VOIDED"] /\ sub' = sub
    BY <1>9 DEF VoidedAtDesk
  <2>2. /\ payments' \in Seq(Payment) /\ DOMAIN payments' = DOMAIN payments
        /\ \A j \in DOMAIN payments :
             /\ payments'[j].sub = payments[j].sub
             /\ payments'[j].paidAt = payments[j].paidAt
    BY <1>0, <2>1, PaymentIsVoided
  <2>3. \A r \in Subs : PaidIn(payments', r) <= PaidIn(payments, r)
    BY <1>0, <2>1, PaymentIsVoided
  <2>4. \A r \in Subs : PaidIn(payments', r) \in Nat /\ PaidIn(payments, r) \in Nat
    BY <1>0, <2>2, PaidIsNumber
  <2>5. ASSUME NEW r \in Subs, sub'[r].status # "UNSOLD"
        PROVE  PaidIn(payments', r) <= Price[sub'[r].plan]
    <3>1. Price[sub[r].plan] \in Nat /\ PaidIn(payments, r) <= Price[sub[r].plan]
      BY <1>2, <2>1, <2>5
    <3>2. /\ PaidIn(payments', r) <= PaidIn(payments, r)
          /\ PaidIn(payments', r) \in Nat /\ PaidIn(payments, r) \in Nat
      BY <2>3, <2>4
    <3>3. PaidIn(payments', r) <= Price[sub[r].plan]
      BY <3>1, <3>2
    <3> QED
      BY <2>1, <3>3
  <2> QED
    BY <1>3, <2>2, <2>5
<1> QED
  BY <1>0, <1>7, <1>8, <1>9, TillMoves
-----------------------------------------------------------------------------
(* Types *)

DeskFieldsOK ==
  /\ branchStatus \in [Branches -> {"ACTIVE", "ARCHIVED"}]
  /\ planBranches \in [Plans -> SUBSET Branches]
  /\ everywhere \in SUBSET Plans
  /\ soldEverywhere \in [Subs -> BOOLEAN]
  /\ soldOrder \in Seq(Subs)
  /\ gate \in Gates
  /\ blockedInbox \in SUBSET Subs
  /\ blockedAudit \in [Subs -> Nat]
  /\ lastCheckedIn \in [Members -> Time \cup {Null}]

LEMMA SnapshotFields ==
  ASSUME DeskFieldsOK, NEW s \in Subs, NEW p, Snapshot(s, p)
  PROVE  /\ soldEverywhere' \in [Subs -> BOOLEAN]
         /\ soldOrder' \in Seq(Subs)
<1>1. soldOrder' \in Seq(Subs)
  BY AppendProperties DEF Snapshot, DeskFieldsOK
<1> QED
  BY <1>1 DEF Snapshot, DeskFieldsOK

LEMMA StampFields ==
  ASSUME DeskFieldsOK, now \in Time, NEW m
  PROVE  [lastCheckedIn EXCEPT ![m] = now] \in [Members -> Time \cup {Null}]
  BY DEF DeskFieldsOK

LEMMA FieldsNext ==
  ASSUME BooksInv, DeskFieldsOK, [DeskNext]_deskVars
  PROVE  DeskFieldsOK'
<1> USE DEF scope, sales, money, door
<1>0. FreshIsEmpty /\ now \in Time
  BY DEF BooksInv, RInv, IInv, TypeOK
<1>1. CASE KeepBooks
  BY <1>1 DEF KeepBooks, DeskFieldsOK
<1>2. CASE \E s \in Subs, m \in Members, p \in Plans : SellPlan(s, m, p)
  BY <1>2, SnapshotFields DEF SellPlan, DeskFieldsOK
<1>3. CASE \E s \in Subs, next \in Subs : RenewPlan(s, next)
  BY <1>3, SnapshotFields DEF RenewPlan, DeskFieldsOK
<1>4. CASE \E s \in Subs : DoorLetsIn(s)
  BY <1>0, <1>4, StampFields DEF DoorLetsIn, LetIn, DeskFieldsOK
<1>5. CASE \E blocked \in SUBSET Subs : DoorTurnsAway(blocked)
  BY <1>5 DEF DoorTurnsAway, TurnAway, DeskFieldsOK
<1>6. CASE SomeoneSells
  <2>1. PICK s \in Subs, m \in Members, p \in Plans, b \in Branches,
             paid \in Nat, enters \in BOOLEAN : SellDayPass(s, m, p, b, paid, enters)
    BY <1>6 DEF SomeoneSells
  <2>2. Snapshot(s, p) /\ UNCHANGED <<scope, gate, blockedInbox, blockedAudit>>
    BY <2>1 DEF SellDayPass
  <2>3. lastCheckedIn' \in [Members -> Time \cup {Null}]
    <3>1. lastCheckedIn' = IF enters THEN [lastCheckedIn EXCEPT ![m] = now]
                                     ELSE lastCheckedIn
      BY <2>1 DEF SellDayPass
    <3> QED
      BY <1>0, <3>1, StampFields DEF DeskFieldsOK
  <2> QED
    BY <2>2, <2>3, SnapshotFields DEF DeskFieldsOK
<1>7. CASE OwnerEdits
  <2>1. CASE \E p \in Edited : WidenPlan(p)
    BY <2>1, FrontDeskAssumption DEF WidenPlan, DeskFieldsOK
  <2>2. CASE \E p \in Edited : \E bs \in SUBSET Branches : SelectBranches(p, bs)
    BY <2>2 DEF SelectBranches, DeskFieldsOK
  <2>3. CASE \E b \in Branches : PatchBranch(b)
    BY <2>3 DEF PatchBranch, DeskFieldsOK
  <2>4. CASE \E g \in Gates : PatchGate(g)
    BY <2>4 DEF PatchGate, DeskFieldsOK
  <2> QED
    BY <1>7, <2>1, <2>2, <2>3, <2>4 DEF OwnerEdits
<1>8. CASE SomeonePays
  BY <1>8 DEF SomeonePays, Pay, DeskFieldsOK
<1>9. CASE \E i \in DOMAIN payments : Void(i)
  BY <1>9 DEF Void, DeskFieldsOK
<1>10. CASE UNCHANGED deskVars
  BY <1>10 DEF deskVars, DeskFieldsOK
<1> QED
  BY <1>0, <1>1, <1>2, <1>3, <1>4, <1>5, <1>6, <1>7, <1>8, <1>9, <1>10, DeskCases

-----------------------------------------------------------------------------
(* Sales and refusals *)

LEMMA FreshIsSettled ==
  ASSUME BooksInv, NEW r \in Subs, sub[r].status = "UNSOLD"
  PROVE  Settled(r) = sub[r]
  BY SettledStays DEF BooksInv, RInv

(* Nothing but a sale sells. *)
LEMMA NobodySells ==
  ASSUME BooksInv, NEW r \in Subs, sub[r].status = "UNSOLD",
         \/ Tick \/ sub' = sub
         \/ \E scope1 \in SUBSET Subs : Settle(scope1)
         \/ \E s \in Subs :
              \/ \E days \in FreezeRequests : Freeze(s, days)
              \/ Unfreeze(s) \/ Cancel(s) \/ Visit(s)
  PROVE  sub'[r].status = "UNSOLD"
<1>0. Settled(r) = sub[r] /\ DOMAIN sub = Subs
  BY FreshIsSettled DEF BooksInv, RInv, IInv, TypeOK
<1>1. CASE Tick \/ sub' = sub
  BY <1>1 DEF Tick
<1>2. CASE \E scope1 \in SUBSET Subs : Settle(scope1)
  BY <1>0, <1>2 DEF Settle, SettledSubs
<1>3. ASSUME NEW s \in Subs,
             \/ \E days \in FreezeRequests : Freeze(s, days)
             \/ Unfreeze(s) \/ Cancel(s)
      PROVE  sub'[r].status = "UNSOLD"
  BY <1>0, <1>3 DEF Freeze, MayFreeze, Unfreeze, Cancel, MayCancel
<1>4. ASSUME NEW s \in Subs, Visit(s)
      PROVE  sub'[r].status = "UNSOLD"
  <2>1. s # r /\ sub' = [SettledSubs(Subs) EXCEPT ![s] = VisitRow(@, settings, now)]
    BY <1>4 DEF Visit, IsFresh
  <2> QED
    BY <1>0, <2>1 DEF SettledSubs
<1> QED
  BY <1>1, <1>2, <1>3, <1>4

(* A sale sells one row. *)
SoldOne(s) ==
  /\ sub[s].status = "UNSOLD"
  /\ sub'[s].status # "UNSOLD"
  /\ \A r \in Subs \ {s} : sub[r].status = "UNSOLD" => sub'[r].status = "UNSOLD"

SoldNone == \A r \in Subs : sub[r].status = "UNSOLD" => sub'[r].status = "UNSOLD"

LEMMA SaleSells ==
  ASSUME BooksInv, NEW s \in Subs, NEW m \in Members, NEW p \in Plans, Create(s, m, p)
  PROVE  SoldOne(s)
<1>1. sub[s].status = "UNSOLD" /\ sub' = [sub EXCEPT ![s] = SellRow(m, p, now)]
  BY DEF Create, IsFresh
<1>2. DOMAIN sub = Subs /\ SellRow(m, p, now).status = "ACTIVE"
  BY DEF BooksInv, RInv, IInv, TypeOK, SellRow, Unsold
<1> QED
  BY <1>1, <1>2 DEF SoldOne

LEMMA RenewalSells ==
  ASSUME BooksInv, NEW s \in Subs, NEW next \in Subs, Renew(s, next)
  PROVE  SoldOne(next)
<1> DEFINE row == SellRow(sub[s].member, sub[s].plan, now)
<1>1. sub[next].status = "UNSOLD" /\ sub' = [SettledSubs({s}) EXCEPT ![next] = row]
  BY DEF Renew, IsFresh
<1>2. row.status = "ACTIVE"
  BY DEF SellRow, Unsold
<1> HIDE DEF row
<1>3. sub'[next] = row
  BY <1>1 DEF SettledSubs
<1>4. \A r \in Subs \ {next} : sub'[r] \in {sub[r], Settled(r)}
  BY <1>1 DEF SettledSubs
<1> QED
  BY <1>1, <1>2, <1>3, <1>4, FreshIsSettled DEF SoldOne

LEMMA WalkInSellsOne ==
  ASSUME BooksInv, NEW s \in Subs, NEW m \in Members, NEW p \in Plans,
         NEW enters \in BOOLEAN, WalkIn(s, m, p, enters)
  PROVE  SoldOne(s)
<1>1. sub' = [SettledSubs(Subs) EXCEPT ![s] = WalkInRow(m, p, now, enters)]
  BY DEF WalkIn
<1>2. \A r \in Subs \ {s} : sub'[r] = Settled(r)
  BY <1>1 DEF SettledSubs
<1> QED
  BY <1>2, WalkInSells, FreshIsSettled DEF SoldOne

(* The list of sales and the flag each sold plan copies. *)
SalesStand == soldEverywhere' = soldEverywhere /\ soldOrder' = soldOrder

SalesGrow(s) ==
  /\ \E copied \in BOOLEAN : soldEverywhere' = [soldEverywhere EXCEPT ![s] = copied]
  /\ soldOrder' = Append(soldOrder, s)

LEMMA SnapshotGrows ==
  ASSUME NEW s \in Subs, NEW p, Snapshot(s, p)
  PROVE  SalesGrow(s)
<1> DEFINE copied == p \in everywhere
<1>1. copied \in BOOLEAN
  OBVIOUS
<1>2. /\ soldEverywhere' = [soldEverywhere EXCEPT ![s] = copied]
      /\ soldOrder' = Append(soldOrder, s)
  BY DEF Snapshot
<1> HIDE DEF copied
<1> QED
  BY <1>1, <1>2 DEF SalesGrow

LEMMA SalesMove ==
  ASSUME BooksInv, [DeskNext]_deskVars
  PROVE  \/ SalesStand /\ SoldNone
         \/ \E s \in Subs : SalesGrow(s) /\ SoldOne(s)
<1> USE DEF sales
<1>0. FreshIsEmpty
  BY DEF BooksInv
<1>1. CASE KeepBooks
  <2>1. \A r \in Subs : sub[r].status = "UNSOLD" => sub'[r].status = "UNSOLD"
    <3> SUFFICES ASSUME NEW r \in Subs, sub[r].status = "UNSOLD"
                 PROVE  sub'[r].status = "UNSOLD"
      OBVIOUS
    <3>1. CASE Tick \/ Sweep \/ \E s \in Subs : Settle({s})
      BY <3>1, NobodySells DEF Sweep
    <3>2. CASE \E s \in Subs : \/ \E days \in FreezeRequests : Freeze(s, days)
                               \/ Unfreeze(s) \/ Cancel(s)
      BY <3>2, NobodySells
    <3>3. CASE \/ \E m \in Members, status \in MemberStates : PatchMember(m, status)
               \/ \E p \in Shelvable : PatchPlan(p)
               \/ \E policy \in Policies : PatchSettings(policy)
      BY <3>3 DEF PatchMember, PatchPlan, PatchSettings
    <3> QED
      BY <1>1, <3>1, <3>2, <3>3 DEF KeepBooks
  <2> QED
    BY <1>1, <2>1 DEF KeepBooks, SalesStand, SoldNone
<1>2. CASE \E s \in Subs, m \in Members, p \in Plans : SellPlan(s, m, p)
  BY <1>2, SaleSells, SnapshotGrows DEF SellPlan
<1>3. CASE \E s \in Subs, next \in Subs : RenewPlan(s, next)
  BY <1>3, RenewalSells, SnapshotGrows DEF RenewPlan
<1>4. CASE \E s \in Subs : DoorLetsIn(s)
  BY <1>4, NobodySells DEF DoorLetsIn, LetIn, SalesStand, SoldNone
<1>5. CASE \E blocked \in SUBSET Subs : DoorTurnsAway(blocked)
  <2>1. Settle(Subs) /\ SalesStand
    BY <1>5 DEF DoorTurnsAway, TurnAway, Sweep, SalesStand
  <2> QED
    BY <2>1, NobodySells DEF SoldNone
<1>6. CASE SomeoneSells
  BY <1>6, WalkInSellsOne, SnapshotGrows DEF SomeoneSells, SellDayPass
<1>7. CASE OwnerEdits
  BY <1>7 DEF OwnerEdits, WidenPlan, SelectBranches, PatchBranch, PatchGate, books, vars,
              SalesStand, SoldNone
<1>8. CASE SomeonePays \/ \E i \in DOMAIN payments : Void(i)
  BY <1>8 DEF SomeonePays, Pay, Void, books, vars, SalesStand, SoldNone
<1>9. CASE UNCHANGED deskVars
  BY <1>9 DEF deskVars, books, vars, SalesStand, SoldNone
<1> QED
  BY <1>0, <1>1, <1>2, <1>3, <1>4, <1>5, <1>6, <1>7, <1>8, <1>9, DeskCases

(* The sold plans are listed, each once. *)
SalesInv ==
  /\ \A s \in Subs : IsSold(s) => \E i \in DOMAIN soldOrder : soldOrder[i] = s
  /\ \A i \in DOMAIN soldOrder : IsSold(soldOrder[i])
  /\ \A i, j \in DOMAIN soldOrder : soldOrder[i] = soldOrder[j] => i = j

LEMMA SalesNext ==
  ASSUME BooksInv, DeskFieldsOK, SalesInv, [DeskNext]_deskVars
  PROVE  SalesInv'
<1>0. IInv /\ [Next]_vars /\ soldOrder \in Seq(Subs)
  BY BooksAreKept DEF BooksInv, RInv, DeskFieldsOK
<1>1. /\ Len(soldOrder) \in Nat /\ DOMAIN soldOrder = 1 .. Len(soldOrder)
      /\ \A i \in DOMAIN soldOrder : soldOrder[i] \in Subs
  BY <1>0, LenProperties, ElementOfSeq
<1>2. \A r \in Subs : sub[r].status # "UNSOLD" => sub'[r].status # "UNSOLD"
  BY <1>0, SoldStays
<1>3. CASE SalesStand /\ SoldNone
  BY <1>1, <1>2, <1>3 DEF SalesStand, SoldNone, SalesInv, IsSold
<1>4. ASSUME NEW s \in Subs, SalesGrow(s), SoldOne(s)
      PROVE  SalesInv'
  <2> DEFINE new == Len(soldOrder) + 1
  <2>1. /\ soldOrder' \in Seq(Subs) /\ Len(soldOrder') = new /\ soldOrder'[new] = s
        /\ \A i \in 1 .. Len(soldOrder) : soldOrder'[i] = soldOrder[i]
    BY <1>0, <1>4, AppendProperties DEF SalesGrow
  <2>2. DOMAIN soldOrder' = DOMAIN soldOrder \cup {new} /\ new \notin DOMAIN soldOrder
    <3>1. DOMAIN soldOrder' = 1 .. new
      BY <2>1, LenProperties
    <3> QED
      BY <1>1, <3>1
  <2> HIDE DEF new
  <2>3. \A i \in DOMAIN soldOrder : soldOrder'[i] = soldOrder[i] /\ soldOrder[i] # s
    BY <1>1, <1>4, <2>1 DEF SoldOne, SalesInv, IsSold
  <2>4. \A r \in Subs : sub'[r].status # "UNSOLD" <=> r = s \/ sub[r].status # "UNSOLD"
    BY <1>2, <1>4 DEF SoldOne
  <2>5. \A r \in Subs : sub'[r].status # "UNSOLD" =>
          \E i \in DOMAIN soldOrder' : soldOrder'[i] = r
    BY <2>1, <2>2, <2>3, <2>4 DEF SalesInv, IsSold
  <2>6. \A i \in DOMAIN soldOrder' : sub'[soldOrder'[i]].status # "UNSOLD"
    BY <1>1, <1>2, <1>4, <2>1, <2>2, <2>3 DEF SalesInv, IsSold, SoldOne
  <2>7. \A i, j \in DOMAIN soldOrder' : soldOrder'[i] = soldOrder'[j] => i = j
    BY <2>1, <2>2, <2>3 DEF SalesInv
  <2> QED
    BY <2>5, <2>6, <2>7 DEF SalesInv, IsSold
<1> QED
  BY <1>3, <1>4, SalesMove

(* The plans turned away at a wrong branch. *)
DoorInv ==
  /\ BlockedIsOnRecord
  /\ \A s \in blockedInbox : sub[s].status # "UNSOLD"

DoorStands == blockedInbox' = blockedInbox /\ blockedAudit' = blockedAudit

LEMMA DoorMoves ==
  ASSUME BooksInv, [DeskNext]_deskVars
  PROVE  \/ DoorStands
         \/ \E blocked \in SUBSET Subs : DoorTurnsAway(blocked)
<1> USE DEF door, DoorStands
<1>0. FreshIsEmpty
  BY DEF BooksInv
<1>1. CASE KeepBooks
  BY <1>1 DEF KeepBooks
<1>2. CASE \E s \in Subs, m \in Members, p \in Plans : SellPlan(s, m, p)
  BY <1>2 DEF SellPlan
<1>3. CASE \E s \in Subs, next \in Subs : RenewPlan(s, next)
  BY <1>3 DEF RenewPlan
<1>4. CASE \E s \in Subs : DoorLetsIn(s)
  BY <1>4 DEF DoorLetsIn, LetIn
<1>5. CASE SomeoneSells
  BY <1>5 DEF SomeoneSells, SellDayPass
<1>6. CASE OwnerEdits
  BY <1>6 DEF OwnerEdits, WidenPlan, SelectBranches, PatchBranch, PatchGate
<1>7. CASE SomeonePays \/ \E i \in DOMAIN payments : Void(i)
  BY <1>7 DEF SomeonePays, Pay, Void
<1>8. CASE UNCHANGED deskVars
  BY <1>8 DEF deskVars
<1> QED
  BY <1>0, <1>1, <1>2, <1>3, <1>4, <1>5, <1>6, <1>7, <1>8, DeskCases

LEMMA DoorNext ==
  ASSUME BooksInv, DeskFieldsOK, DoorInv, [DeskNext]_deskVars
  PROVE  DoorInv'
<1>0. /\ IInv /\ [Next]_vars /\ blockedInbox \in SUBSET Subs
      /\ blockedAudit \in [Subs -> Nat] /\ soldEverywhere \in [Subs -> BOOLEAN]
  BY BooksAreKept DEF BooksInv, RInv, DeskFieldsOK
<1>1. \A r \in Subs : sub[r].status # "UNSOLD" => sub'[r].status # "UNSOLD"
  BY <1>0, SoldStays
<1>2. \A r \in Subs : sub[r].status # "UNSOLD" => soldEverywhere'[r] = soldEverywhere[r]
  BY <1>0, SalesMove DEF SalesStand, SalesGrow, SoldOne
<1>3. CASE DoorStands
  BY <1>0, <1>1, <1>2, <1>3 DEF DoorStands, DoorInv, BlockedIsOnRecord
<1>4. ASSUME NEW blocked \in SUBSET Subs, DoorTurnsAway(blocked)
      PROVE  DoorInv'
  <2>1. /\ \A s \in blocked : sub[s].status # "UNSOLD" /\ ~soldEverywhere[s]
        /\ blockedInbox' = blockedInbox \cup blocked
        /\ \A s \in Subs : blockedAudit'[s] = IF s \in blocked THEN blockedAudit[s] + 1
                                                               ELSE blockedAudit[s]
    BY <1>4 DEF DoorTurnsAway, TurnAway
  <2>2. \A s \in blockedInbox' : sub'[s].status # "UNSOLD"
    BY <1>0, <1>1, <2>1 DEF DoorInv
  <2>3. \A s \in Subs : s \in blockedInbox' => ~soldEverywhere'[s]
    BY <1>0, <1>2, <2>1 DEF DoorInv, BlockedIsOnRecord
  <2>4. \A s \in Subs : s \in blockedInbox' <=> blockedAudit'[s] > 0
    <3> SUFFICES ASSUME NEW s \in Subs PROVE s \in blockedInbox' <=> blockedAudit'[s] > 0
      OBVIOUS
    <3>1. blockedAudit[s] \in Nat /\ (s \in blockedInbox <=> blockedAudit[s] > 0)
      BY <1>0 DEF DoorInv, BlockedIsOnRecord
    <3> QED
      BY <2>1, <3>1
  <2> QED
    BY <2>2, <2>3, <2>4 DEF DoorInv, BlockedIsOnRecord
<1> QED
  BY <1>3, <1>4, DoorMoves
-----------------------------------------------------------------------------
(* The stamp of the last visit *)

VisitedAt(m, t) ==
  \E s \in Subs : sub[s].member = m /\ \E i \in DOMAIN visits[s] : visits[s][i] = t

LastVisitIsStamped ==
  \A m \in Members :
    IF lastCheckedIn[m] = Null
    THEN \A t \in Time : ~VisitedAt(m, t)
    ELSE \E last \in Time : /\ last = lastCheckedIn[m] /\ VisitedAt(m, last)
                            /\ \A t \in Time : VisitedAt(m, t) => t <= last

NobodyEnters == visits' = visits /\ lastCheckedIn' = lastCheckedIn

Enters(s, m) ==
  /\ sub'[s].member = m
  /\ visits' = [visits EXCEPT ![s] = Append(@, now)]
  /\ lastCheckedIn' = [lastCheckedIn EXCEPT ![m] = now]

LEMMA DoorStamps ==
  ASSUME BooksInv, NEW s \in Subs, LetIn(s)
  PROVE  sub[s].member \in Members /\ Enters(s, sub[s].member)
<1>1. Visit(s) /\ lastCheckedIn' = [lastCheckedIn EXCEPT ![sub[s].member] = now]
  BY DEF LetIn
<1>2. sub[s].status # "UNSOLD" /\ visits' = [visits EXCEPT ![s] = Append(@, now)]
  BY <1>1 DEF Visit, IsFresh
<1>3. [Next]_vars /\ IInv
  BY <1>1 DEF Next, BooksInv, RInv
<1>4. sub'[s].member = sub[s].member /\ sub[s].member \in Members
  BY <1>2, <1>3, SoldStays
<1> QED
  BY <1>1, <1>2, <1>4 DEF Enters

LEMMA WalkInStamps ==
  ASSUME BooksInv, SomeoneSells
  PROVE  NobodyEnters \/ \E s \in Subs, m \in Members : Enters(s, m)
<1>1. PICK s \in Subs, m \in Members, p \in Plans, b \in Branches,
           paid \in Nat, enters \in BOOLEAN : SellDayPass(s, m, p, b, paid, enters)
  BY DEF SomeoneSells
<1>2. /\ WalkIn(s, m, p, enters)
      /\ visits' = [visits EXCEPT ![s] = IF enters THEN Append(@, now) ELSE @]
      /\ lastCheckedIn' = IF enters THEN [lastCheckedIn EXCEPT ![m] = now]
                                    ELSE lastCheckedIn
  BY <1>1 DEF SellDayPass, WalkIn
<1>3. sub'[s].member = m
  BY <1>2, WalkInSells
<1>4. visits \in [Subs -> Seq(Time)]
  BY DEF BooksInv, RInv, IInv, TypeOK
<1>5. CASE enters
  BY <1>2, <1>3, <1>5 DEF Enters
<1>6. CASE ~enters
  BY <1>2, <1>4, <1>6 DEF NobodyEnters
<1> QED
  BY <1>5, <1>6

LEMMA VisitsMove ==
  ASSUME BooksInv, [DeskNext]_deskVars
  PROVE  NobodyEnters \/ \E s \in Subs, m \in Members : Enters(s, m)
<1> USE DEF door
<1>0. FreshIsEmpty
  BY DEF BooksInv
<1>1. CASE KeepBooks
  <2>1. visits' = visits
    BY <1>1 DEF KeepBooks, Tick, Sweep, Settle, Freeze, Unfreeze, Cancel, PatchMember,
                PatchPlan, PatchSettings
  <2> QED
    BY <1>1, <2>1 DEF KeepBooks, NobodyEnters
<1>2. CASE \E s \in Subs, m \in Members, p \in Plans : SellPlan(s, m, p)
  BY <1>2 DEF SellPlan, Create, NobodyEnters
<1>3. CASE \E s \in Subs, next \in Subs : RenewPlan(s, next)
  BY <1>3 DEF RenewPlan, Renew, NobodyEnters
<1>4. CASE \E s \in Subs : DoorLetsIn(s)
  BY <1>4, DoorStamps DEF DoorLetsIn
<1>5. CASE \E blocked \in SUBSET Subs : DoorTurnsAway(blocked)
  BY <1>5 DEF DoorTurnsAway, TurnAway, Sweep, Settle, NobodyEnters
<1>6. CASE SomeoneSells
  BY <1>6, WalkInStamps
<1>7. CASE OwnerEdits
  BY <1>7 DEF OwnerEdits, WidenPlan, SelectBranches, PatchBranch, PatchGate, books, vars,
              NobodyEnters
<1>8. CASE SomeonePays \/ \E i \in DOMAIN payments : Void(i)
  BY <1>8 DEF SomeonePays, Pay, Void, books, vars, NobodyEnters
<1>9. CASE UNCHANGED deskVars
  BY <1>9 DEF deskVars, books, vars, NobodyEnters
<1> QED
  BY <1>0, <1>1, <1>2, <1>3, <1>4, <1>5, <1>6, <1>7, <1>8, <1>9, DeskCases

(* Visits are of sold plans, and none is in the future. *)
LEMMA VisitsAreRecorded ==
  ASSUME BooksInv
  PROVE  /\ visits \in [Subs -> Seq(Time)] /\ now \in Nat
         /\ \A s \in Subs : \A i \in DOMAIN visits[s] :
              /\ visits[s][i] \in Time /\ visits[s][i] <= now
              /\ sub[s].status # "UNSOLD"
<1>1. RInv /\ visits \in [Subs -> Seq(Time)] /\ now \in Nat
  BY DEF BooksInv, RInv, IInv, TypeOK, Time
<1>2. ASSUME NEW s \in Subs, NEW i \in DOMAIN visits[s]
      PROVE  /\ visits[s][i] \in Time /\ visits[s][i] <= now
             /\ sub[s].status # "UNSOLD"
  <2>1. visits[s] \in Seq(Time) /\ VisitsPaid(sub[s], freezes[s], visits[s], now)
    BY <1>1, RowsAreRecorded DEF RecordOK
  <2>2. visits[s][i] \in Time
    BY <2>1, LenProperties, ElementOfSeq
  <2>3. sub[s].status # "UNSOLD"
    BY <1>1, FreshHasNoVisit
  <2> QED
    BY <2>1, <2>2, <2>3 DEF VisitsPaid
<1> QED
  BY <1>1, <1>2

LEMMA StampNext ==
  ASSUME BooksInv, DeskFieldsOK, LastVisitIsStamped, [DeskNext]_deskVars
  PROVE  LastVisitIsStamped'
<1>0. IInv /\ [Next]_vars /\ now \in Nat /\ visits \in [Subs -> Seq(Time)]
  BY BooksAreKept, VisitsAreRecorded DEF BooksInv, RInv
<1>1. \A s \in Subs : sub[s].status # "UNSOLD" => sub'[s].member = sub[s].member
  BY <1>0, SoldStays
<1>2. \A s \in Subs : \A i \in DOMAIN visits[s] :
        /\ visits[s][i] \in Time /\ visits[s][i] <= now
        /\ sub'[s].member = sub[s].member
  BY <1>1, VisitsAreRecorded
<1>3. \A m \in Members, t \in Time : VisitedAt(m, t) => t <= now
  BY <1>2 DEF VisitedAt
<1>4. Null \notin Int
  BY TermsAssumption
<1>5. CASE NobodyEnters
  <2>1. visits' = visits /\ lastCheckedIn' = lastCheckedIn
    BY <1>5 DEF NobodyEnters
  <2>2. \A m \in Members : \A t : VisitedAt(m, t)' <=> VisitedAt(m, t)
    BY <1>2, <2>1 DEF VisitedAt
  <2> QED
    BY <2>1, <2>2 DEF LastVisitIsStamped
<1>6. ASSUME NEW s \in Subs, NEW m \in Members, Enters(s, m)
      PROVE  LastVisitIsStamped'
  <2>1. /\ sub'[s].member = m
        /\ visits' = [visits EXCEPT ![s] = Append(visits[s], now)]
        /\ lastCheckedIn' = [lastCheckedIn EXCEPT ![m] = now]
    BY <1>6 DEF Enters
  <2>2. visits[s] \in Seq(Time) /\ now \in Time
    BY <1>0 DEF Time
  <2>3. /\ DOMAIN visits'[s] = DOMAIN visits[s] \cup {Len(visits[s]) + 1}
        /\ visits'[s][Len(visits[s]) + 1] = now
        /\ \A i \in DOMAIN visits[s] : visits'[s][i] = visits[s][i]
    BY <1>0, <2>1, <2>2, AnotherVisit
  <2>4. \A r \in Subs \ {s} : visits'[r] = visits[r]
    BY <1>0, <2>1
  <2>5. \A n \in Members : \A t : VisitedAt(n, t)' <=> VisitedAt(n, t) \/ (n = m /\ t = now)
    <3> SUFFICES ASSUME NEW n \in Members, NEW t
                 PROVE  VisitedAt(n, t)' <=> VisitedAt(n, t) \/ (n = m /\ t = now)
      OBVIOUS
    <3>1. ASSUME VisitedAt(n, t)'
          PROVE  VisitedAt(n, t) \/ (n = m /\ t = now)
      <4>1. PICK r \in Subs : sub'[r].member = n /\ \E i \in DOMAIN visits'[r] : visits'[r][i] = t
        BY <3>1 DEF VisitedAt
      <4>2. PICK i \in DOMAIN visits'[r] : visits'[r][i] = t
        BY <4>1
      <4>3. CASE r # s \/ i \in DOMAIN visits[s]
        BY <1>2, <2>3, <2>4, <4>1, <4>2, <4>3 DEF VisitedAt
      <4>4. CASE r = s /\ i \notin DOMAIN visits[s]
        BY <2>1, <2>3, <4>1, <4>2, <4>4
      <4> QED
        BY <4>3, <4>4
    <3>2. ASSUME VisitedAt(n, t)
          PROVE  VisitedAt(n, t)'
      BY <1>2, <2>3, <2>4, <3>2 DEF VisitedAt
    <3>3. ASSUME n = m, t = now
          PROVE  VisitedAt(n, t)'
      BY <2>1, <2>3, <3>3 DEF VisitedAt
    <3> QED
      BY <3>1, <3>2, <3>3
  <2>6. ASSUME NEW n \in Members \ {m}
        PROVE  /\ lastCheckedIn'[n] = lastCheckedIn[n]
               /\ \A t : VisitedAt(n, t)' <=> VisitedAt(n, t)
    BY <2>1, <2>5 DEF DeskFieldsOK
  <2>7. /\ lastCheckedIn'[m] = now
        /\ \A t : VisitedAt(m, t)' <=> VisitedAt(m, t) \/ t = now
    BY <2>1, <2>5 DEF DeskFieldsOK
  <2>8. ASSUME NEW n \in Members
        PROVE  IF lastCheckedIn'[n] = Null
               THEN \A t \in Time : ~VisitedAt(n, t)'
               ELSE \E last \in Time : /\ last = lastCheckedIn'[n] /\ VisitedAt(n, last)'
                                       /\ \A t \in Time : VisitedAt(n, t)' => t <= last
    <3>1. CASE n = m
      <4>0. PICK t0 \in Time : t0 = now
        BY <2>2
      <4>1. VisitedAt(m, t0)' /\ lastCheckedIn'[m] = t0 /\ t0 # Null
        BY <1>4, <2>7, <4>0 DEF Time
      <4>2. \A t \in Time : VisitedAt(m, t)' => t <= t0
        BY <1>0, <1>3, <2>7, <4>0
      <4> QED
        BY <3>1, <4>1, <4>2
    <3>2. CASE n # m
      BY <2>6, <3>2 DEF LastVisitIsStamped
    <3> QED
      BY <3>1, <3>2
  <2> QED
    BY <2>8 DEF LastVisitIsStamped
<1> QED
  BY <1>5, <1>6, VisitsMove
-----------------------------------------------------------------------------
(* The inductive invariant of the desk *)

DInv ==
  /\ BooksInv
  /\ TillInv
  /\ DeskFieldsOK
  /\ SalesInv
  /\ DoorInv
  /\ LastVisitIsStamped

LEMMA DeskStarts == DeskInit => DInv
<1> SUFFICES ASSUME DeskInit PROVE DInv
  OBVIOUS
<1>1. BooksInv
  BY BooksStart
<1>2. payments = <<>> /\ soldOrder = <<>> /\ Init
  BY DEF DeskInit
<1>3. payments \in Seq(Payment) /\ soldOrder \in Seq(Subs)
  BY <1>2
<1>4. DOMAIN payments = {} /\ DOMAIN soldOrder = {}
  BY <1>2
<1>5. \A s \in Subs : sub[s].status = "UNSOLD" /\ visits[s] = <<>>
  BY <1>2 DEF Init, Unsold
<1>6. TillInv
  BY <1>3, <1>4, <1>5 DEF TillInv, PaymentsAreOfSold, NeverOverpaid, IsSold
<1>7. DeskFieldsOK
  BY <1>3 DEF DeskInit, DeskFieldsOK
<1>8. SalesInv
  BY <1>4, <1>5 DEF SalesInv, IsSold
<1>9. DoorInv
  BY DEF DeskInit, DoorInv, BlockedIsOnRecord
<1>10. LastVisitIsStamped
  BY <1>5 DEF DeskInit, LastVisitIsStamped, VisitedAt
<1> QED
  BY <1>1, <1>6, <1>7, <1>8, <1>9, <1>10 DEF DInv

LEMMA DeskMoves ==
  ASSUME DInv, [DeskNext]_deskVars
  PROVE  DInv'
<1> USE DEF DInv
<1>1. BooksInv'
  BY BooksAreKept
<1>2. TillInv'
  BY TillNext
<1>3. DeskFieldsOK'
  BY FieldsNext
<1>4. SalesInv'
  BY SalesNext
<1>5. DoorInv'
  BY DoorNext
<1>6. LastVisitIsStamped'
  BY StampNext
<1> QED
  BY <1>1, <1>2, <1>3, <1>4, <1>5, <1>6

LEMMA DeskHolds == DeskSpec => []DInv
<1>1. DInv /\ [DeskNext]_deskVars => DInv'
  BY DeskMoves
<1> QED
  BY <1>1, DeskStarts, PTL DEF DeskSpec

(* Type correctness of the whole desk: in particular every amount that is    *)
(* collected is positive, with nothing but what is due to go by, and every   *)
(* payment, refusal and stamp is of a sold plan, branch or member that is.   *)
THEOREM DeskTypesHold == DeskSpec => []DeskTypeOK
<1>1. DInv => DeskTypeOK
  BY DEF DInv, BooksInv, RInv, IInv, TillInv, DeskFieldsOK, DeskTypeOK
<1> QED
  BY <1>1, DeskHolds, PTL

(* No sold plan ever collects more than its price, whatever is paid at the   *)
(* desk, with a walk-in, voided and paid again.                              *)
THEOREM NothingIsOverpaid == DeskSpec => []NeverOverpaid
<1>1. DInv => NeverOverpaid
  BY DEF DInv, TillInv
<1> QED
  BY <1>1, DeskHolds, PTL

(* The inbox and the audit trail agree on who was turned away at a wrong     *)
(* branch, and no plan that was sold for every branch is among them.         *)
THEOREM RefusalsAreOnRecord == DeskSpec => []BlockedIsOnRecord
<1>1. DInv => BlockedIsOnRecord
  BY DEF DInv, DoorInv
<1> QED
  BY <1>1, DeskHolds, PTL

-----------------------------------------------------------------------------
(* Who stays away *)

LEMMA VisitTimesAre ==
  ASSUME NEW m, NEW t
  PROVE  t \in VisitTimes(m) <=> VisitedAt(m, t)
  BY DEF VisitTimes, VisitedAt, PlansOf, Range

LEMMA StampTellsWhoStaysAway ==
  ASSUME BooksInv, LastVisitIsStamped, NEW m \in Members
  PROVE  /\ m \in NeverVisited <=> VisitTimes(m) = {}
         /\ \A days \in 1 .. GymDay(now) :
              m \in FindMembers(days) <=> \A t \in VisitTimes(m) : AddDays(t, days) < now
<1>0. Null \notin Int /\ now \in Nat
  BY TermsAssumption, VisitsAreRecorded
<1>1. \A t \in VisitTimes(m) : t \in Time
  BY VisitTimesAre, VisitsAreRecorded DEF VisitedAt
<1>2. CASE lastCheckedIn[m] = Null
  <2>1. VisitTimes(m) = {}
    BY <1>1, <1>2, VisitTimesAre DEF LastVisitIsStamped
  <2> QED
    BY <1>2, <2>1 DEF NeverVisited, FindMembers, InactiveFor
<1>3. CASE lastCheckedIn[m] # Null
  <2>1. PICK last \in Time : /\ last = lastCheckedIn[m] /\ VisitedAt(m, last)
                             /\ \A t \in Time : VisitedAt(m, t) => t <= last
    BY <1>3 DEF LastVisitIsStamped
  <2>2. m \notin NeverVisited /\ last \in VisitTimes(m)
    BY <1>3, <2>1, VisitTimesAre DEF NeverVisited
  <2>3. \A t \in VisitTimes(m) : t <= last
    BY <1>1, <2>1, VisitTimesAre
  <2>4. ASSUME NEW days \in 1 .. GymDay(now)
        PROVE  m \in FindMembers(days) <=> \A t \in VisitTimes(m) : AddDays(t, days) < now
    <3> DEFINE span == days * Day
    <3>1. m \in FindMembers(days) <=> last + span < now
      BY <2>1, <2>2 DEF FindMembers, InactiveFor, AddDays
    <3>2. span \in Int
      <4>1. days \in Int /\ Day \in Int
        BY TermsAssumption
      <4> QED
        BY <4>1
    <3>3. \A t : AddDays(t, days) = t + span
      BY DEF AddDays
    <3> HIDE DEF span
    <3>4. \A t \in VisitTimes(m) : t + span <= last + span
      BY <1>1, <2>1, <2>3, <3>2 DEF Time
    <3>5. (\A t \in VisitTimes(m) : t + span < now) <=> last + span < now
      BY <1>0, <1>1, <2>1, <2>2, <3>2, <3>4 DEF Time
    <3> QED
      BY <3>1, <3>3, <3>5
  <2> QED
    BY <2>2, <2>4
<1> QED
  BY <1>2, <1>3

(* The one column of a member says who stays away, for every range of days:  *)
(* it agrees with the visits on all the plans the member ever held.          *)
THEOREM InactiveIsReadOffTheStamp == DeskSpec => []InactiveStayedAway
<1>1. DInv => InactiveStayedAway
  BY StampTellsWhoStaysAway DEF DInv, InactiveStayedAway
<1> QED
  BY <1>1, DeskHolds, PTL

-----------------------------------------------------------------------------
(* What the door lets in *)

LEMMA Rounded ==
  ASSUME NEW n \in Int, NEW paid \in Int, paid >= (n + 50) \div 100
  PROVE  100 * paid >= n - 50
  OBVIOUS

LEMMA GateMeansPaid ==
  ASSUME BooksInv, DeskFieldsOK, NEW p \in Plans, NEW paid \in Nat,
         gate.required, GateOpens(p, paid)
  PROVE  100 * paid >= Price[p] * gate.percent - 50
<1>1. Price[p] \in Nat /\ gate.percent \in Int
  <2>1. gate \in Gate /\ Price[p] \in Nat
    BY FrontDeskAssumption DEF DeskFieldsOK
  <2> QED
    BY <2>1 DEF Gate
<1> DEFINE n == Price[p] * gate.percent
<1>2. n \in Int /\ (Price[p] = 0 => n = 0)
  BY <1>1
<1>3. Price[p] = 0 \/ paid >= (n + 50) \div 100
  BY DEF GateOpens, MeetsPaidPercent, Needed
<1> HIDE DEF n
<1>4. CASE Price[p] = 0
  <2>1. n = 0
    BY <1>2, <1>4
  <2>2. 100 * paid >= n - 50
    BY <2>1
  <2> QED
    BY <2>2 DEF n
<1>5. CASE paid >= (n + 50) \div 100
  <2>1. 100 * paid >= n - 50
    BY <1>2, <1>5, Rounded
  <2> QED
    BY <2>1 DEF n
<1> QED
  BY <1>3, <1>4, <1>5

(* Whoever enters has a plan that has collected enough to pass the gate.     *)
LEMMA EntersPaid ==
  ASSUME DInv, [DeskNext]_deskVars, NEW s \in Subs, visits'[s] # visits[s]
  PROVE  GateOpens(sub'[s].plan, PaidIn(payments', s))
<1>0. /\ BooksInv /\ FreshIsEmpty /\ IInv /\ payments \in Seq(Payment)
      /\ visits \in [Subs -> Seq(Time)]
  BY DEF DInv, BooksInv, RInv, IInv, TypeOK, TillInv
<1>1. CASE \E r \in Subs : DoorLetsIn(r)
  <2>1. PICK r \in Subs : DoorLetsIn(r)
    BY <1>1
  <2>2. /\ Visit(r) /\ payments' = payments
        /\ \E b \in Branches : Denial(r, b) = "none"
    BY <2>1 DEF DoorLetsIn, LetIn, money
  <2>3. r = s
    BY <1>0, <2>2 DEF Visit
  <2>4. GateOpens(sub[s].plan, PaidTotal(s))
    BY <2>2, <2>3 DEF Denial
  <2>5. sub'[s].plan = sub[s].plan
    BY <1>0, <2>2, <2>3, SoldStays DEF Visit, IsFresh, Next
  <2> QED
    BY <1>0, <2>2, <2>4, <2>5, PaidTotalIs
<1>2. CASE SomeoneSells
  <2>1. PICK r \in Subs, m \in Members, p \in Plans, b \in Branches,
             paid \in Nat, enters \in BOOLEAN : SellDayPass(r, m, p, b, paid, enters)
    BY <1>2 DEF SomeoneSells
  <2>2. /\ WalkIn(r, m, p, enters) /\ (enters => GateOpens(p, paid))
        /\ payments' = IF paid = 0 THEN payments ELSE Append(payments, Collected(r, paid))
    BY <2>1 DEF SellDayPass, WalkInMayEnter
  <2>3. visits' = [visits EXCEPT ![r] = IF enters THEN Append(@, now) ELSE @]
    BY <2>2 DEF WalkIn
  <2>4. r = s /\ enters
    BY <1>0, <2>3
  <2>5. sub'[s].plan = p /\ sub[s].status = "UNSOLD"
    <3>1. sub'[r].plan = p /\ sub[r].status = "UNSOLD"
      BY <1>0, <2>2, WalkInSells
    <3> QED
      BY <2>4, <3>1
  <2>6. PaidIn(payments, s) = 0
    <3>1. \A i \in DOMAIN payments : payments[i].sub # s
      BY <2>5 DEF DInv, TillInv, PaymentsAreOfSold
    <3> QED
      BY <3>1, NothingPaid
  <2>7. PaidIn(payments', s) = paid
    <3>1. CASE paid = 0
      BY <2>2, <2>6, <3>1
    <3>2. CASE paid # 0
      <4> DEFINE e == Collected(s, paid)
      <4>1. e \in Payment /\ e.amount = paid /\ Counts(e, s)
        BY <1>0, <3>2 DEF Collected, Payment, Counts, IInv, TypeOK
      <4>2. payments' = Append(payments, e)
        BY <2>2, <2>4, <3>2
      <4> HIDE DEF e
      <4>3. PaidIn(payments', s) = PaidIn(payments, s) + paid
        BY <1>0, <4>1, <4>2, PaymentIsAdded
      <4> QED
        BY <2>6, <4>3
    <3> QED
      BY <3>1, <3>2
  <2> QED
    BY <2>2, <2>4, <2>5, <2>7
<1>3. CASE KeepBooks
  <2>1. visits' = visits
    BY <1>3 DEF KeepBooks, Tick, Sweep, Settle, Freeze, Unfreeze, Cancel, PatchMember,
                PatchPlan, PatchSettings
  <2> QED
    BY <2>1
<1>4. ~ \/ \E r \in Subs, m \in Members, p \in Plans : SellPlan(r, m, p)
        \/ \E r \in Subs, next \in Subs : RenewPlan(r, next)
        \/ \E blocked \in SUBSET Subs : DoorTurnsAway(blocked)
  BY DEF SellPlan, Create, RenewPlan, Renew, DoorTurnsAway, TurnAway, Sweep, Settle
<1>5. ~ (OwnerEdits \/ SomeonePays \/ (\E i \in DOMAIN payments : Void(i)) \/ UNCHANGED deskVars)
  BY DEF OwnerEdits, WidenPlan, SelectBranches, PatchBranch, PatchGate, SomeonePays, Pay,
         Void, books, vars, deskVars
<1> QED
  BY <1>0, <1>1, <1>2, <1>3, <1>4, <1>5, DeskCases

LEMMA VisitorsHoldAPlan ==
  ASSUME BooksInv, [DeskNext]_deskVars, NEW s \in Subs, visits'[s] # visits[s]
  PROVE  sub'[s].status # "UNSOLD"
<1>1. visits \in [Subs -> Seq(Time)] /\ BooksInv'
  BY BooksAreKept, VisitsAreRecorded
<1>2. PICK r \in Subs, m \in Members : Enters(r, m)
  BY VisitsMove DEF NobodyEnters
<1>3. r = s
  BY <1>1, <1>2 DEF Enters
<1>4. sub'[s].member \in Members
  BY <1>2, <1>3 DEF Enters
<1>5. sub'[s].status = "UNSOLD" => sub'[s].member = Null
  BY <1>1 DEF BooksInv, FreshIsEmpty, Unsold
<1> QED
  BY <1>4, <1>5, TermsAssumption

LEMMA EntersPaidStep ==
  ASSUME DInv, [DeskNext]_deskVars, NEW s \in Subs, visits'[s] # visits[s], gate.required
  PROVE  LET price == Price[sub'[s].plan]
             held  == {i \in DOMAIN payments' :
                         payments'[i].sub = s /\ payments'[i].status = "COLLECTED"}
             paid  == MapThenSumSet(LAMBDA i : payments'[i].amount, held)
         IN  100 * paid >= price * gate.percent - 50
<1>1. /\ DInv' /\ BooksInv /\ DeskFieldsOK /\ payments' \in Seq(Payment)
      /\ GateOpens(sub'[s].plan, PaidIn(payments', s))
  BY DeskMoves, EntersPaid DEF DInv, TillInv
<1>2. sub'[s].plan \in Plans
  <2>1. BooksInv'
    BY <1>1 DEF DInv
  <2>2. sub'[s].status # "UNSOLD"
    BY VisitorsHoldAPlan DEF DInv
  <2> QED
    BY <2>1, <2>2, SoldPlansWillBeOfPlans
<1>3. PaidIn(payments', s) \in Nat
  BY <1>1, PaidIsNumber
<1>4. 100 * PaidIn(payments', s) >= Price[sub'[s].plan] * gate.percent - 50
  BY <1>1, <1>2, <1>3, GateMeansPaid
<1>5. CountedFor(payments', s) = {i \in DOMAIN payments' :
        payments'[i].sub = s /\ payments'[i].status = "COLLECTED"}
  BY DEF CountedFor, Counts
<1>6. MapThenSumSet(LAMBDA i : payments'[i].amount, CountedFor(payments', s))
        = PaidIn(payments', s)
  BY <1>1, AmountsAdd DEF PaidIn, CountedFor
<1> QED
  BY <1>4, <1>5, <1>6

(* With the payment gate on, nobody enters on a plan that has not collected  *)
(* its share, whatever was paid or voided before and wherever it was sold.   *)
THEOREM GateIsKept == DeskSpec => NobodyEntersUnpaid
<1>1. DInv /\ [DeskNext]_deskVars =>
        [\A s \in Subs : visits'[s] # visits[s] /\ gate.required =>
           LET price == Price[sub'[s].plan]
               held  == {i \in DOMAIN payments' :
                           payments'[i].sub = s /\ payments'[i].status = "COLLECTED"}
               paid  == MapThenSumSet(LAMBDA i : payments'[i].amount, held)
           IN  100 * paid >= price * gate.percent - 50]_deskVars
  BY EntersPaidStep
<1> QED
  BY <1>1, DeskHolds, PTL DEF DeskSpec, NobodyEntersUnpaid

-----------------------------------------------------------------------------
(* Whom the door picks *)

(* A plan that runs is not changed by a settle pass. *)
LEMMA RunningIsSettled ==
  ASSUME BooksInv, NEW r \in Subs, sub[r].status = "ACTIVE", now < sub[r].endsAt
  PROVE  Settled(r) = sub[r]
<1>1. RowOK(sub[r], freezes[r], now) /\ now \in Time
  BY RowsAreOK DEF BooksInv, RInv
<1>2. SettleThaw(sub[r], freezes[r], now) = sub[r]
  BY <1>1, OnlyFrozenThaws
<1>3. sub[r].endsAt \in Nat /\ now \in Nat
  BY <1>1 DEF RowOK, SoldPlan, Time
<1>4. ~IsDue(sub[r], settings, now)
  BY <1>3 DEF IsDue
<1> QED
  BY <1>2, <1>4 DEF Settled, SettleRow

LEMMA ServesBeforeGrace ==
  ASSUME BooksInv, NEW m, NEW b, NEW r \in PlansOf(m), CouldServe(r, b)
  PROVE  r \in Eligible(m, b) /\ Settled(r).status = "ACTIVE"
<1>1. r \in Subs /\ sub[r].status = "ACTIVE" /\ now < sub[r].endsAt
  BY DEF PlansOf, CouldServe
<1>2. Settled(r) = sub[r] /\ sub[r] \in SoldPlan /\ now \in Nat
  BY <1>1, RunningIsSettled, RowsAreOK DEF BooksInv, RInv, RowOK, Time
<1>3. sub[r].sessionsRemaining # Null => sub[r].sessionsRemaining > 0
  BY <1>2 DEF CouldServe, SoldPlan
<1>4. sub[r].endsAt \in Nat
  BY <1>2 DEF SoldPlan, Time
<1>5. DoorOpensFor(Settled(r), settings, now)
  BY <1>1, <1>2, <1>3, <1>4 DEF DoorOpensFor
<1>6. ~IsStopped(r)
  BY <1>1, <1>2 DEF IsStopped
<1>7. Denial(r, b) = "none"
  BY <1>5, <1>6 DEF Denial, CouldServe
<1> QED
  BY <1>1, <1>2, <1>7 DEF Eligible

LEMMA GraceStaysForLast ==
  ASSUME BooksInv, NEW s \in Subs, sub'[s].graceUsedAt # sub[s].graceUsedAt,
         NEW b \in Branches, CheckIn(sub[s].member, b)
  PROVE  ~ \E r \in PlansOf(sub[s].member) : CouldServe(r, b)
<1> DEFINE m == sub[s].member
<1>0. IInv /\ \A r \in Subs : Settled(r).graceUsedAt = sub[r].graceUsedAt
  BY SettledStays DEF BooksInv, RInv
<1>1. CASE \E q \in Picks(m, b) : LetIn(q)
  <2>1. PICK q \in Picks(m, b) : Visit(q)
    BY <1>1 DEF LetIn
  <2>2. q \in Subs /\ sub' = [SettledSubs(Subs) EXCEPT ![q] = VisitRow(@, settings, now)]
    BY <2>1 DEF Picks, Eligible, PlansOf, Visit
  <2>3. \A r \in Subs \ {q} : sub'[r] = Settled(r)
    BY <2>2 DEF SettledSubs
  <2>4. q = s
    BY <1>0, <2>3
  <2>5. sub'[s] = VisitRow(Settled(s), settings, now)
    BY <2>2, <2>4 DEF SettledSubs
  <2>6. Settled(s) \in SoldPlan /\ settings \in Settings /\ now \in Time
    BY <1>0, RowsAreOK, SettledRow DEF RowOK
  <2>7. Settled(s).status = "EXPIRED"
    BY <1>0, <2>5, <2>6, VisitFields DEF OpensGrace
  <2>8. ASSUME NEW r \in PlansOf(m), CouldServe(r, b)
        PROVE  FALSE
    <3>1. r \in Eligible(m, b) /\ Settled(r).status = "ACTIVE"
      BY <2>8, ServesBeforeGrace
    <3>2. IsBefore(r, s)
      BY <2>7, <3>1 DEF IsBefore, Rank
    <3> QED
      BY <2>1, <2>4, <3>1, <3>2 DEF Picks
  <2> QED
    BY <2>8
<1>2. ~ TurnAway({q \in PlansOf(m) : Denial(q, b) = "branch"})
  BY <1>0 DEF TurnAway, Sweep, Settle, SettledSubs
<1> QED
  BY <1>1, <1>2 DEF CheckIn

(* The door never spends a member's only grace while the member holds a plan *)
(* that runs, is valid at that branch and is paid for.                       *)
THEOREM GraceIsTheLastResort == DeskSpec => GraceIsSpentLast
<1>1. DInv /\ [DeskNext]_deskVars =>
        [\A s \in Subs : sub'[s].graceUsedAt # sub[s].graceUsedAt =>
           \A b \in Branches : CheckIn(sub[s].member, b) =>
             ~ \E r \in PlansOf(sub[s].member) : CouldServe(r, b)]_deskVars
  BY GraceStaysForLast DEF DInv
<1> QED
  BY <1>1, DeskHolds, PTL DEF DeskSpec, GraceIsSpentLast
-----------------------------------------------------------------------------
(* The list of memberships that ran out *)

(* A row that a settle pass finds expired is found so ever after, under any  *)
(* policy, as long as nobody touches it.                                     *)
LEMMA ExpiredForGood ==
  ASSUME NEW row, NEW fs, NEW t \in Time, NEW u \in Time, t <= u,
         NEW cfg \in Settings, NEW policy \in Settings,
         RowOK(row, fs, t), RowOK(row, fs, u), GraceOnRecord(row, t),
         SettleRow(row, fs, cfg, t).status = "EXPIRED"
  PROVE  SettleRow(row, fs, policy, u).status = "EXPIRED"
<1>0. /\ row \in SoldPlan /\ fs \in Seq(Episode) /\ Null \notin Int
      /\ t \in Int /\ u \in Int
  BY TermsAssumption DEF RowOK, Time
<1>1. row.endsAt \in Int
  BY <1>0 DEF SoldPlan, Time
<1>2. CASE row.status = "FROZEN"
  <2>1. /\ ThawRow(row).status = "ACTIVE" /\ ThawRow(row).endsAt = row.endsAt
    BY <1>0 DEF ThawRow, SoldPlan
  <2>2. SettleThaw(row, fs, t) = ThawRow(row) /\ ThawRow(row).endsAt <= t
    <3>1. CASE SettleThaw(row, fs, t) = row
      BY <1>2, <3>1 DEF SettleRow, IsDue
    <3>2. CASE SettleThaw(row, fs, t) = ThawRow(row)
      BY <2>1, <3>2 DEF SettleRow, IsDue
    <3> QED
      BY <3>1, <3>2, SettledThaws
  <2>3. PICK i \in DOMAIN fs : IsOverdue(fs[i], t)
    <3>1. row # ThawRow(row)
      BY <1>2, <2>1
    <3> QED
      BY <2>2, <3>1 DEF SettleThaw
  <2>4. IsOverdue(fs[i], u)
    <3>1. fs[i].endedAt \in Nat
      BY <1>0, FreezesAreEpisodes DEF Time
    <3> QED
      BY <1>0, <2>3, <3>1 DEF IsOverdue
  <2>5. SettleThaw(row, fs, u) = ThawRow(row)
    BY <1>2, <2>4 DEF SettleThaw
  <2>6. ThawRow(row).endsAt <= u
    BY <1>0, <1>1, <2>1, <2>2
  <2>7. IsDue(ThawRow(row), policy, u)
    BY <2>1, <2>6 DEF IsDue
  <2>8. SettleRow(row, fs, policy, u) = [ThawRow(row) EXCEPT !.status = "EXPIRED"]
    BY <2>5, <2>7 DEF SettleRow
  <2> QED
    BY <1>0, <2>8 DEF ThawRow, SoldPlan
<1>3. CASE row.status # "FROZEN"
  <2>1. SettleThaw(row, fs, t) = row /\ SettleThaw(row, fs, u) = row
    BY <1>3, OnlyFrozenThaws
  <2>2. CASE row.status = "EXPIRED"
    BY <2>1, <2>2 DEF SettleRow, IsDue
  <2>3. CASE row.status # "EXPIRED"
    <3>1. IsDue(row, cfg, t)
      BY <2>1, <2>3 DEF SettleRow
    <3>2. IsDue(row, policy, u)
      <4>1. CASE row.status = "ACTIVE"
        BY <1>0, <1>1, <3>1, <4>1 DEF IsDue
      <4>2. CASE row.status = "IN_GRACE"
        <5>1. row.graceUsedAt # Null
          BY <4>2 DEF RowOK, InOrder
        <5>2. row.graceEndsAt # Null
          BY <5>1 DEF GraceOnRecord
        <5>3. row.graceEndsAt \in Int
          BY <1>0, <5>2 DEF SoldPlan, Time
        <5> QED
          BY <1>0, <3>1, <4>2, <5>2, <5>3 DEF IsDue
      <4> QED
        BY <3>1, <4>1, <4>2 DEF IsDue
    <3> QED
      BY <1>0, <2>1, <3>2 DEF SettleRow, SoldPlan
  <2> QED
    BY <2>2, <2>3
<1> QED
  BY <1>2, <1>3

(* What the next settle pass makes of a row. *)
NextRow(s) == SettleRow(sub'[s], freezes'[s], settings', now')

LEMMA ExpiredStays ==
  ASSUME BooksInv, [Next]_vars, NEW s \in Subs, Settled(s).status = "EXPIRED"
  PROVE  sub'[s].status = "IN_GRACE" \/ NextRow(s).status = "EXPIRED"
<1>0. /\ IInv /\ IInv' /\ RInv
      /\ RowOK(sub[s], freezes[s], now) /\ GraceOnRecord(sub[s], now)
      /\ RowOK(Settled(s), SettledFreezes(s), now)
      /\ now \in Time /\ settings \in Settings
  BY InvNext, RowsAreRecorded, SettledRow DEF BooksInv, RInv, RecordOK
<1>1. RowOK(sub'[s], freezes'[s], now') /\ now' \in Time /\ settings' \in Settings
  BY <1>0, SoldPlansAssumption
  DEF IInv, TypeOK, FrozenMatchesOpenFreeze, DatesInOrder, RowOK
<1>2. CASE Tick \/ (now' = now /\ Kept(s))
  <2>1. sub'[s] = sub[s] /\ freezes'[s] = freezes[s] /\ now <= now'
    BY <1>0, <1>2 DEF Tick, Kept, Time
  <2>2. SettleRow(sub[s], freezes[s], settings, now).status = "EXPIRED"
    BY DEF Settled
  <2>3. SettleRow(sub[s], freezes[s], settings', now').status = "EXPIRED"
    BY <1>0, <1>1, <2>1, <2>2, ExpiredForGood
  <2> QED
    BY <2>1, <2>3 DEF NextRow
<1>3. CASE SettledOnly(s)
  <2>1. sub'[s].status = "EXPIRED"
    BY <1>3 DEF SettledOnly
  <2>2. SettleThaw(sub'[s], freezes'[s], now') = sub'[s]
    BY <1>1, <2>1, OnlyFrozenThaws
  <2> QED
    BY <2>1, <2>2 DEF NextRow, SettleRow, IsDue
<1>4. CASE SoldNow(s)
  BY <1>0, <1>4, SettledStays DEF SoldNow, IsFresh
<1>5. CASE VisitedNow(s)
  <2>1. Settled(s) \in SoldPlan
    BY <1>0 DEF RowOK
  <2> QED
    BY <1>0, <1>5, <2>1, VisitFields DEF VisitedNow, OpensGrace
<1>6. ~FrozenNow(s) /\ ~UnfrozenNow(s) /\ ~CancelledNow(s)
  BY DEF FrozenNow, UnfrozenNow, CancelledNow, MayCancel
<1> QED
  BY <1>0, <1>2, <1>3, <1>4, <1>5, <1>6, StepShape DEF ChangedNow, Bystander

(* A pack that is used up stays so. *)
LEMMA UsedUpStays ==
  ASSUME BooksInv, [Next]_vars, NEW s \in Subs, sub[s].status # "UNSOLD",
         IsUsedUp(sub[s])
  PROVE  IsUsedUp(sub'[s])
<1>0. /\ IInv /\ now \in Time /\ settings \in Settings
      /\ RowOK(sub[s], freezes[s], now) /\ RowOK(Settled(s), SettledFreezes(s), now)
  BY RowsAreOK, SettledRow DEF BooksInv, RInv
<1>1. /\ Settled(s) \in SoldPlan
      /\ Settled(s).sessionsRemaining = sub[s].sessionsRemaining
  BY <1>0, SettledFields DEF Settled, RowOK
<1>2. CASE Tick \/ Bystander(s)
  BY <1>1, <1>2 DEF Tick, Bystander, Kept, SettledOnly, IsUsedUp
<1>3. CASE FrozenNow(s)
  <2>1. PICK days \in Nat \ {0} : sub'[s] = FreezeRow(Settled(s), now, days)
    BY <1>3 DEF FrozenNow
  <2> QED
    BY <1>1, <2>1 DEF FreezeRow, SoldPlan, IsUsedUp
<1>4. CASE UnfrozenNow(s)
  BY <1>1, <1>4 DEF UnfrozenNow, UnfreezeRow, ThawRow, SoldPlan, IsUsedUp
<1>5. CASE CancelledNow(s)
  BY <1>1, <1>5 DEF CancelledNow, CancelRow, SoldPlan, IsUsedUp
<1>6. ~SoldNow(s)
  BY DEF SoldNow, IsFresh
<1>7. ~VisitedNow(s)
  <2>1. /\ sub[s].sessionsRemaining # Null /\ sub[s].sessionsRemaining <= 0
        /\ sub[s].sessionsRemaining \in Nat
    BY <1>1 DEF IsUsedUp, SoldPlan
  <2> QED
    BY <1>1, <2>1 DEF VisitedNow, DoorOpensFor
<1> QED
  BY <1>0, <1>2, <1>3, <1>4, <1>5, <1>6, <1>7, StepShape DEF ChangedNow

LEMMA PlacesAreNumbers ==
  ASSUME SalesInv, soldOrder \in Seq(Subs), NEW s \in Subs, IsSold(s)
  PROVE  PlaceOf(s) \in DOMAIN soldOrder /\ PlaceOf(s) \in Nat
<1>1. \E i \in DOMAIN soldOrder : soldOrder[i] = s
  BY DEF SalesInv
<1>2. PlaceOf(s) \in DOMAIN soldOrder
  BY <1>1 DEF PlaceOf
<1>3. DOMAIN soldOrder = 1 .. Len(soldOrder) /\ Len(soldOrder) \in Nat
  BY LenProperties
<1> QED
  BY <1>2, <1>3

(* Read of a sold plan, or of a row of the same plan sold after it.          *)
LEMMA LatestOrSoldAgain ==
  SalesInv /\ soldOrder \in Seq(Subs) =>
    \A s \in Subs : IsSold(s) => IsLatest(s) \/ SoldAgain(s)
<1> SUFFICES ASSUME SalesInv, soldOrder \in Seq(Subs), NEW s \in Subs, IsSold(s), ~IsLatest(s)
             PROVE  SoldAgain(s)
  OBVIOUS
<1>1. PICK r \in LifecycleRows : /\ sub[r].member = sub[s].member /\ sub[r].plan = sub[s].plan
                                 /\ ~ (PlaceOf(r) <= PlaceOf(s))
  BY DEF IsLatest
<1>2. PlaceOf(r) \in Nat /\ PlaceOf(s) \in Nat
  BY PlacesAreNumbers DEF LifecycleRows, Sold
<1> QED
  BY <1>1, <1>2 DEF SoldAgain

LEMMA LatestOrSoldAgainNext ==
  (SalesInv /\ soldOrder \in Seq(Subs) =>
    \A s \in Subs : IsSold(s) => IsLatest(s) \/ SoldAgain(s))'
  BY LatestOrSoldAgain, PTL

LEMMA FollowedUp ==
  ASSUME DInv, [DeskNext]_deskVars, NEW s \in CompletedUnrenewed
  PROVE  \/ (s \in CompletedUnrenewed)'
         \/ sub'[s].status \in {"CANCELLED", "IN_GRACE"}
         \/ SoldAgain(s)'
<1>0. /\ DInv' /\ [Next]_vars /\ BooksInv /\ BooksInv' /\ IInv
      /\ SalesInv' /\ (soldOrder \in Seq(Subs))'
  BY DeskMoves, BooksAreKept DEF DInv, DeskFieldsOK, BooksInv, RInv
<1>1. /\ s \in Subs /\ sub[s].status # "UNSOLD"
      /\ IsCompleted(Settled(s)) /\ RowOK(sub[s], freezes[s], now)
      /\ now \in Time /\ settings \in Settings
  BY <1>0, RowsAreOK DEF CompletedUnrenewed, Sold, IsSold, Row
<1>2. sub'[s].status # "UNSOLD" /\ sub'[s].plan = sub[s].plan
  BY <1>0, <1>1, SoldStays
<1>3. RowOK(sub'[s], freezes'[s], now') /\ now' \in Time /\ settings' \in Settings
  BY <1>0, <1>1, SoldPlansAssumption
  DEF BooksInv, RInv, IInv, TypeOK, FrozenMatchesOpenFreeze, DatesInOrder, RowOK
<1>4. /\ Settled(s).plan = sub[s].plan
      /\ Settled(s).sessionsRemaining = sub[s].sessionsRemaining
      /\ NextRow(s).plan = sub'[s].plan
      /\ NextRow(s).sessionsRemaining = sub'[s].sessionsRemaining
  BY <1>1, <1>3, SettledFields DEF Settled, NextRow
<1>5. SUFFICES ASSUME sub'[s].status \notin {"CANCELLED", "IN_GRACE"}, ~SoldAgain(s)'
               PROVE  (s \in CompletedUnrenewed)'
  OBVIOUS
<1>6. NextRow(s).status # "CANCELLED"
  <2>1. sub'[s] \in SoldPlan
    BY <1>3 DEF RowOK
  <2>2. SettleThaw(sub'[s], freezes'[s], now') \in {sub'[s], ThawRow(sub'[s])}
    BY <1>3, SettledThaws
  <2> QED
    BY <1>5, <2>1, <2>2 DEF NextRow, SettleRow, ThawRow, SoldPlan
<1>7. IsFinished(NextRow(s))
  <2>1. CASE Settled(s).status = "EXPIRED"
    BY <1>0, <1>1, <1>5, <2>1, ExpiredStays DEF IsFinished
  <2>2. CASE IsUsedUp(Settled(s))
    <3>1. IsUsedUp(sub[s])
      BY <1>4, <2>2 DEF IsUsedUp
    <3>2. IsUsedUp(sub'[s])
      BY <1>0, <1>1, <3>1, UsedUpStays
    <3> QED
      BY <1>4, <3>2 DEF IsUsedUp, IsFinished
  <2> QED
    BY <1>1, <2>1, <2>2 DEF IsCompleted, IsFinished
<1>8. IsCompleted(NextRow(s))
  <2>1. ~IsDayPass(NextRow(s))
    BY <1>1, <1>2, <1>4 DEF IsCompleted, IsDayPass
  <2> QED
    BY <1>6, <1>7, <2>1 DEF IsCompleted
<1>9. (IsLatest(s))'
  BY <1>0, <1>1, <1>2, <1>5, LatestOrSoldAgainNext DEF IsSold
<1> QED
  BY <1>1, <1>2, <1>8, <1>9 DEF CompletedUnrenewed, Sold, IsSold, Row, Settled, NextRow

(* A member whose membership ran out stays on the list until the plan is     *)
(* sold to the member again, is cancelled, or is given its grace: neither    *)
(* time nor a change of settings drops anybody.                              *)
THEOREM FollowUpIsNotLost == DeskSpec => FollowUpIsKept
<1>1. DInv /\ [DeskNext]_deskVars =>
        [\A s \in CompletedUnrenewed :
           \/ (s \in CompletedUnrenewed)'
           \/ sub'[s].status \in {"CANCELLED", "IN_GRACE"}
           \/ SoldAgain(s)']_deskVars
  BY FollowedUp
<1> QED
  BY <1>1, DeskHolds, PTL DEF DeskSpec, FollowUpIsKept
-----------------------------------------------------------------------------
(* The morning screen *)

LEMMA DaysGrow ==
  ASSUME NEW t \in Nat, NEW u \in Nat, t <= u
  PROVE  GymDay(t) \in Nat /\ GymDay(u) \in Nat /\ GymDay(t) <= GymDay(u)
<1>1. Day \in Nat \ {0}
  BY TermsAssumption
<1> DEFINE q == t \div Day
           r == u \div Day
<1>2. /\ q \in Nat /\ r \in Nat
      /\ q * Day <= t /\ u < r * Day + Day
  BY <1>1
<1> HIDE DEF q, r
<1>3. ASSUME r < q PROVE FALSE
  <2>1. PICK d \in Nat : q = r + 1 + d
    <3>1. q - r - 1 \in Nat /\ q = r + 1 + (q - r - 1)
      BY <1>2, <1>3
    <3> QED
      BY <3>1
  <2>2. q * Day = r * Day + Day + d * Day
    BY <1>1, <1>2, <2>1
  <2>3. d * Day \in Nat /\ r * Day \in Nat
    BY <1>1, <1>2, <2>1
  <2> QED
    BY <1>1, <1>2, <2>2, <2>3
<1>4. q <= r
  BY <1>2, <1>3
<1> QED
  BY <1>2, <1>4 DEF GymDay, q, r

LEMMA SoldIsFinite ==
  ASSUME SalesInv, soldOrder \in Seq(Subs)
  PROVE  IsFiniteSet(Sold)
<1>1. Len(soldOrder) \in Nat /\ DOMAIN soldOrder = 1 .. Len(soldOrder)
  BY LenProperties
<1>2. IsFiniteSet(DOMAIN soldOrder)
  BY <1>1, FS_Interval
<1> DEFINE listed == {soldOrder[i] : i \in DOMAIN soldOrder}
<1>3. soldOrder \in Surjection(DOMAIN soldOrder, listed)
  BY <1>1 DEF Surjection
<1>4. Sold \subseteq listed
  BY DEF Sold, SalesInv
<1> HIDE DEF listed
<1>5. IsFiniteSet(listed)
  BY <1>2, <1>3, FS_Surjection
<1> QED
  BY <1>4, <1>5, FS_Subset

(* The three columns of a sold plan that the screen adds up. *)
Prices  == [s \in Subs |-> PriceOf(s)]
PaidUps == [s \in Subs |-> PaidTotal(s)]
Dues    == [s \in Subs |-> DueAmount(s)]

LEMMA PricesAdd ==
  ASSUME NEW T \in SUBSET Subs, IsFiniteSet(T)
  PROVE  MapThenSumSet(PriceOf, T) = Total(Prices, T)
<1> DEFINE f == Prices
<1>1. \A s \in SUBSET T : s # {} => f[Pick(s)] = PriceOf(Pick(s))
  BY PickIsOne DEF Prices
<1> HIDE DEF f
<1>2. PICK h : Adds(f, T, h)
  BY AddsSomehow
<1>3. \A k : k = [s \in SUBSET T |-> IF s = {} THEN 0 ELSE PriceOf(Pick(s)) + k[Rest(s)]]
               => Adds(f, T, k)
  <2> SUFFICES ASSUME NEW k,
                      k = [s \in SUBSET T |-> IF s = {} THEN 0
                                              ELSE PriceOf(Pick(s)) + k[Rest(s)]]
               PROVE  Adds(f, T, k)
    OBVIOUS
  <2>1. \A s \in SUBSET T : k[s] = IF s = {} THEN 0 ELSE f[Pick(s)] + k[Rest(s)]
    BY <1>1
  <2>2. k = [s \in SUBSET T |-> k[s]]
    OBVIOUS
  <2>3. k = [s \in SUBSET T |-> IF s = {} THEN 0 ELSE f[Pick(s)] + k[Rest(s)]]
    BY <2>1, <2>2
  <2> QED
    BY <2>3 DEF Adds
<1>4. h = [s \in SUBSET T |-> IF s = {} THEN 0 ELSE PriceOf(Pick(s)) + h[Rest(s)]]
  <2>1. \A s \in SUBSET T : h[s] = IF s = {} THEN 0 ELSE PriceOf(Pick(s)) + h[Rest(s)]
    BY <1>1, <1>2 DEF Adds
  <2>2. h = [s \in SUBSET T |-> h[s]]
    BY <1>2 DEF Adds
  <2> QED
    BY <2>1, <2>2
<1>5. \E k : /\ k = [s \in SUBSET T |-> IF s = {} THEN 0 ELSE PriceOf(Pick(s)) + k[Rest(s)]]
             /\ MapThenSumSet(PriceOf, T) = k[T]
  BY <1>4 DEF MapThenSumSet, MapThenFoldSet, Pick, Rest
<1>6. MapThenSumSet(PriceOf, T) = Total(f, T)
  BY <1>3, <1>5, TotalAdds
<1> QED
  BY <1>6 DEF f

LEMMA PaidUpsAdd ==
  ASSUME NEW T \in SUBSET Subs, IsFiniteSet(T)
  PROVE  MapThenSumSet(PaidTotal, T) = Total(PaidUps, T)
<1> DEFINE f == PaidUps
<1>1. \A s \in SUBSET T : s # {} => f[Pick(s)] = PaidTotal(Pick(s))
  BY PickIsOne DEF PaidUps
<1> HIDE DEF f
<1>2. PICK h : Adds(f, T, h)
  BY AddsSomehow
<1>3. \A k : k = [s \in SUBSET T |-> IF s = {} THEN 0 ELSE PaidTotal(Pick(s)) + k[Rest(s)]]
               => Adds(f, T, k)
  <2> SUFFICES ASSUME NEW k,
                      k = [s \in SUBSET T |-> IF s = {} THEN 0
                                              ELSE PaidTotal(Pick(s)) + k[Rest(s)]]
               PROVE  Adds(f, T, k)
    OBVIOUS
  <2>1. \A s \in SUBSET T : k[s] = IF s = {} THEN 0 ELSE f[Pick(s)] + k[Rest(s)]
    BY <1>1
  <2>2. k = [s \in SUBSET T |-> k[s]]
    OBVIOUS
  <2>3. k = [s \in SUBSET T |-> IF s = {} THEN 0 ELSE f[Pick(s)] + k[Rest(s)]]
    BY <2>1, <2>2
  <2> QED
    BY <2>3 DEF Adds
<1>4. h = [s \in SUBSET T |-> IF s = {} THEN 0 ELSE PaidTotal(Pick(s)) + h[Rest(s)]]
  <2>1. \A s \in SUBSET T : h[s] = IF s = {} THEN 0 ELSE PaidTotal(Pick(s)) + h[Rest(s)]
    BY <1>1, <1>2 DEF Adds
  <2>2. h = [s \in SUBSET T |-> h[s]]
    BY <1>2 DEF Adds
  <2> QED
    BY <2>1, <2>2
<1>5. \E k : /\ k = [s \in SUBSET T |-> IF s = {} THEN 0 ELSE PaidTotal(Pick(s)) + k[Rest(s)]]
             /\ MapThenSumSet(PaidTotal, T) = k[T]
  BY <1>4 DEF MapThenSumSet, MapThenFoldSet, Pick, Rest
<1>6. MapThenSumSet(PaidTotal, T) = Total(f, T)
  BY <1>3, <1>5, TotalAdds
<1> QED
  BY <1>6 DEF f

LEMMA DuesAdd ==
  ASSUME NEW T \in SUBSET Subs, IsFiniteSet(T)
  PROVE  MapThenSumSet(DueAmount, T) = Total(Dues, T)
<1> DEFINE f == Dues
<1>1. \A s \in SUBSET T : s # {} => f[Pick(s)] = DueAmount(Pick(s))
  BY PickIsOne DEF Dues
<1> HIDE DEF f
<1>2. PICK h : Adds(f, T, h)
  BY AddsSomehow
<1>3. \A k : k = [s \in SUBSET T |-> IF s = {} THEN 0 ELSE DueAmount(Pick(s)) + k[Rest(s)]]
               => Adds(f, T, k)
  <2> SUFFICES ASSUME NEW k,
                      k = [s \in SUBSET T |-> IF s = {} THEN 0
                                              ELSE DueAmount(Pick(s)) + k[Rest(s)]]
               PROVE  Adds(f, T, k)
    OBVIOUS
  <2>1. \A s \in SUBSET T : k[s] = IF s = {} THEN 0 ELSE f[Pick(s)] + k[Rest(s)]
    BY <1>1
  <2>2. k = [s \in SUBSET T |-> k[s]]
    OBVIOUS
  <2>3. k = [s \in SUBSET T |-> IF s = {} THEN 0 ELSE f[Pick(s)] + k[Rest(s)]]
    BY <2>1, <2>2
  <2> QED
    BY <2>3 DEF Adds
<1>4. h = [s \in SUBSET T |-> IF s = {} THEN 0 ELSE DueAmount(Pick(s)) + h[Rest(s)]]
  <2>1. \A s \in SUBSET T : h[s] = IF s = {} THEN 0 ELSE DueAmount(Pick(s)) + h[Rest(s)]
    BY <1>1, <1>2 DEF Adds
  <2>2. h = [s \in SUBSET T |-> h[s]]
    BY <1>2 DEF Adds
  <2> QED
    BY <2>1, <2>2
<1>5. \E k : /\ k = [s \in SUBSET T |-> IF s = {} THEN 0 ELSE DueAmount(Pick(s)) + k[Rest(s)]]
             /\ MapThenSumSet(DueAmount, T) = k[T]
  BY <1>4 DEF MapThenSumSet, MapThenFoldSet, Pick, Rest
<1>6. MapThenSumSet(DueAmount, T) = Total(f, T)
  BY <1>3, <1>5, TotalAdds
<1> QED
  BY <1>6 DEF f

(* The payments that were collected, of whatever plan. *)
CollectedNow == {i \in DOMAIN payments : payments[i].status = "COLLECTED"}

(* Whatever was collected was collected for a sold plan.                     *)
LEMMA CollectedForPlans ==
  ASSUME DInv
  PROVE  Total(PaidUps, Sold) = Total(AmountsOf(payments), CollectedNow)
<1> DEFINE g     == AmountsOf(payments)
           group == [s \in Subs |-> CountedFor(payments, s)]
<1>0. /\ payments \in Seq(Payment) /\ IsFiniteSet(Sold) /\ Sold \subseteq Subs
      /\ PaymentsAreOfSold
  BY SoldIsFinite DEF DInv, TillInv, DeskFieldsOK, Sold
<1>1. \A s \in Subs : /\ CountedFor(payments, s) \in SUBSET DOMAIN payments
                      /\ IsFiniteSet(CountedFor(payments, s))
                      /\ PaidUps[s] = Total(g, CountedFor(payments, s))
  BY <1>0, PaymentsAreListed, PaidTotalIs DEF CountedFor, PaidUps, PaidIn
<1>2. \A s \in Sold : IsFiniteSet(group[s]) /\ PaidUps[s] = Total(g, group[s])
  BY <1>0, <1>1
<1>3. \A r, s \in Sold : r # s => group[r] \cap group[s] = {}
  BY <1>0 DEF CountedFor, Counts
<1>4. All(group, Sold) = CollectedNow
  <2>1. \A i \in All(group, Sold) : i \in CollectedNow
    BY <1>0 DEF All, CountedFor, Counts, CollectedNow
  <2>2. ASSUME NEW i \in CollectedNow
        PROVE  i \in All(group, Sold)
    <3>1. payments[i].sub \in Subs /\ i \in DOMAIN payments
      BY <1>0, PaymentsAreListed DEF Payment, CollectedNow
    <3>2. payments[i].sub \in Sold
      BY <1>0, <3>1 DEF PaymentsAreOfSold, Sold, IsSold
    <3>3. i \in group[payments[i].sub]
      BY <3>1 DEF CountedFor, Counts, CollectedNow
    <3> QED
      BY <3>2, <3>3 DEF All
  <2> QED
    BY <2>1, <2>2
<1>5. \A i \in All(group, Sold) : g[i] \in Int
  BY <1>0, <1>4, PaymentsAreListed DEF CollectedNow, AmountsOf
<1> HIDE DEF g, group
<1>6. Total(PaidUps, Sold) = Total(g, All(group, Sold))
  BY <1>0, <1>2, <1>3, <1>5, TotalOfGroups
<1> QED
  BY <1>4, <1>6 DEF g

(* Split on any day, what was collected before and after is all of it.       *)
LEMMA CollectedByDay ==
  ASSUME DInv, NEW day \in 0 .. GymDay(now)
  PROVE  CollectedIn(0, day) + CollectedIn(day + 1, GymDay(now))
           = Total(AmountsOf(payments), CollectedNow)
<1> DEFINE today  == GymDay(now)
           g      == AmountsOf(payments)
           before == {i \in FindPayments(0, day) : payments[i].status = "COLLECTED"}
           after  == {i \in FindPayments(day + 1, today) : payments[i].status = "COLLECTED"}
<1>0. payments \in Seq(Payment) /\ now \in Nat /\ PaymentsAreOfSold
  BY VisitsAreRecorded DEF DInv, TillInv
<1>1. \A i \in DOMAIN payments : payments[i].paidAt \in Nat /\ payments[i].paidAt <= now
  BY <1>0, PaymentsAreListed DEF Payment, Time, PaymentsAreOfSold
<1>2. /\ today \in Nat /\ day \in Nat
      /\ \A i \in DOMAIN payments :
           GymDay(payments[i].paidAt) \in Nat /\ GymDay(payments[i].paidAt) <= today
  <2>1. today \in Nat
    BY <1>0, DaysGrow
  <2>2. day \in Nat
    BY <2>1
  <2>3. \A i \in DOMAIN payments :
          GymDay(payments[i].paidAt) \in Nat /\ GymDay(payments[i].paidAt) <= today
    BY <1>0, <1>1, DaysGrow
  <2> QED
    BY <2>1, <2>2, <2>3
<1> HIDE DEF today
<1>3. before \cup after = CollectedNow
  BY <1>2 DEF FindPayments, InRange, CollectedNow
<1>4. before \cap after = {}
  BY <1>2 DEF FindPayments, InRange
<1>5. before \in SUBSET DOMAIN payments /\ after \in SUBSET DOMAIN payments
  BY DEF FindPayments
<1>6. /\ CollectedIn(0, day) = Total(g, before)
      /\ CollectedIn(day + 1, today) = Total(g, after)
  BY <1>0, <1>5, AmountsAdd DEF CollectedIn
<1>7. IsFiniteSet(before) /\ IsFiniteSet(after)
  BY <1>0, <1>5, PaymentsAreListed
<1>8. \A i \in before \cup after : g[i] \in Int
  BY <1>0, <1>5, PaymentsAreListed DEF AmountsOf
<1> HIDE DEF before, after, g
<1>9. Total(g, before \cup after) = Total(g, before) + Total(g, after)
  BY <1>4, <1>7, <1>8, TotalOfUnion
<1> QED
  BY <1>3, <1>6, <1>9 DEF g, today

(* What a plan on the books costs is what it has paid and what it owes.      *)
LEMMA PriceIsPaidOrDue ==
  ASSUME DInv, NEW s \in Subs, IsSold(s)
  PROVE  /\ PaidUps[s] \in Nat /\ Dues[s] \in Nat /\ Prices[s] = Dues[s] + PaidUps[s]
         /\ PaidTotal(s) \in Nat /\ DueAmount(s) = Due(s) /\ PriceOf(s) \in Nat
<1>1. /\ PaidTotal(s) \in Nat /\ PaidTotal(s) <= Price[sub[s].plan]
      /\ Price[sub[s].plan] \in Nat
  BY PaidTotalIs, PaidIsNumber, SoldPlansAreOfPlans DEF DInv, TillInv, NeverOverpaid, IsSold
<1>2. Due(s) \in Nat /\ DueAmount(s) = Due(s) /\ Due(s) = Price[sub[s].plan] - PaidTotal(s)
  BY <1>1 DEF Due, DueAmount
<1> QED
  BY <1>1, <1>2 DEF PaidUps, Dues, Prices, PriceOf

(* A settle pass cancels nothing and sells nothing.                          *)
LEMMA SettledIsCancelled ==
  ASSUME BooksInv, NEW s \in Subs
  PROVE  Row(s).status = "CANCELLED" <=> sub[s].status = "CANCELLED"
<1>1. /\ sub[s] \in SoldPlan
      /\ SettleThaw(sub[s], freezes[s], now) \in {sub[s], ThawRow(sub[s])}
  BY RowsAreOK, SettledThaws DEF BooksInv, RInv, RowOK
<1>2. sub[s].status = "CANCELLED" => Settled(s) = sub[s]
  BY SettledStays DEF BooksInv, RInv
<1>3. sub[s].status # "CANCELLED" => Settled(s).status # "CANCELLED"
  BY <1>1 DEF Settled, SettleRow, ThawRow, SoldPlan
<1> QED
  BY <1>2, <1>3 DEF Row

(* The unpaid list is what the desk can still collect on.                    *)
LEMMA UnpaidIsPayable ==
  ASSUME DInv, NEW s \in Sold
  PROVE  s \in Unpaid <=> \E amount \in Amounts \cup {Due(s)} :
                            amount > 0 /\ MayPay(s, amount)
<1>1. /\ s \in Subs /\ IsSold(s) /\ Due(s) \in Nat /\ PriceOf(s) \in Nat
      /\ PaidTotal(s) \in Nat /\ Due(s) = PriceOf(s) - PaidTotal(s)
      /\ Row(s).status = "CANCELLED" <=> sub[s].status = "CANCELLED"
  BY PriceIsPaidOrDue, SettledIsCancelled DEF DInv, Sold, DueAmount, Due, PriceOf
<1>2. Due(s) > 0 => PriceOf(s) > 0
  BY <1>1
<1>3. s \in Unpaid <=> /\ sub[s].status # "CANCELLED" /\ Due(s) > 0
                       /\ memberStatus[sub[s].member] # "ARCHIVED"
  BY <1>1, <1>2 DEF Unpaid, Billed, LifecycleRows, IsOnBooks, PriceOf
<1>4. MayPay(s, Due(s)) <=> /\ sub[s].status # "CANCELLED" /\ Due(s) > 0
                           /\ memberStatus[sub[s].member] # "ARCHIVED"
  BY <1>1 DEF MayPay, IsSold
<1>5. \A amount : MayPay(s, amount) => MayPay(s, Due(s))
  BY <1>1 DEF MayPay
<1> QED
  BY <1>1, <1>3, <1>4, <1>5 DEF MayPay

LEMMA ScreenBalances == DInv => BooksBalance
<1> SUFFICES ASSUME DInv PROVE BooksBalance
  OBVIOUS
<1> DEFINE off == Sold \ Billed
<1>0. /\ IsFiniteSet(Sold) /\ Sold \subseteq Subs /\ Billed \subseteq Sold
      /\ Billed \cup off = Sold /\ Billed \cap off = {}
  BY SoldIsFinite DEF DInv, DeskFieldsOK, Sold, Billed, LifecycleRows
<1>1. IsFiniteSet(Billed) /\ IsFiniteSet(off)
  BY <1>0, FS_Subset
<1>2. \A s \in Sold : PaidUps[s] \in Int /\ Dues[s] \in Int /\ Prices[s] = Dues[s] + PaidUps[s]
  BY PriceIsPaidOrDue DEF Sold
<1>3. /\ MapThenSumSet(PriceOf, Billed) = Total(Prices, Billed)
      /\ MapThenSumSet(PaidTotal, Sold \ Billed) = Total(PaidUps, off)
      /\ MapThenSumSet(DueAmount, Billed) = Total(Dues, Billed)
  BY <1>0, <1>1, PricesAdd, PaidUpsAdd, DuesAdd
<1> HIDE DEF off
<1>4. Total(Prices, Billed) = Total(Dues, Billed) + Total(PaidUps, Billed)
  BY <1>0, <1>1, <1>2, TotalOfSums
<1>5. Total(PaidUps, Sold) = Total(PaidUps, Billed) + Total(PaidUps, off)
  BY <1>0, <1>1, <1>2, TotalOfUnion
<1>6. /\ Total(Dues, Billed) \in Int /\ Total(PaidUps, Billed) \in Int
      /\ Total(PaidUps, off) \in Int
  BY <1>0, <1>1, <1>2, TotalIsNumber
<1>7. ASSUME NEW day \in 0 .. GymDay(now)
      PROVE  CollectedIn(0, day) + CollectedIn(day + 1, GymDay(now)) + DueFromBilled.amount
               = MapThenSumSet(PriceOf, Billed) + MapThenSumSet(PaidTotal, Sold \ Billed)
  <2>1. CollectedIn(0, day) + CollectedIn(day + 1, GymDay(now)) = Total(PaidUps, Sold)
    BY CollectedByDay, CollectedForPlans
  <2>2. DueFromBilled.amount = Total(Dues, Billed)
    BY <1>3 DEF DueFromBilled
  <2> QED
    BY <1>3, <1>4, <1>5, <1>6, <2>1, <2>2
<1>8. DeskListIds({"unpaid"}) = {s \in Sold : s \in Unpaid}
  BY DEF DeskListIds, IsListed
<1>9. DueFromBilled.count = Cardinality(DeskListIds({"unpaid"}))
  <2>1. \A s \in Billed : DueAmount(s) > 0 <=> Due(s) > 0
    BY <1>0, PriceIsPaidOrDue DEF Sold
  <2>2. {s \in Billed : DueAmount(s) > 0} = DeskListIds({"unpaid"})
    BY <1>0, <1>8, <2>1 DEF Unpaid
  <2> QED
    BY <2>2 DEF DueFromBilled
<1>10. DeskListIds({"unpaid"})
         = {s \in Sold : \E amount \in Amounts \cup {Due(s)} : amount > 0 /\ MayPay(s, amount)}
  BY <1>8, UnpaidIsPayable
<1> QED
  BY <1>7, <1>9, <1>10 DEF BooksBalance

(* The morning screen balances, in every gym and on every day: what was      *)
(* collected and what is due make up the prices of the plans on the books    *)
(* and the money kept on plans off them, and the unpaid list is exactly what *)
(* the desk can still collect on.                                            *)
THEOREM MorningBalances == DeskSpec => []BooksBalance
  BY ScreenBalances, DeskHolds, PTL
=============================================================================
