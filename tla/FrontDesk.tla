----------------------------- MODULE FrontDesk -----------------------------
(***************************************************************************)
(* The front desk of a gym: the sold plans of SoldPlans together with what *)
(* decides which of them a visit is written on, and who pays for it - the  *)
(* branches, the plans' branch lists, the money collected and the payment  *)
(* gate.  A step is one committed request; those that touch a sold plan    *)
(* are the steps of SoldPlans with their other writes.                     *)
(*                                                                         *)
(* Branch staff serve their own branch and owners and admins serve all of  *)
(* them, so who is asking never limits what can be asked; opening hours    *)
(* are a set of ticks of the day; money is counted in its smallest unit,   *)
(* and a plan keeps its price, which each sold row copies.                 *)
(***************************************************************************)
EXTENDS SoldPlans

CONSTANTS
  Branches,                       \* the locations of the gym
  Hours,                          \* Hours[b]: the ticks of a day b is open
  Price,                          \* Price[p]: what a sale of p costs
  Gates,                          \* the payment gates the gym may choose
  Amounts,                        \* the amounts handed over (bound)
  Edited,                         \* the plans whose branches are edited (bound)
  MaxPayments, MaxAttempts        \* payments, refused visits per plan (bounds)

Gate == [required : BOOLEAN, percent : 0 .. 100]

ASSUME FrontDeskAssumption ==
  /\ Branches # {}
  /\ Hours \in [Branches -> SUBSET (0 .. Day - 1)]
  /\ Price \in [Plans -> Nat]
  /\ Gates \subseteq Gate /\ Gates # {}
  /\ Amounts \subseteq Nat \ {0}
  /\ Edited \subseteq Plans
  /\ MaxPayments \in Nat /\ MaxAttempts \in Nat

VARIABLES
  branchStatus,      \* branches.status
  planBranches,      \* plan_branches, as they are now
  everywhere,        \* the plans with allBranches, as they are now
  soldEverywhere,    \* allBranches as each sold plan has copied it
  soldOrder,         \* subscriptions by createdAt
  gate,              \* requirePaymentForAccess, minPaidPercentForAccess
  payments,          \* payments, in order
  blockedInbox,      \* sold plans with a CHECKIN_BRANCH_BLOCKED inbox row
  blockedAudit,      \* CHECK_IN_BLOCKED audit rows per sold plan
  lastCheckedIn      \* members.lastCheckedInAt

books == vars
scope == <<branchStatus, planBranches, everywhere>>
sales == <<soldEverywhere, soldOrder>>
money == <<gate, payments>>
door  == <<blockedInbox, blockedAudit, lastCheckedIn>>
deskVars == <<books, scope, sales, money, door>>

Payment == [sub : Subs, amount : Nat \ {0}, paidAt : Time,
            status : {"COLLECTED", "VOIDED"}]

DeskTypeOK ==
  /\ TypeOK
  /\ branchStatus \in [Branches -> {"ACTIVE", "ARCHIVED"}]
  /\ planBranches \in [Plans -> SUBSET Branches]
  /\ everywhere \in SUBSET Plans
  /\ soldEverywhere \in [Subs -> BOOLEAN]
  /\ soldOrder \in Seq(Subs)
  /\ gate \in Gates
  /\ payments \in Seq(Payment)
  /\ blockedInbox \in SUBSET Subs
  /\ blockedAudit \in [Subs -> Nat]
  /\ lastCheckedIn \in [Members -> Time \cup {Null}]

DeskInit ==
  /\ Init
  /\ branchStatus = [b \in Branches |-> "ACTIVE"]
  /\ everywhere = Plans
  /\ planBranches = [p \in Plans |-> {}]
  /\ soldEverywhere = [s \in Subs |-> FALSE]
  /\ soldOrder = <<>>
  /\ gate \in Gates
  /\ payments = <<>>
  /\ blockedInbox = {}
  /\ blockedAudit = [s \in Subs |-> 0]
  /\ lastCheckedIn = [m \in Members |-> Null]

-----------------------------------------------------------------------------
(* Money *)

(* Mutation: voided payments still count. *)
CountsAnyPayment(pay, s) == pay.sub = s

Counts(pay, s) == pay.sub = s /\ pay.status = "COLLECTED"

PaidTotal(s) ==
  LET of == {i \in DOMAIN payments : Counts(payments[i], s)}
  IN  MapThenSumSet(LAMBDA i : payments[i].amount, of)

Due(s) == Price[sub[s].plan] - PaidTotal(s)

(* The percentage of a price, rounded to the smallest unit, half up. *)
Needed(p) == (Price[p] * gate.percent + 50) \div 100

MeetsPaidPercent(p, paid) == Price[p] = 0 \/ paid >= Needed(p)

GateOpens(p, paid) == gate.required => MeetsPaidPercent(p, paid)

-----------------------------------------------------------------------------
(* The door *)

IsServed(b) == branchStatus[b] = "ACTIVE"

IsBranchOpen(b) == now % Day \in Hours[b]

(* Mutation: the plan as it is now decides alone. *)
InScopeNow(s, b) == sub[s].plan \in everywhere \/ b \in planBranches[sub[s].plan]

(* The sold plan's copy of allBranches, against the plan's present list. *)
InScope(s, b) == soldEverywhere[s] \/ b \in planBranches[sub[s].plan]

IsStopped(s) == Settled(s).status \in {"FROZEN", "CANCELLED"}

(* doorDenial, its refusals told apart as far as the door does. *)
Denial(s, b) ==
  IF IsStopped(s) THEN "stopped"
  ELSE IF ~InScope(s, b) THEN "branch"
  ELSE IF ~DoorOpensFor(Settled(s), settings, now) THEN "unusable"
  ELSE IF ~GateOpens(sub[s].plan, PaidTotal(s)) THEN "payment"
  ELSE "none"

IsSold(s) == sub[s].status # "UNSOLD"

PlansOf(m) == {s \in Subs : sub[s].member = m}

Eligible(m, b) == {s \in PlansOf(m) : Denial(s, b) = "none"}

(* Mutation: grace goes first. *)
RankGraceFirst(status) ==
  CASE status = "ACTIVE" -> 1 [] status = "IN_GRACE" -> 2 [] OTHER -> 0

Rank(status) ==
  CASE status = "ACTIVE" -> 0 [] status = "IN_GRACE" -> 1 [] OTHER -> 2

IsBefore(r, s) ==
  LET x == Settled(r)
      y == Settled(s)
  IN  \/ Rank(x.status) < Rank(y.status)
      \/ Rank(x.status) = Rank(y.status) /\ x.endsAt < y.endsAt

(* Plans that end together come in the order the table returns them. *)
Picks(m, b) ==
  {s \in Eligible(m, b) : ~ \E r \in Eligible(m, b) : IsBefore(r, s)}

MayServe(m, b) ==
  /\ IsServed(b) /\ IsBranchOpen(b)
  /\ memberStatus[m] = "ACTIVE"

(* Mutation: the door forgets to stamp the member. *)
LetInUnstamped(s) ==
  /\ Visit(s)
  /\ UNCHANGED <<scope, sales, money, blockedInbox, blockedAudit, lastCheckedIn>>

LetIn(s) ==
  /\ Visit(s)
  /\ lastCheckedIn' = [lastCheckedIn EXCEPT ![sub[s].member] = now]
  /\ UNCHANGED <<scope, sales, money, blockedInbox, blockedAudit>>

(* A refusal that is on record: the settle pass commits with it. *)
TurnAway(blocked) ==
  /\ Sweep
  /\ \A s \in blocked : blockedAudit[s] < MaxAttempts
  /\ blockedInbox' = blockedInbox \cup blocked
  /\ blockedAudit' = [s \in Subs |-> IF s \in blocked THEN blockedAudit[s] + 1
                                                      ELSE blockedAudit[s]]
  /\ UNCHANGED <<scope, sales, money, lastCheckedIn>>

(* POST /checkIns: the desk chooses the sold plan, or the door picks it. *)
CheckInOn(s, b) ==
  /\ IsSold(s)
  /\ MayServe(sub[s].member, b)
  /\ \/ Denial(s, b) = "none" /\ LetIn(s)
     \/ Denial(s, b) = "branch" /\ TurnAway({s})

CheckIn(m, b) ==
  /\ MayServe(m, b)
  /\ \/ \E s \in Picks(m, b) : LetIn(s)
     \/ /\ Eligible(m, b) = {}
        /\ TurnAway({s \in PlansOf(m) : Denial(s, b) = "branch"})

-----------------------------------------------------------------------------
(* The desk *)

(* Every sale copies the flag of the plan and is the newest row. *)
Snapshot(s, p) ==
  /\ soldEverywhere' = [soldEverywhere EXCEPT ![s] = p \in everywhere]
  /\ soldOrder' = Append(soldOrder, s)

SellPlan(s, m, p) ==
  /\ Create(s, m, p)
  /\ Snapshot(s, p)
  /\ UNCHANGED <<scope, money, door>>

RenewPlan(s, next) ==
  /\ Renew(s, next)
  /\ Snapshot(next, sub[s].plan)
  /\ UNCHANGED <<scope, money, door>>

(* Freeze, unfreeze, cancel, the sweep, and what else moves only the books. *)
KeepBooks ==
  /\ \/ Tick \/ Sweep
     \/ \E s \in Subs :
          \/ \E days \in FreezeRequests : Freeze(s, days)
          \/ Settle({s})
          \/ Unfreeze(s)
          \/ Cancel(s)
     \/ \E m \in Members, status \in MemberStates : PatchMember(m, status)
     \/ \E p \in Shelvable : PatchPlan(p)
     \/ \E policy \in Policies : PatchSettings(policy)
  /\ UNCHANGED <<scope, sales, money, door>>

Collected(s, amount) ==
  [sub |-> s, amount |-> amount, paidAt |-> now, status |-> "COLLECTED"]

(* Mutation: the walk-in desk takes any amount. *)
WalkInTakesAny(p, paid) == paid = 0 \/ Price[p] > 0

WalkInTakes(p, paid) == paid = 0 \/ (Price[p] > 0 /\ paid <= Price[p])

(* A walk-in has a payment gate of its own; the sale is of this moment, so   *)
(* it has no visit that could count against the day.                         *)
WalkInMayEnter(p, paid) == GateOpens(p, paid)

(* POST /dayPasses; paid is 0 when nothing is collected with the sale. *)
SellDayPass(s, m, p, b, paid, enters) ==
  /\ IsServed(b)
  /\ enters => IsBranchOpen(b)
  /\ p \in everywhere \/ b \in planBranches[p]
  /\ WalkInTakes(p, paid)
  /\ enters => WalkInMayEnter(p, paid)
  /\ WalkIn(s, m, p, enters)
  /\ Snapshot(s, p)
  /\ Len(payments) < MaxPayments
  /\ payments' = IF paid = 0 THEN payments
                             ELSE Append(payments, Collected(s, paid))
  /\ lastCheckedIn' = IF enters THEN [lastCheckedIn EXCEPT ![m] = now]
                                ELSE lastCheckedIn
  /\ UNCHANGED <<scope, gate, blockedInbox, blockedAudit>>

(* Mutations: a settled plan is charged, or one too much. *)
MayPaySettled(s, amount) ==
  /\ sub[s].status \notin {"UNSOLD", "CANCELLED"}
  /\ memberStatus[sub[s].member] # "ARCHIVED"
  /\ amount <= Due(s)

MayPayThePrice(s, amount) ==
  /\ sub[s].status \notin {"UNSOLD", "CANCELLED"}
  /\ memberStatus[sub[s].member] # "ARCHIVED"
  /\ Due(s) > 0 /\ amount <= Price[sub[s].plan]

MayPay(s, amount) ==
  /\ sub[s].status \notin {"UNSOLD", "CANCELLED"}
  /\ memberStatus[sub[s].member] # "ARCHIVED"
  /\ Due(s) > 0 /\ amount <= Due(s)

(* POST /payments; an amount that is left out is all that is due. *)
Pay(s, amount) ==
  /\ \E b \in Branches : IsServed(b)
  /\ MayPay(s, amount)
  /\ Len(payments) < MaxPayments
  /\ payments' = Append(payments, Collected(s, amount))
  /\ UNCHANGED <<books, scope, sales, gate, door>>

Void(i) ==
  /\ payments[i].status = "COLLECTED"
  /\ payments' = [payments EXCEPT ![i].status = "VOIDED"]
  /\ UNCHANGED <<books, scope, sales, gate, door>>

-----------------------------------------------------------------------------
(* The owner *)

(* PATCH allBranches: true empties the plan's branch list. *)
WidenPlan(p) ==
  /\ everywhere' = everywhere \cup {p}
  /\ planBranches' = [planBranches EXCEPT ![p] = {}]
  /\ UNCHANGED <<books, branchStatus, sales, money, door>>

(* PATCH branchIds, with allBranches: false if the plan was sold everywhere. *)
SelectBranches(p, listed) ==
  /\ listed # {}
  /\ \A b \in listed : IsServed(b)
  /\ everywhere' = everywhere \ {p}
  /\ planBranches' = [planBranches EXCEPT ![p] = listed]
  /\ UNCHANGED <<books, branchStatus, sales, money, door>>

(* PATCH status of a branch; the last active one is not archived (that its *)
(* staff have moved elsewhere is the business of module GymSetup).         *)
PatchBranch(b) ==
  /\ branchStatus[b] = "ACTIVE" =>
       \E other \in Branches \ {b} : branchStatus[other] = "ACTIVE"
  /\ branchStatus' = [branchStatus EXCEPT
       ![b] = IF @ = "ACTIVE" THEN "ARCHIVED" ELSE "ACTIVE"]
  /\ UNCHANGED <<books, planBranches, everywhere, sales, money, door>>

PatchGate(g) ==
  /\ gate' = g
  /\ UNCHANGED <<books, scope, sales, payments, door>>

(* Every request but the payments, which module Till takes apart. *)
Elsewhere ==
  \/ KeepBooks
  \/ \E s \in Subs :
       \/ \E m \in Members, p \in Plans : SellPlan(s, m, p)
       \/ \E next \in Subs : RenewPlan(s, next)
       \/ \E b \in Branches : CheckInOn(s, b)
       \/ \E m \in Members, p \in Plans, b \in Branches :
            \E paid \in Amounts \cup {0, Price[p]}, enters \in BOOLEAN :
              SellDayPass(s, m, p, b, paid, enters)
  \/ \E m \in Members, b \in Branches : CheckIn(m, b)
  \/ \E p \in Edited : WidenPlan(p) \/ \E bs \in SUBSET Branches : SelectBranches(p, bs)
  \/ \E b \in Branches : PatchBranch(b)
  \/ \E g \in Gates : PatchGate(g)

DeskNext ==
  \/ Elsewhere
  \/ \E s \in Subs :
       IsSold(s) /\ \E amount \in Amounts \cup {Due(s)} : Pay(s, amount)
  \/ \E i \in DOMAIN payments : Void(i)

DeskSpec == DeskInit /\ [][DeskNext]_deskVars

-----------------------------------------------------------------------------
(* What must never go wrong *)

(* Whatever is paid at the desk, with a walk-in, voided and paid again, no   *)
(* sold plan has collected more than its price (both ways of paying compute  *)
(* what is due by themselves).                                               *)
NeverOverpaid == \A s \in Subs : IsSold(s) => PaidTotal(s) <= Price[sub[s].plan]

(* With the gate on, nobody enters on a plan that has not collected its      *)
(* share, at the door or as a walk-in, after any payments and voids (half a  *)
(* unit may be lost to rounding).                                            *)
NobodyEntersUnpaid ==
  [][\A s \in Subs : visits'[s] # visits[s] /\ gate.required =>
       LET price == Price[sub'[s].plan]
           held  == {i \in DOMAIN payments' :
                       payments'[i].sub = s /\ payments'[i].status = "COLLECTED"}
           paid  == MapThenSumSet(LAMBDA i : payments'[i].amount, held)
       IN  100 * paid >= price * gate.percent - 50]_deskVars

(* The door opens a plan's only grace as the last resort: when it picks by   *)
(* itself, the member holds no plan that still runs, is valid at that branch *)
(* and is paid for (whatever the order the sold plans are compared in).      *)
CouldServe(r, b) ==
  /\ sub[r].status = "ACTIVE" /\ now < sub[r].endsAt
  /\ sub[r].sessionsRemaining # 0
  /\ InScope(r, b)
  /\ GateOpens(sub[r].plan, PaidTotal(r))

GraceIsSpentLast ==
  [][\A s \in Subs : sub'[s].graceUsedAt # sub[s].graceUsedAt =>
       \A b \in Branches : CheckIn(sub[s].member, b) =>
         ~ \E r \in PlansOf(sub[s].member) : CouldServe(r, b)]_deskVars

(* The inbox has its one row for a plan turned away at a wrong branch        *)
(* exactly when the audit trail has such attempts, and no plan sold for      *)
(* every branch ever is.                                                     *)
BlockedIsOnRecord ==
  \A s \in Subs :
    /\ s \in blockedInbox <=> blockedAudit[s] > 0
    /\ s \in blockedInbox => ~soldEverywhere[s]

-----------------------------------------------------------------------------
(* What the documentation promises and the code does not keep *)

(* "It is allowed at this location (every branch, or this branch is on the   *)
(* plan)": a plan that is for every branch is refused at none.               *)
EveryBranchMeansEveryBranch ==
  \A s \in Subs : IsSold(s) /\ sub[s].plan \in everywhere =>
    \A b \in Branches : InScope(s, b)
=============================================================================
