----------------------------- MODULE DeskViews -----------------------------
(***************************************************************************)
(* What the desk reads: the lists of sold plans it works through, the      *)
(* members who stay away, the morning screen and the CSV exports.  A view  *)
(* is a function of the state; those of sold plans settle the gym first,   *)
(* in the same transaction, so they speak of settled rows.                 *)
(*                                                                         *)
(* Paging, search and the filters by one column are left out, and so is    *)
(* what only splits a number: cash and card, visits by branch.             *)
(***************************************************************************)
EXTENDS FrontDesk

Row(s) == Settled(s)

Sold == {s \in Subs : IsSold(s)}

-----------------------------------------------------------------------------
(* The lists of sold plans *)

(* A blocked member still owes; an archived one is off the books. *)
IsOnBooks(s) == memberStatus[sub[s].member] # "ARCHIVED"

LifecycleRows == {s \in Sold : Row(s).status # "CANCELLED"}

(* Mutation: archived members are billed. *)
BilledToAll == {s \in LifecycleRows : Price[sub[s].plan] > 0}

Billed == {s \in LifecycleRows : Price[sub[s].plan] > 0 /\ IsOnBooks(s)}

Unpaid == {s \in Billed : Due(s) > 0}

InProgress == {s \in LifecycleRows : IsOnBooks(s) /\ IsInProgress(Row(s))}

Expired == {s \in Sold : Row(s).status = "EXPIRED" /\ IsOnBooks(s)}

EndingSoon == {s \in Sold : IsEndingSoon(Row(s), now)}

PlaceOf(s) == CHOOSE i \in DOMAIN soldOrder : soldOrder[i] = s

(* Mutation: the member's newest row, whatever plan it is of. *)
IsNewestOfMember(s) ==
  \A r \in LifecycleRows :
    sub[r].member = sub[s].member => PlaceOf(r) <= PlaceOf(s)

(* The newest row of that plan that the member has not cancelled. *)
IsLatest(s) ==
  \A r \in LifecycleRows :
    sub[r].member = sub[s].member /\ sub[r].plan = sub[s].plan =>
      PlaceOf(r) <= PlaceOf(s)

IsCompleted(row) ==
  row.status # "CANCELLED" /\ ~IsDayPass(row) /\ IsFinished(row)

CompletedUnrenewed == {s \in Sold : IsCompleted(Row(s)) /\ IsLatest(s)}

IsListed(s, name) ==
  CASE name = "unpaid"             -> s \in Unpaid
    [] name = "inProgress"         -> s \in InProgress
    [] name = "completedUnrenewed" -> s \in CompletedUnrenewed
    [] name = "expired"            -> s \in Expired
    [] name = "endingSoon"         -> s \in EndingSoon

(* The lists a query asks for, intersected; none leaves the table whole.     *)
DeskListIds(asked) == {s \in Sold : \A name \in asked : IsListed(s, name)}

(* dueAmount of a sold plan, as on its receipts. *)
DueAmount(s) == IF Due(s) > 0 THEN Due(s) ELSE 0

-----------------------------------------------------------------------------
(* Members who stay away *)

NeverVisited == {m \in Members : lastCheckedIn[m] = Null}

InactiveFor(days) ==
  NeverVisited \cup
    {m \in Members \ NeverVisited : AddDays(lastCheckedIn[m], days) < now}

-----------------------------------------------------------------------------
(* The morning screen and the exports of a range of days *)

InRange(t, from, to) == from <= GymDay(t) /\ GymDay(t) <= to

FindPayments(from, to) ==
  {i \in DOMAIN payments : InRange(payments[i].paidAt, from, to)}

FindCheckIns(from, to) ==
  {v \in UNION {{s} \X DOMAIN visits[s] : s \in Subs} :
     InRange(visits[v[1]][v[2]], from, to)}

FindMembers(days) == InactiveFor(days)

FindSubscriptions(asked) == DeskListIds(asked)

CountStatus(status) == Cardinality({s \in Sold : Row(s).status = status})

CollectedIn(from, to) ==
  LET kept == {i \in FindPayments(from, to) : payments[i].status = "COLLECTED"}
  IN  MapThenSumSet(LAMBDA i : payments[i].amount, kept)

DueFromBilled ==
  [amount |-> MapThenSumSet(DueAmount, Billed),
   count  |-> Cardinality({s \in Billed : DueAmount(s) > 0})]

Summary(from, to) ==
  [members       |-> [status \in MemberStatus |->
                        Cardinality({m \in Members : memberStatus[m] = status})],
   subscriptions |-> [status \in Status \ {"UNSOLD"} |-> CountStatus(status)],
   endingSoon    |-> Cardinality(EndingSoon),
   unrenewed     |-> Cardinality(CompletedUnrenewed),
   checkIns      |-> Cardinality(FindCheckIns(from, to)),
   uniqueMembers |-> Cardinality({sub[v[1]].member : v \in FindCheckIns(from, to)}),
   collected     |-> CollectedIn(from, to),
   due           |-> DueFromBilled]

-----------------------------------------------------------------------------
(* What must never go wrong *)

PriceOf(s) == Price[sub[s].plan]

(* The morning screen balances: on whichever day the books are split, what   *)
(* was collected up to it, what was collected after it and what is due make  *)
(* up the prices of the plans on the books and the money kept on plans off   *)
(* them, and the unpaid list is what the desk can still collect on.          *)
BooksBalance ==
  LET today  == GymDay(now)
      billed == Billed
      owed   == MapThenSumSet(PriceOf, billed) + MapThenSumSet(PaidTotal, Sold \ billed)
      due    == DueFromBilled
      unpaid == DeskListIds({"unpaid"}) IN
  /\ \A day \in 0 .. today :
       CollectedIn(0, day) + CollectedIn(day + 1, today) + due.amount = owed
  /\ due.count = Cardinality(unpaid)
  /\ unpaid = {s \in Sold : \E amount \in Amounts \cup {Due(s)} :
                            amount > 0 /\ MayPay(s, amount)}

(* A member whose membership ran out is followed up: the plan leaves that    *)
(* list only when it is sold to the member again, is cancelled, or is given  *)
(* its grace.                                                                *)
SoldAgain(s) ==
  \E r \in LifecycleRows :
    /\ sub[r].member = sub[s].member /\ sub[r].plan = sub[s].plan
    /\ PlaceOf(s) < PlaceOf(r)

FollowUpIsKept ==
  [][\A s \in CompletedUnrenewed :
       \/ (s \in CompletedUnrenewed)'
       \/ sub'[s].status \in {"CANCELLED", "IN_GRACE"}
       \/ SoldAgain(s)']_deskVars

(* Who stays away is read off one column of the member; it agrees with the   *)
(* visits on all their plans, whether the door or the walk-in desk let them  *)
(* in, and no refusal moves it.                                              *)
VisitTimes(m) == UNION {Range(visits[s]) : s \in PlansOf(m)}

InactiveStayedAway ==
  \A m \in Members :
    /\ m \in NeverVisited <=> VisitTimes(m) = {}
    /\ \A days \in 1 .. GymDay(now) :
         m \in FindMembers(days) <=> \A t \in VisitTimes(m) : AddDays(t, days) < now
=============================================================================
