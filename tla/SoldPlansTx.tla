---------------------------- MODULE SoldPlansTx ----------------------------
(***************************************************************************)
(* The same sold plans, with the transactions taken apart.  PrismaService  *)
(* opens every transaction at PostgreSQL's default level, READ COMMITTED,  *)
(* and no statement of the repositories locks what it reads:               *)
(*                                                                         *)
(*   - a SELECT sees what is committed when it runs, and the transaction's *)
(*     own writes;                                                         *)
(*   - an UPDATE takes the row's lock, waiting for another transaction     *)
(*     that has written the row to end, and then changes the columns it    *)
(*     names on the newest committed row, even if that row is no longer    *)
(*     what the transaction had read;                                      *)
(*   - locks are kept and writes stay invisible until COMMIT.              *)
(*                                                                         *)
(* A transaction that is refused, times out or is picked as a deadlock     *)
(* victim rolls back.  Members are ACTIVE, the plans stay on sale and the  *)
(* gym's settings stay as they are; a renewal differs from a get followed  *)
(* by a sale only in its guard, and with the walk-in is left to SoldPlans. *)
(***************************************************************************)
EXTENDS SoldPlans

CONSTANTS
  Sessions,          \* database connections that run a transaction each
  Ops,               \* which operations the sessions run (bound)
  Overlapping,       \* those that, with sales, may run side by side (bound)
  TxTime             \* ticks a transaction may take (Prisma ends it after 5 s)

Operation == {"sweep", "get", "freeze", "unfreeze", "cancel", "visit"}

ASSUME SoldPlansTxAssumption ==
  /\ Subs # {}
  /\ Ops \subseteq Operation
  /\ Overlapping \subseteq Ops \cup {"create"}
  /\ TxTime \in Nat

VARIABLE tx          \* what each session is in the middle of

tables == <<shop, sub, freezes, visits, inbox>>   \* what is committed
txVars == <<now, tables, tx>>

Step == {"idle", "overdue", "thaw", "expire", "read", "count", "close", "write"}

(***************************************************************************)
(* overdue and due are the rows a settle pass has selected and not yet     *)
(* written; row and newest are what the handler has read of its own plan;  *)
(* held, draft and shut are the rows it has written and keeps locked.      *)
(***************************************************************************)
Closing == [sub : Subs, id : Nat, at : Time]

Transaction ==
  [op : Operation, on : Subs, days : Nat, at : Time, step : Step,
   overdue : SUBSET (Subs \X Nat), due : SUBSET Subs,
   row : SoldPlan, newest : Nat,
   held : SUBSET Subs, draft : [Subs -> SoldPlan], shut : SUBSET Closing,
   notices : SUBSET (NoticeType \X Subs)]

TxTypeOK == TypeOK /\ tx \in [Sessions -> Transaction]

Begun(op, s, days, step) ==
  [op |-> op, on |-> s, days |-> days, at |-> now, step |-> step,
   overdue |-> {}, due |-> {}, row |-> Unsold, newest |-> 0, held |-> {},
   draft |-> [r \in Subs |-> Unsold], shut |-> {}, notices |-> {}]

NoTransaction ==
  [Begun("get", CHOOSE s \in Subs : TRUE, 0, "idle") EXCEPT !.at = 0]

TxInit == Init /\ tx = [t \in Sessions |-> NoTransaction]

-----------------------------------------------------------------------------
(* What a session sees, what it may lock, and its COMMIT *)

View(t, s) == IF s \in tx[t].held THEN tx[t].draft[s] ELSE sub[s]

ClosingsOf(shut, s, i) == {c \in shut : c.sub = s /\ c.id = i}

EpisodesWith(shut, s) ==
  [i \in DOMAIN freezes[s] |->
     IF ClosingsOf(shut, s, i) = {}
     THEN freezes[s][i]
     ELSE [freezes[s][i] EXCEPT !.unfrozenAt =
             (CHOOSE c \in ClosingsOf(shut, s, i) : TRUE).at]]

RowFree(t, s) == \A o \in Sessions \ {t} : s \notin tx[o].held

FreezeFree(t, s, i) ==
  \A o \in Sessions \ {t} : ClosingsOf(tx[o].shut, s, i) = {}

Scope(t) == IF tx[t].op \in {"sweep", "visit"} THEN Subs ELSE {tx[t].on}

(* Publishes the rows done holds and the rows it inserts for its own plan. *)
Commit(t, done, newFreezes, newVisits) ==
  /\ sub' =
       [s \in Subs |-> IF s \in done.held THEN done.draft[s] ELSE sub[s]]
  /\ freezes' =
       [s \in Subs |-> IF s = done.on
                       THEN EpisodesWith(done.shut, s) \o newFreezes
                       ELSE EpisodesWith(done.shut, s)]
  /\ visits' = [visits EXCEPT ![done.on] = @ \o newVisits]
  /\ inbox' = inbox \cup done.notices
  /\ tx' = [tx EXCEPT ![t] = NoTransaction]
  /\ UNCHANGED <<now, shop>>

(* The UPDATE of the session's own plan, as the last write before COMMIT. *)
CommitRow(t, row, newFreezes, newVisits) ==
  /\ RowFree(t, tx[t].on)
  /\ Commit(t, [tx[t] EXCEPT !.held = @ \cup {tx[t].on},
                             !.draft[tx[t].on] = row], newFreezes, newVisits)

-----------------------------------------------------------------------------
(* BEGIN, and the settle pass every transaction starts with *)

MayOverlap(op) ==
  \A o \in Sessions : tx[o].step # "idle" => {op, tx[o].op} \subseteq Overlapping

Begin(t, op, s, days) ==
  /\ tx[t].step = "idle"
  /\ MayOverlap(op)
  /\ sub[s].status # "UNSOLD"
  /\ tx' = [tx EXCEPT ![t] = Begun(op, s, days, "overdue")]
  /\ UNCHANGED <<now, tables>>

OverdueIn(scope) ==
  UNION {{<<s, i>> : i \in {j \in DOMAIN freezes[s] :
                              IsOverdue(freezes[s][j], now)}} :
           s \in {r \in scope : sub[r].status # "CANCELLED"}}

SelectOverdue(t) ==
  /\ tx[t].step = "overdue"
  /\ tx' = [tx EXCEPT ![t].overdue = OverdueIn(Scope(t)), ![t].step = "thaw"]
  /\ UNCHANGED <<now, tables>>

(* Both updates of one overdue freeze, by id and with no second look. *)
Thaw(t) ==
  /\ tx[t].step = "thaw"
  /\ \E x \in tx[t].overdue :
       LET s == x[1]
           i == x[2]
       IN  /\ FreezeFree(t, s, i) /\ RowFree(t, s)
           /\ tx' = [tx EXCEPT
                ![t].overdue = @ \ {x},
                ![t].held = @ \cup {s},
                ![t].draft[s] = ThawRow(View(t, s)),
                ![t].shut = @ \cup {[sub |-> s, id |-> i,
                                     at |-> freezes[s][i].endedAt]}]
  /\ UNCHANGED <<now, tables>>

(* Mutation: the due rows are looked up as committed, before the thaws. *)
SelectDueAsCommitted(t) ==
  /\ tx[t].step = "thaw"
  /\ tx[t].overdue = {}
  /\ tx' = [tx EXCEPT
       ![t].due = {s \in Scope(t) : IsDue(sub[s], settings, now)},
       ![t].step = "expire"]
  /\ UNCHANGED <<now, tables>>

SelectDue(t) ==
  /\ tx[t].step = "thaw"
  /\ tx[t].overdue = {}
  /\ tx' = [tx EXCEPT
       ![t].due = {s \in Scope(t) : IsDue(View(t, s), settings, now)},
       ![t].step = "expire"]
  /\ UNCHANGED <<now, tables>>

Expired(t, s) ==
  IF s \in tx[t].due THEN [View(t, s) EXCEPT !.status = "EXPIRED"]
                     ELSE View(t, s)

(* Mutation: only the rows found still running are announced. *)
ExpireQuietly(t) ==
  /\ tx[t].step = "expire"
  /\ \A s \in tx[t].due : RowFree(t, s)
  /\ tx' = [tx EXCEPT
       ![t].held = @ \cup tx[t].due,
       ![t].draft = [s \in Subs |-> IF s \in tx[t].due THEN Expired(t, s)
                                                       ELSE @[s]],
       ![t].notices = {<<"SUBSCRIPTION_EXPIRED", s>> :
         s \in {r \in tx[t].due : View(t, r).status \in {"ACTIVE", "IN_GRACE"}}},
       ![t].step = "read"]
  /\ UNCHANGED <<now, tables>>

(* updateMany by id, then the two kinds of inbox rows. *)
Expire(t) ==
  /\ tx[t].step = "expire"
  /\ \A s \in tx[t].due : RowFree(t, s)
  /\ tx' = [tx EXCEPT
       ![t].held = @ \cup tx[t].due,
       ![t].draft = [s \in Subs |-> IF s \in tx[t].due THEN Expired(t, s)
                                                       ELSE @[s]],
       ![t].notices =
          {<<"SUBSCRIPTION_EXPIRED", s>> : s \in tx[t].due}
            \cup {<<"SUBSCRIPTION_ENDING_SOON", s>> :
                    s \in {r \in Scope(t) : IsEndingSoon(Expired(t, r), now)}},
       ![t].step = "read"]
  /\ UNCHANGED <<now, tables>>

EndSettle(t) ==
  /\ tx[t].step = "read"
  /\ tx[t].op \in {"sweep", "get"}
  /\ Commit(t, tx[t], <<>>, <<>>)

-----------------------------------------------------------------------------
(* The handlers: one read of their plan, its checks, then their writes *)

Admits(t, row, fs) ==
  LET op == tx[t].op
  IN  \/ /\ op = "freeze" /\ MayFreeze(row, fs, settings, tx[t].at, tx[t].days)
         /\ Len(fs) < MaxFreezes
      \/ op = "unfreeze" /\ row.status = "FROZEN"
      \/ op = "cancel" /\ MayCancel(row)
      \/ op = "visit" /\ DoorOpensFor(row, settings, tx[t].at)

NextStep(op) == CASE op = "visit"  -> "count"
                  [] op = "cancel" -> "close"
                  [] OTHER         -> "write"

Read(t) ==
  LET s  == tx[t].on
      fs == EpisodesWith(tx[t].shut, s)
  IN  /\ tx[t].step = "read"
      /\ Admits(t, View(t, s), fs)
      /\ tx' = [tx EXCEPT
           ![t].row = View(t, s),
           ![t].newest = Max({0} \cup {i \in DOMAIN fs : IsNewestOpen(fs, i)}),
           ![t].step = NextStep(tx[t].op)]
      /\ UNCHANGED <<now, tables>>

(* freeze: insert the episode, then write endsAt from the row as read. *)
WriteFreeze(t) ==
  LET s == tx[t].on
  IN  /\ tx[t].step = "write" /\ tx[t].op = "freeze"
      /\ CommitRow(t, [View(t, s) EXCEPT
                         !.status = "FROZEN", !.frozenAt = tx[t].at,
                         !.freezeEndsAt = AddDays(tx[t].at, tx[t].days),
                         !.endsAt = AddDays(tx[t].row.endsAt, tx[t].days)],
                   <<NewFreeze(tx[t].at, tx[t].days)>>, <<>>)

(* Mutation: the unused days are taken off the row as it now stands. *)
WriteUnfreezeDecrement(t) ==
  LET s    == tx[t].on
      own  == IF tx[t].newest = 0 THEN {}
              ELSE {[sub |-> s, id |-> tx[t].newest, at |-> tx[t].at]}
      done == [tx[t] EXCEPT
                 !.held = @ \cup {s},
                 !.draft[s] = [ThawRow(View(t, s)) EXCEPT
                   !.endsAt = @ - UnusedFreeze(tx[t].row, tx[t].at)],
                 !.shut = @ \cup own]
  IN  /\ tx[t].step = "write" /\ tx[t].op = "unfreeze"
      /\ RowFree(t, s)
      /\ Commit(t, done, <<>>, <<>>)

(* unfreeze: close the episode found, write endsAt from the row as read. *)
WriteUnfreeze(t) ==
  LET s    == tx[t].on
      own  == IF tx[t].newest = 0 THEN {}
              ELSE {[sub |-> s, id |-> tx[t].newest, at |-> tx[t].at]}
      done == [tx[t] EXCEPT
                 !.held = @ \cup {s},
                 !.draft[s] = [ThawRow(View(t, s)) EXCEPT
                   !.endsAt = UnfreezeRow(tx[t].row, tx[t].at).endsAt],
                 !.shut = @ \cup own]
  IN  /\ tx[t].step = "write" /\ tx[t].op = "unfreeze"
      /\ RowFree(t, s)
      /\ \A c \in own : FreezeFree(t, s, c.id)
      /\ Commit(t, done, <<>>, <<>>)

(* cancel: updateMany over the open freezes, then the row. *)
CloseOpen(t) ==
  LET s    == tx[t].on
      fs   == EpisodesWith(tx[t].shut, s)
      open == {i \in DOMAIN fs : IsOpen(fs[i])}
  IN  /\ tx[t].step = "close"
      /\ \A i \in open : FreezeFree(t, s, i)
      /\ tx' = [tx EXCEPT
           ![t].shut = @ \cup {[sub |-> s, id |-> i, at |-> tx[t].at] : i \in open},
           ![t].step = "write"]
      /\ UNCHANGED <<now, tables>>

WriteCancel(t) ==
  /\ tx[t].step = "write" /\ tx[t].op = "cancel"
  /\ CommitRow(t, CancelRow(View(t, tx[t].on)), <<>>, <<>>)

CountVisits(t) ==
  /\ tx[t].step = "count"
  /\ UnderDailyLimit(tx[t].row, visits[tx[t].on], tx[t].at)
  /\ Len(visits[tx[t].on]) < MaxVisits
  /\ tx' = [tx EXCEPT ![t].step = "write"]
  /\ UNCHANGED <<now, tables>>

(* The columns an admitted visit writes, with the values it has computed. *)
VisitWrites(row, read, t) ==
  LET entered == VisitRow(read, settings, t)
      graced  == IF OpensGrace(read)
                 THEN [row EXCEPT !.status = "IN_GRACE",
                                  !.graceUsedAt = entered.graceUsedAt,
                                  !.graceEndsAt = entered.graceEndsAt]
                 ELSE row
  IN  IF read.sessionsRemaining = Null THEN graced
      ELSE [graced EXCEPT !.sessionsRemaining = entered.sessionsRemaining]

(* A visit that writes no column of the plan takes no lock on it. *)
WriteVisit(t) ==
  LET s      == tx[t].on
      read   == tx[t].row
      writes == OpensGrace(read) \/ read.sessionsRemaining # Null
      notice == {n \in {<<"SUBSCRIPTION_IN_GRACE", s>>} : OpensGrace(read)}
      done   == [tx[t] EXCEPT
                   !.held = IF writes THEN @ \cup {s} ELSE @,
                   !.draft[s] = VisitWrites(View(t, s), read, tx[t].at),
                   !.notices = @ \cup notice]
  IN  /\ tx[t].step = "write" /\ tx[t].op = "visit"
      /\ writes => RowFree(t, s)
      /\ Commit(t, done, <<>>, <<tx[t].at>>)

-----------------------------------------------------------------------------

(* A sale only inserts a row. *)
CreateTx(s, m, p) == MayOverlap("create") /\ Create(s, m, p) /\ UNCHANGED tx

(* A refusal, the 5 s limit of an interactive transaction, a deadlock. *)
Rollback(t) ==
  /\ tx[t].step # "idle"
  /\ tx' = [tx EXCEPT ![t] = NoTransaction]
  /\ UNCHANGED <<now, tables>>

(* A transaction that is still open when its time is up is rolled back.     *)
TickTx ==
  /\ \A t \in Sessions : tx[t].step # "idle" => now < tx[t].at + TxTime
  /\ Tick /\ UNCHANGED tx

DaysFor(op) == IF op = "freeze" THEN FreezeRequests ELSE {0}

TxNext ==
  \/ TickTx
  \/ \E s \in Subs, m \in Members, p \in Plans : CreateTx(s, m, p)
  \/ \E t \in Sessions :
       \/ \E op \in Ops, s \in Subs : \E days \in DaysFor(op) :
            Begin(t, op, s, days)
       \/ SelectOverdue(t) \/ Thaw(t) \/ SelectDue(t) \/ Expire(t)
       \/ EndSettle(t)
       \/ Read(t)
       \/ WriteFreeze(t) \/ WriteUnfreeze(t)
       \/ CloseOpen(t) \/ WriteCancel(t)
       \/ CountVisits(t) \/ WriteVisit(t)
       \/ Rollback(t)

TxSpec == TxInit /\ [][TxNext]_txVars

-----------------------------------------------------------------------------
(* What survives every interleaving *)

Sold(s) == sub[s].status # "UNSOLD"

Term(s) == SoldPlanEndsAt(sub[s].plan, sub[s].startsAt)

(* Whatever the desk, the door and the sweep do to each other, a sold plan   *)
(* never ends after the term that was paid for with every freeze granted to  *)
(* it, and never before that term, but for the time a transaction takes:     *)
(* unfreeze reads the clock before it reads the plan, so that it may give    *)
(* back more of a freeze than the freeze has, if that was granted meanwhile. *)
(* Freeze and unfreeze, which write back an end date computed from a row     *)
(* read earlier, neither cut the plan short nor stretch it otherwise.        *)
FrozenDays(fs) == MapThenSumSet(LAMBDA i : fs[i].days, DOMAIN fs)

EndStaysInBounds ==
  \A s \in Subs : Sold(s) =>
    /\ Term(s) <= sub[s].endsAt + Len(freezes[s]) * TxTime
    /\ sub[s].endsAt <= AddDays(Term(s), FrozenDays(freezes[s]))

(* A plan is never EXPIRED without its inbox row: the sweep writes both in   *)
(* one transaction, and no other transaction takes the row's place.          *)
ExpiryIsAnnounced ==
  \A s \in Subs :
    sub[s].status = "EXPIRED" => <<"SUBSCRIPTION_EXPIRED", s>> \in inbox

-----------------------------------------------------------------------------
(* What the documentation promises and an interleaving breaks *)

(* "Cancel ... is not reversed by that sweep." *)
CancelIsNotReversed ==
  [][\A s \in Subs : sub[s].status = "CANCELLED" =>
       sub'[s].status = "CANCELLED"]_txVars

-----------------------------------------------------------------------------
(* With one transaction at a time, or with any number of overlapping         *)
(* sweeps and reads, the tables change as in SoldPlans.  Not so if a plan is *)
(* sold while a sweep that has written its notices has yet to commit: the    *)
(* next sweep announces the sale, as if this one had come before it.         *)

ImplementsSerial == Spec
=============================================================================
