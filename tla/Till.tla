-------------------------------- MODULE Till --------------------------------
(***************************************************************************)
(* Several desks that take payments at once.  POST /payments and the void  *)
(* are transactions at READ COMMITTED which lock none of the rows they     *)
(* read, so each of their statements is a step here and the other          *)
(* requests of FrontDesk run between them.                                 *)
(***************************************************************************)
EXTENDS FrontDesk

CONSTANTS Desks  \* the connections that payments run on

VARIABLES ringing  \* the payment or void each desk has under way

tillVars == <<deskVars, ringing>>

Idle == [op |-> "idle"]

TillInit == DeskInit /\ ringing = [d \in Desks |-> Idle]

IsFree(d) == ringing[d] = Idle

Rings(d, request) == ringing' = [ringing EXCEPT ![d] = request]

(* The sold plan and its member are read; an amount of Null takes what is due. *)
Ring(d, s, amount) ==
  /\ IsFree(d)
  /\ \E b \in Branches : IsServed(b)
  /\ sub[s].status \notin {"UNSOLD", "CANCELLED"}
  /\ memberStatus[sub[s].member] # "ARCHIVED"
  /\ Rings(d, [op |-> "pay", sub |-> s, amount |-> amount])
  /\ UNCHANGED deskVars

(* The payments so far are summed and the amount is held against the rest. *)
CountPaid(d) ==
  /\ ringing[d].op = "pay"
  /\ LET due   == Due(ringing[d].sub)
         takes == IF ringing[d].amount = Null THEN due ELSE ringing[d].amount
     IN  Rings(d, IF due > 0 /\ takes <= due
                  THEN [op |-> "collect", sub |-> ringing[d].sub, amount |-> takes]
                  ELSE Idle)
  /\ UNCHANGED deskVars

Collect(d) ==
  /\ ringing[d].op = "collect"
  /\ Len(payments) < MaxPayments
  /\ payments' = Append(payments, Collected(ringing[d].sub, ringing[d].amount))
  /\ Rings(d, Idle)
  /\ UNCHANGED <<books, scope, sales, gate, door>>

(* The status of a payment is read, and written whatever it is by then. *)
LoadPayment(d, i) ==
  /\ IsFree(d)
  /\ payments[i].status = "COLLECTED"
  /\ Rings(d, [op |-> "void", payment |-> i])
  /\ UNCHANGED deskVars

WriteVoid(d) ==
  /\ ringing[d].op = "void"
  /\ payments' = [payments EXCEPT ![ringing[d].payment].status = "VOIDED"]
  /\ Rings(d, Idle)
  /\ UNCHANGED <<books, scope, sales, gate, door>>

TillNext ==
  \/ Elsewhere /\ UNCHANGED ringing
  \/ \E d \in Desks :
       \/ \E s \in Subs, amount \in Amounts \cup {Null} : Ring(d, s, amount)
       \/ CountPaid(d) \/ Collect(d)
       \/ \E i \in DOMAIN payments : LoadPayment(d, i)
       \/ WriteVoid(d)

TillSpec == TillInit /\ [][TillNext]_tillVars
=============================================================================
