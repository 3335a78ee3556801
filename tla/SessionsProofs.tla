--------------------------- MODULE SessionsProofs ---------------------------
(***************************************************************************)
(* The theorems of Sessions.  SessionsInv is inductive.  It says of each   *)
(* call under way what it knows and holds (Fine): a version and a proof    *)
(* that fit each other and are not ahead of the row, a session drawn for   *)
(* it alone, an old session that is gone once it has passed the DEL.  Of   *)
(* the tables it says the same for the tokens that were handed out.        *)
(*                                                                         *)
(* Every step Grows: a token is never changed and its session does not     *)
(* come back, so what was true of the other calls stays true.  The order   *)
(* of the statements in Flow enters through Shape, which holds of every    *)
(* handler and of what is left of it after each statement.                 *)
(***************************************************************************)
EXTENDS Sessions, SequenceTheorems, TLAPS

-----------------------------------------------------------------------------
(* The handlers. *)

Steps == RedisSteps \cup RowSteps

(* Which statement comes right before, or right after, which. *)
Shape(todo) ==
  \A i \in 1 .. Len(todo) :
    /\ todo[i] = "read" => i < Len(todo) /\ todo[i + 1] = "write"
    /\ todo[i] = "list" => i = Len(todo) /\ (i > 1 => todo[i - 1] = "store")
    /\ todo[i] = "look" => i < Len(todo) /\ todo[i + 1] = "del"

LEMMA StepsAre ==
  Steps = {"look", "del", "unlist", "store", "list", "members", "drop",
           "read", "write", "bump"}
  BY DEF Steps, RedisSteps, RowSteps

LEMMA OpsAre ==
  Ops = {"login", "refresh", "logout", "revoke", "logoutAll", "changeKeep",
         "changeThis", "changeEvery"}
  BY DEF Ops, Flow

LEMMA PartsAreSteps ==
  /\ SignIn \in Seq(Steps) /\ Len(SignIn) = 2
  /\ SignIn[1] = "store" /\ SignIn[2] = "list"
  /\ RevokeOne \in Seq(Steps) /\ Len(RevokeOne) = 2
  /\ RevokeOne[1] = "del" /\ RevokeOne[2] = "unlist"
  /\ RevokeAll \in Seq(Steps) /\ Len(RevokeAll) = 2
  /\ RevokeAll[1] = "members" /\ RevokeAll[2] = "drop"
  /\ NewPassword \in Seq(Steps) /\ Len(NewPassword) = 2
  /\ NewPassword[1] = "read" /\ NewPassword[2] = "write"
  BY StepsAre DEF SignIn, RevokeOne, RevokeAll, NewPassword

LEMMA FirstIsHead ==
  ASSUME NEW S, NEW s \in Seq(S), s # <<>>
  PROVE  /\ Len(s) \in Nat \ {0}
         /\ Head(s) = s[1]
         /\ s[1] \in S
  BY EmptySeq, ElementOfSeq, LenProperties

LEMMA PartsAreShaped ==
  Shape(SignIn) /\ Shape(RevokeOne) /\ Shape(RevokeAll) /\ Shape(NewPassword)
  BY PartsAreSteps DEF Shape

(* Two parts in order, one after the other, are in order. *)
LEMMA ConcatIsShaped ==
  ASSUME NEW s \in Seq(Steps), NEW t \in Seq(Steps),
         Len(s) > 0, Len(t) > 0, Shape(s), Shape(t), t[1] # "list",
         \A i \in 1 .. Len(s) : s[i] # "list"
  PROVE  /\ s \o t \in Seq(Steps)
         /\ Len(s \o t) = Len(s) + Len(t)
         /\ (s \o t)[1] = s[1]
         /\ (s \o t)[Len(s \o t)] = t[Len(t)]
         /\ Shape(s \o t)
<1> DEFINE st == s \o t
<1>1. /\ st \in Seq(Steps) /\ Len(st) = Len(s) + Len(t)
      /\ Len(s) \in Nat /\ Len(t) \in Nat
      /\ \A i \in 1 .. Len(s) + Len(t) :
           st[i] = IF i <= Len(s) THEN s[i] ELSE t[i - Len(s)]
  BY ConcatProperties, LenProperties
<1> HIDE DEF st
<1>2. st[1] = s[1] /\ st[Len(st)] = t[Len(t)]
  BY <1>1
<1>3. ASSUME NEW i \in 1 .. Len(st)
      PROVE  /\ st[i] = "read" => i < Len(st) /\ st[i + 1] = "write"
             /\ st[i] = "list" => i = Len(st) /\ (i > 1 => st[i - 1] = "store")
             /\ st[i] = "look" => i < Len(st) /\ st[i + 1] = "del"
  <2>1. CASE i <= Len(s)
    <3>1. i \in 1 .. Len(s) /\ st[i] = s[i]
      BY <1>1, <2>1
    <3>2. i < Len(s) => i + 1 \in 1 .. Len(s) /\ st[i + 1] = s[i + 1]
      BY <1>1, <2>1
    <3> QED BY <1>1, <3>1, <3>2 DEF Shape
  <2>2. CASE i > Len(s)
    <3> DEFINE k == i - Len(s)
    <3>1. k \in 1 .. Len(t) /\ st[i] = t[k] /\ i = k + Len(s)
      BY <1>1, <2>2
    <3>2. k < Len(t) => i < Len(st) /\ st[i + 1] = t[k + 1]
      BY <1>1, <2>2
    <3>3. ASSUME k > 1 PROVE st[i - 1] = t[k - 1]
      <4>1. /\ i - 1 \in 1 .. Len(s) + Len(t) /\ ~(i - 1 <= Len(s))
            /\ (i - 1) - Len(s) = k - 1
        BY <1>1, <2>2, <3>3
      <4> QED
        BY <1>1, <4>1
    <3>4. k = Len(t) => i = Len(st)
      BY <1>1
    <3> HIDE DEF k
    <3>5. /\ t[k] = "read" => k < Len(t) /\ t[k + 1] = "write"
          /\ t[k] = "list" => k = Len(t) /\ (k > 1 => t[k - 1] = "store")
          /\ t[k] = "look" => k < Len(t) /\ t[k + 1] = "del"
      BY <3>1 DEF Shape
    <3>6. t[k] = "list" => k > 1
      BY <3>1
    <3> QED BY <3>1, <3>2, <3>3, <3>4, <3>5, <3>6
  <2> QED BY <1>1, <2>1, <2>2
<1>4. Shape(st)
  BY <1>3 DEF Shape
<1> QED BY <1>1, <1>2, <1>4 DEF st

LEMMA FlowsAre ==
  /\ Flow["login"]       = SignIn
  /\ Flow["refresh"]     = (<<"look">> \o RevokeOne) \o SignIn
  /\ Flow["logout"]      = RevokeOne
  /\ Flow["revoke"]      = RevokeOne
  /\ Flow["logoutAll"]   = RevokeAll \o <<"bump">>
  /\ Flow["changeKeep"]  = NewPassword \o SignIn
  /\ Flow["changeThis"]  = (NewPassword \o RevokeOne) \o SignIn
  /\ Flow["changeEvery"] = (NewPassword \o RevokeAll) \o SignIn
  BY DEF Flow, Rotate, SignOutEverywhere

(* What a call may still have to do. *)
Begun(op) ==
  /\ Flow[op] \in Seq(Steps) \ {<<>>}
  /\ Shape(Flow[op])
  /\ Flow[op][1] # "list"
  /\ op = "refresh" => Flow[op][1] = "look"
  /\ op = "logoutAll" => Flow[op][Len(Flow[op])] = "bump"

LEMMA FlowsAreShaped ==
  ASSUME NEW op \in Ops
  PROVE  Begun(op)
<1> DEFINE NoList(s) == \A i \in 1 .. Len(s) : s[i] # "list"
<1>a. /\ SignIn \in Seq(Steps) /\ Len(SignIn) = 2 /\ Len(SignIn) > 0 /\ Shape(SignIn)
      /\ SignIn[1] # "list"
  BY PartsAreSteps, PartsAreShaped
<1>b. /\ RevokeOne \in Seq(Steps) /\ Len(RevokeOne) = 2 /\ Len(RevokeOne) > 0 /\ Shape(RevokeOne)
      /\ RevokeOne[1] = "del" /\ RevokeOne[2] = "unlist"
  BY PartsAreSteps, PartsAreShaped
<1>c. /\ NewPassword \in Seq(Steps) /\ Len(NewPassword) = 2 /\ Len(NewPassword) > 0 /\ Shape(NewPassword)
      /\ NewPassword[1] = "read" /\ NoList(NewPassword)
  BY PartsAreSteps, PartsAreShaped
<1>d. /\ RevokeAll \in Seq(Steps) /\ Len(RevokeAll) = 2 /\ Len(RevokeAll) > 0 /\ Shape(RevokeAll)
      /\ RevokeAll[1] = "members" /\ RevokeAll[2] = "drop" /\ NoList(RevokeAll)
  BY PartsAreSteps, PartsAreShaped
<1>1. CASE op \in {"login", "logout", "revoke"}
  BY <1>1, <1>a, <1>b, FlowsAre, EmptySeq DEF Begun
<1>2. CASE op = "refresh"
  <2> DEFINE one == <<"look">>
             two == one \o RevokeOne
  <2>1. one \in Seq(Steps) /\ Len(one) = 1 /\ one[1] = "look"
    BY StepsAre
  <2>2. Flow[op] = two \o SignIn
    BY <1>2, FlowsAre
  <2> HIDE DEF one
  <2>3. /\ two \in Seq(Steps) /\ Len(two) = Len(one) + Len(RevokeOne)
        /\ \A i \in 1 .. Len(one) + Len(RevokeOne) : two[i] =
              IF i <= Len(one) THEN one[i] ELSE RevokeOne[i - Len(one)]
    BY <2>1, <1>b, ConcatProperties
  <2> HIDE DEF two
  <2>4. Len(two) = 3 /\ two[1] = "look" /\ two[2] = "del" /\ two[3] = "unlist"
    BY <2>1, <2>3, <1>b
  <2>5. Len(two) > 0 /\ Shape(two) /\ NoList(two)
    BY <2>4 DEF Shape
  <2>6. /\ two \o SignIn \in Seq(Steps) /\ Len(two \o SignIn) = Len(two) + Len(SignIn)
        /\ (two \o SignIn)[1] = two[1] /\ Shape(two \o SignIn)
    BY <2>3, <2>4, <2>5, <1>a, ConcatIsShaped, Zenon
  <2> QED BY <1>2, <1>a, <2>2, <2>4, <2>6, EmptySeq DEF Begun
<1>3. CASE op = "logoutAll"
  <2> DEFINE one == <<"bump">>
  <2>1. /\ one \in Seq(Steps) /\ Len(one) = 1 /\ Len(one) > 0 /\ Shape(one)
        /\ one[1] = "bump" /\ one[1] # "list"
    BY StepsAre DEF Shape
  <2>2. Flow[op] = RevokeAll \o one
    BY <1>3, FlowsAre
  <2> HIDE DEF one
  <2>3. /\ RevokeAll \o one \in Seq(Steps)
        /\ Len(RevokeAll \o one) = Len(RevokeAll) + Len(one)
        /\ (RevokeAll \o one)[1] = RevokeAll[1]
        /\ (RevokeAll \o one)[Len(RevokeAll \o one)] = one[Len(one)]
        /\ Shape(RevokeAll \o one)
    BY <2>1, <1>d, ConcatIsShaped, Zenon
  <2> QED BY <1>3, <1>d, <2>1, <2>2, <2>3, EmptySeq DEF Begun
<1>4. CASE op = "changeKeep"
  <2>1. Flow[op] = NewPassword \o SignIn
    BY <1>4, FlowsAre
  <2>2. /\ NewPassword \o SignIn \in Seq(Steps)
        /\ Len(NewPassword \o SignIn) = Len(NewPassword) + Len(SignIn)
        /\ (NewPassword \o SignIn)[1] = NewPassword[1]
        /\ Shape(NewPassword \o SignIn)
    BY <1>a, <1>c, ConcatIsShaped, Zenon
  <2> QED BY <1>4, <1>a, <1>c, <2>1, <2>2, EmptySeq DEF Begun
<1>5. CASE op \in {"changeThis", "changeEvery"}
  <2> DEFINE rev == IF op = "changeThis" THEN RevokeOne ELSE RevokeAll
             two == NewPassword \o rev
  <2>1. Flow[op] = two \o SignIn
    BY <1>5, FlowsAre
  <2>2. /\ rev \in Seq(Steps) /\ Len(rev) = 2 /\ Len(rev) > 0 /\ Shape(rev)
        /\ rev[1] # "list" /\ rev[2] # "list"
    BY <1>b, <1>d
  <2> HIDE DEF rev
  <2>3. /\ two \in Seq(Steps) /\ Len(two) = Len(NewPassword) + Len(rev)
        /\ two[1] = NewPassword[1] /\ Shape(two)
    BY <2>2, <1>c, ConcatIsShaped, Zenon
  <2>4. \A i \in 1 .. Len(NewPassword) + Len(rev) : two[i] =
          IF i <= Len(NewPassword) THEN NewPassword[i] ELSE rev[i - Len(NewPassword)]
    BY <2>2, <1>c, ConcatProperties
  <2> HIDE DEF two
  <2>5. Len(two) > 0 /\ NoList(two)
    BY <2>2, <2>3, <2>4, <1>c
  <2>6. /\ two \o SignIn \in Seq(Steps)
        /\ Len(two \o SignIn) = Len(two) + Len(SignIn)
        /\ (two \o SignIn)[1] = two[1] /\ Shape(two \o SignIn)
    BY <2>2, <2>3, <2>5, <1>a, <1>c, ConcatIsShaped, Zenon
  <2> QED BY <1>5, <1>a, <1>c, <2>1, <2>2, <2>3, <2>6, EmptySeq DEF Begun
<1> QED BY <1>1, <1>2, <1>3, <1>4, <1>5, OpsAre

(* What is left of a list that was in order is in order. *)
LEMMA TailIsShaped ==
  ASSUME NEW s \in Seq(Steps), Len(s) > 1, Shape(s)
  PROVE  /\ Tail(s) \in Seq(Steps) \ {<<>>}
         /\ Tail(s)[1] = s[2]
         /\ Len(Tail(s)) = Len(s) - 1
         /\ Tail(s)[Len(Tail(s))] = s[Len(s)]
         /\ Shape(Tail(s))
<1> DEFINE t == Tail(s)
<1>1. /\ Len(s) \in Nat /\ t \in Seq(Steps) /\ Len(t) = Len(s) - 1
      /\ \A i \in 1 .. Len(t) : t[i] = s[i + 1]
  BY HeadTailProperties, LenProperties, EmptySeq
<1> HIDE DEF t
<1>2. t # <<>> /\ t[1] = s[2] /\ t[Len(t)] = s[Len(s)]
  BY <1>1, EmptySeq
<1>3. ASSUME NEW i \in 1 .. Len(t)
      PROVE  /\ t[i] = "read" => i < Len(t) /\ t[i + 1] = "write"
             /\ t[i] = "list" => i = Len(t) /\ (i > 1 => t[i - 1] = "store")
             /\ t[i] = "look" => i < Len(t) /\ t[i + 1] = "del"
  <2> DEFINE k == i + 1
  <2>1. k \in 1 .. Len(s) /\ k > 1 /\ t[i] = s[k]
    BY <1>1
  <2>2. k < Len(s) => i < Len(t) /\ t[i + 1] = s[k + 1]
    BY <1>1
  <2>3. i > 1 => t[i - 1] = s[k - 1]
    BY <1>1
  <2>4. k = Len(s) => i = Len(t)
    BY <1>1
  <2> HIDE DEF k
  <2>5. /\ s[k] = "read" => k < Len(s) /\ s[k + 1] = "write"
        /\ s[k] = "list" => k = Len(s) /\ (k > 1 => s[k - 1] = "store")
        /\ s[k] = "look" => k < Len(s) /\ s[k + 1] = "del"
    BY <2>1 DEF Shape
  <2> QED BY <2>1, <2>2, <2>3, <2>4, <2>5
<1>4. Shape(t)
  BY <1>3 DEF Shape
<1> QED BY <1>1, <1>2, <1>4 DEF t

-----------------------------------------------------------------------------
(* The invariant. *)

(* The version and the proof of a token, or of a call that will sign one.   *)
Signed(x) == IF x.raced THEN x.proof < x.sv ELSE x.proof = x.sv

(* A call under way, beside tokens tk, sessions hs and epochs ep. *)
Fine(c, tk, hs, ep) ==
  /\ c \in Call
  /\ Shape(c.todo)
  /\ c.op = "logoutAll" => c.todo[Len(c.todo)] = "bump"
  /\ c.todo[1] = "list" => c.new # Null
  /\ c.proof <= ep[c.who] /\ c.sv <= ep[c.who]
  /\ c.todo[1] = "write" \/ Signed(c)
  /\ c.op = "refresh" => /\ c.sid # Null /\ tk[c.sid] # Null
                         /\ hs[c.sid] = Null \/ c.todo[1] \in {"look", "del"}
  /\ \A d \in c.missed : tk[d] # Null /\ tk[d].who = c.who
  /\ c.new # Null => tk[c.new] = Null

CallsAreFine == \A r \in Calls : call[r] = Idle \/ Fine(call[r], token, hash, epoch)

(* No two calls make the same session. *)
SessionsDiffer ==
  \A r, q \in Calls :
    r # q /\ call[r] # Idle /\ call[q] # Idle /\ call[r].new # Null =>
      call[r].new # call[q].new

VersionIsEpoch == \A s \in Staff : staff[s].sv = epoch[s]

TokensAreFine ==
  \A d \in Sid : token[d] # Null =>
    /\ Signed(token[d]) /\ token[d].sv <= epoch[token[d].who]
    /\ token[d].parent # Null => /\ token[token[d].parent] # Null
                                 /\ hash[token[d].parent] = Null

ListsAreFine ==
  \A s \in Staff : \A d \in listed[s] : token[d] # Null /\ token[d].who = s

ForgottenAreOld ==
  \A d \in forgotten : token[d] # Null /\ token[d].sv < epoch[token[d].who]

(* What TypeOK says of everything but the calls. *)
TablesTyped ==
  /\ gym \in {"ACTIVE", "SUSPENDED"}
  /\ staff \in [Staff -> [status : {"ACTIVE", "ARCHIVED"}, sv : Nat]]
  /\ hash \in [Sid -> Staff \cup {Null}]
  /\ listed \in [Staff -> SUBSET Sid]
  /\ token \in [Sid -> Token \cup {Null}]
  /\ redis \in {"up", "lost"}
  /\ window \in [n : Nat, ttl : Nat]
  /\ epoch \in [Staff -> Nat]
  /\ forgotten \subseteq Sid

CallsTyped == call \in [Calls -> Call \cup {Idle}]

SessionsInv ==
  /\ TablesTyped /\ CallsTyped
  /\ CallsAreFine /\ SessionsDiffer /\ VersionIsEpoch
  /\ TokensAreFine /\ ListsAreFine /\ ForgottenAreOld

LEMMA IdleIsNoCall == Idle \notin Call
  BY OpsAre DEF Idle, Call

LEMMA InitIsSound == Init => SessionsInv
<1> SUFFICES ASSUME Init PROVE SessionsInv
  OBVIOUS
<1>1. TablesTyped /\ CallsTyped
  BY SessionsAssumption DEF Init, TablesTyped, CallsTyped
<1>2. CallsAreFine /\ SessionsDiffer /\ VersionIsEpoch
  BY DEF Init, CallsAreFine, SessionsDiffer, VersionIsEpoch
<1>3. TokensAreFine /\ ListsAreFine /\ ForgottenAreOld
  BY DEF Init, TokensAreFine, ListsAreFine, ForgottenAreOld
<1> QED BY <1>1, <1>2, <1>3 DEF SessionsInv

-----------------------------------------------------------------------------
(* One call. *)

(* A call that has done nothing yet. *)
LEMMA FreshIsFine ==
  ASSUME NEW c \in Call, NEW tk, NEW hs, NEW ep \in [Staff -> Nat],
         c.todo = Flow[c.op], c.new = Null, c.missed = {}, Signed(c),
         c.sv <= ep[c.who],
         c.op = "refresh" => c.sid # Null /\ tk[c.sid] # Null
  PROVE  Fine(c, tk, hs, ep)
<1>1. Begun(c.op)
  BY FlowsAreShaped DEF Call
<1>2. c.proof <= ep[c.who]
  BY DEF Call, Signed
<1> QED BY <1>1, <1>2 DEF Fine, Begun

(* A call is not disturbed by what others do. *)
LEMMA FineStays ==
  ASSUME NEW c, NEW tk, NEW hs, NEW ep \in [Staff -> Nat],
         NEW tk2, NEW hs2, NEW ep2 \in [Staff -> Nat],
         Fine(c, tk, hs, ep),
         \A s \in Staff : ep[s] <= ep2[s],
         \A d \in Sid : tk[d] # Null =>
            tk2[d] = tk[d] /\ (hs[d] = Null => hs2[d] = Null),
         c.new # Null => tk2[c.new] = Null
  PROVE  Fine(c, tk2, hs2, ep2)
<1>1. /\ c \in Call /\ c.who \in Staff /\ c.sid \in Sid \cup {Null}
      /\ c.missed \subseteq Sid /\ c.proof \in Nat /\ c.sv \in Nat
  BY DEF Fine, Call
<1>2. c.proof <= ep2[c.who] /\ c.sv <= ep2[c.who]
  <2>1. c.proof <= ep[c.who] /\ c.sv <= ep[c.who]
    BY DEF Fine
  <2> QED BY <1>1, <2>1
<1>3. c.op = "refresh" => /\ c.sid # Null /\ tk2[c.sid] # Null
                          /\ hs2[c.sid] = Null \/ c.todo[1] \in {"look", "del"}
  BY <1>1 DEF Fine
<1>4. \A d \in c.missed : tk2[d] # Null /\ tk2[d].who = c.who
  BY <1>1 DEF Fine
<1>5. /\ c \in Call /\ Shape(c.todo)
      /\ c.op = "logoutAll" => c.todo[Len(c.todo)] = "bump"
      /\ c.todo[1] = "list" => c.new # Null
      /\ c.todo[1] = "write" \/ Signed(c)
  BY DEF Fine
<1> QED BY <1>2, <1>3, <1>4, <1>5 DEF Fine

(* What After leaves of a call whose list is in order. *)
Resumed(c, n) ==
  /\ n \in Call
  /\ n.op = c.op /\ n.who = c.who /\ n.sid = c.sid /\ n.sv = c.sv
  /\ n.proof = c.proof /\ n.raced = c.raced /\ n.new = c.new
  /\ n.read = c.read /\ n.missed = c.missed
  /\ Shape(n.todo)
  /\ c.op = "logoutAll" => n.todo[Len(n.todo)] = "bump"
  /\ c.todo[1] = "read" => n.todo[1] = "write"
  /\ n.todo[1] = "list" => c.todo[1] = "store"
  /\ c.todo[1] = "look" => n.todo[1] = "del"
  /\ c.todo[1] # "list"

LEMMA AfterResumes ==
  ASSUME NEW c \in Call, Shape(c.todo),
         c.op = "logoutAll" => c.todo[Len(c.todo)] = "bump"
  PROVE  /\ After(c) = Idle \/ Resumed(c, After(c))
         /\ Head(c.todo) = c.todo[1]
         /\ Len(c.todo) = 1 => After(c) = Idle
         /\ c.op = "logoutAll" /\ Len(c.todo) = 1 => c.todo[1] = "bump"
<1>1. c.todo \in Seq(Steps) /\ c.todo # <<>>
  BY DEF Call, Steps
<1>a. Len(c.todo) \in Nat \ {0} /\ Head(c.todo) = c.todo[1]
  BY <1>1, FirstIsHead
<1>2. /\ Len(c.todo) \in Nat \ {0} /\ Head(c.todo) = c.todo[1]
      /\ Len(c.todo) = 1 => After(c) = Idle
  BY <1>a DEF After
<1>3. CASE Len(c.todo) = 1
  BY <1>2, <1>3
<1>4. CASE Len(c.todo) # 1
  <2> DEFINE n == [c EXCEPT !.todo = Tail(@)]
  <2>1. After(c) = n
    BY <1>4 DEF After
  <2>2. Len(c.todo) > 1
    <3>1. \A k \in Nat \ {0} : k # 1 => k > 1
      OBVIOUS
    <3> QED BY <1>a, <1>4, <3>1
  <2>3. /\ Tail(c.todo) \in Seq(Steps) \ {<<>>}
        /\ Tail(c.todo)[1] = c.todo[2]
        /\ Tail(c.todo)[Len(Tail(c.todo))] = c.todo[Len(c.todo)]
        /\ Shape(Tail(c.todo))
    BY <1>1, <2>2, TailIsShaped
  <2>4. /\ n \in Call /\ n.todo = Tail(c.todo)
        /\ n.op = c.op /\ n.who = c.who /\ n.sid = c.sid /\ n.sv = c.sv
        /\ n.proof = c.proof /\ n.raced = c.raced /\ n.new = c.new
        /\ n.read = c.read /\ n.missed = c.missed
    BY <2>3 DEF Call, Steps
  <2> HIDE DEF n
  <2>5. /\ c.todo[1] = "read" => c.todo[2] = "write"
        /\ c.todo[2] = "list" => c.todo[1] = "store"
        /\ c.todo[1] = "look" => c.todo[2] = "del"
        /\ c.todo[1] # "list"
    BY <1>2, <2>2 DEF Shape
  <2>6. Resumed(c, n)
    BY <2>3, <2>4, <2>5 DEF Resumed
  <2> QED BY <1>2, <1>4, <2>1, <2>6
<1> QED BY <1>3, <1>4

-----------------------------------------------------------------------------
(* The calls and the tables, after a step. *)

(* What every step leaves alone: a token handed out is never changed, and a *)
(* session that is gone does not come back for it.                          *)
Grows ==
  /\ \A s \in Staff : epoch[s] <= epoch'[s]
  /\ \A d \in Sid : token[d] # Null =>
       token'[d] = token[d] /\ (hash[d] = Null => hash'[d] = Null)

CallsSound == CallsTyped /\ CallsAreFine /\ SessionsDiffer

TablesSound == VersionIsEpoch /\ TokensAreFine /\ ListsAreFine /\ ForgottenAreOld

LEMMA CallIsFine ==
  ASSUME NEW r \in Calls,
         SessionsInv,
         call[r] # Idle
  PROVE  /\ Fine(call[r], token, hash, epoch)
         /\ call[r] \in Call
         /\ call[r].who \in Staff /\ call[r].sid \in Sid \cup {Null}
         /\ call[r].new \in Sid \cup {Null} /\ call[r].read \subseteq Sid
         /\ Head(call[r].todo) = call[r].todo[1]
         /\ After(call[r]) = Idle \/ Resumed(call[r], After(call[r]))
         /\ call[r].todo[1] = "list" => After(call[r]) = Idle
         /\ call[r].op = "logoutAll" /\ Len(call[r].todo) = 1 =>
              call[r].todo[1] = "bump"
<1>1. Fine(call[r], token, hash, epoch)
  BY DEF SessionsInv, CallsAreFine
<1>2. /\ call[r] \in Call /\ Shape(call[r].todo)
      /\ call[r].op = "logoutAll" => call[r].todo[Len(call[r].todo)] = "bump"
  BY <1>1 DEF Fine
<1>3. /\ call[r].who \in Staff /\ call[r].sid \in Sid \cup {Null}
      /\ call[r].new \in Sid \cup {Null} /\ call[r].read \subseteq Sid
  BY <1>2 DEF Call
<1>4. /\ After(call[r]) = Idle \/ Resumed(call[r], After(call[r]))
      /\ Head(call[r].todo) = call[r].todo[1]
      /\ call[r].op = "logoutAll" /\ Len(call[r].todo) = 1 =>
              call[r].todo[1] = "bump"
  BY <1>2, AfterResumes
<1>5. call[r].todo[1] = "list" => After(call[r]) = Idle
  BY <1>4 DEF Resumed
<1> QED BY <1>1, <1>2, <1>3, <1>4, <1>5

(* What call[r] may become beside the others. *)
IdleOrFine(c, tk, hs, ep) == c = Idle \/ Fine(c, tk, hs, ep)

Apart(r, c, tk) ==
  \A q \in Calls : q # r /\ call[q] # Idle /\ call[q].new # Null =>
     tk[call[q].new] = Null /\ (c # Idle => c.new # call[q].new)

LEMMA CallMoves ==
  ASSUME NEW r \in Calls, NEW c,
         SessionsInv,
         TablesTyped',
         Grows,
         call' = [call EXCEPT ![r] = c],
         IdleOrFine(c, token', hash', epoch'),
         Apart(r, c, token')
  PROVE  CallsSound'
<1>1. c \in Call \cup {Idle}
  BY DEF Fine, IdleOrFine
<1>2. call \in [Calls -> Call \cup {Idle}]
  BY DEF SessionsInv, CallsTyped
<1>3. CallsTyped'
  BY <1>1, <1>2 DEF CallsTyped
<1>4. call'[r] = c /\ \A q \in Calls \ {r} : call'[q] = call[q]
  BY <1>2
<1>5. epoch \in [Staff -> Nat] /\ epoch' \in [Staff -> Nat]
  BY DEF SessionsInv, TablesTyped
<1>6. ASSUME NEW q \in Calls \ {r}, call[q] # Idle
      PROVE  Fine(call[q], token', hash', epoch')
  <2>1. Fine(call[q], token, hash, epoch)
    BY <1>6, CallIsFine
  <2>2. call[q].new # Null => token'[call[q].new] = Null
    BY <1>6 DEF Apart
  <2> QED BY <1>5, <2>1, <2>2, FineStays DEF Grows
<1>7. CallsAreFine'
  BY <1>4, <1>6 DEF CallsAreFine, IdleOrFine
<1>8. SessionsDiffer'
  <2> SUFFICES ASSUME NEW p \in Calls, NEW q \in Calls, p # q,
                      call'[p] # Idle, call'[q] # Idle, call'[p].new # Null
               PROVE  call'[p].new # call'[q].new
    BY DEF SessionsDiffer
  <2>1. CASE p = r
    BY <1>4, <2>1 DEF Apart
  <2>2. CASE q = r
    BY <1>4, <2>2 DEF Apart
  <2>3. CASE p # r /\ q # r
    BY <1>4, <2>3 DEF SessionsInv, SessionsDiffer
  <2> QED BY <2>1, <2>2, <2>3
<1> QED BY <1>3, <1>7, <1>8 DEF CallsSound

KeepsItsId(r, c) ==
  c # Idle => c.new = Null \/ (call[r] # Idle /\ c.new = call[r].new)

(* The calls when the step hands out no token and draws no id. *)
LEMMA CallGoesOn ==
  ASSUME NEW r \in Calls, NEW c,
         SessionsInv,
         TablesTyped',
         Grows,
         token' = token,
         call' = [call EXCEPT ![r] = c],
         IdleOrFine(c, token', hash', epoch'), KeepsItsId(r, c)
  PROVE  CallsSound'
<1>1. ASSUME NEW q \in Calls, q # r, call[q] # Idle, call[q].new # Null
      PROVE  /\ token'[call[q].new] = Null
             /\ c # Idle => c.new # call[q].new
  <2>1. Fine(call[q], token, hash, epoch)
    BY <1>1, CallIsFine
  <2>2. token'[call[q].new] = Null
    BY <1>1, <2>1 DEF Fine
  <2>3. call[r] # Idle => call[r].new # call[q].new
    BY <1>1 DEF SessionsInv, SessionsDiffer
  <2> QED BY <1>1, <2>2, <2>3 DEF KeepsItsId
<1>3. Apart(r, c, token')
  BY <1>1 DEF Apart
<1> QED BY <1>3, CallMoves

LEMMA CallsStand ==
  ASSUME SessionsInv, TablesTyped', Grows, token' = token, call' = call
  PROVE  CallsSound'
<1>1. epoch \in [Staff -> Nat] /\ epoch' \in [Staff -> Nat]
  BY DEF SessionsInv, TablesTyped
<1>2. ASSUME NEW q \in Calls, call[q] # Idle
      PROVE  Fine(call[q], token', hash', epoch')
  <2>1. Fine(call[q], token, hash, epoch)
    BY <1>2, CallIsFine
  <2>2. call[q].new # Null => token'[call[q].new] = Null
    BY <2>1 DEF Fine
  <2> QED BY <1>1, <2>1, <2>2, FineStays DEF Grows
<1>3. CallsAreFine'
  BY <1>2 DEF CallsAreFine
<1> QED BY <1>3 DEF CallsSound, SessionsInv, CallsTyped, SessionsDiffer

(* What a step adds to the forgotten sessions is already old. *)
ForgetsOld ==
  \A d \in forgotten' \ forgotten :
    token[d] # Null /\ token[d].sv < epoch'[token[d].who]

LEMMA TablesStand ==
  ASSUME SessionsInv, TablesTyped', Grows, VersionIsEpoch', token' = token,
         ForgetsOld, \A s \in Staff : listed'[s] \subseteq listed[s]
  PROVE  TablesSound'
<1>1. /\ epoch \in [Staff -> Nat] /\ epoch' \in [Staff -> Nat]
      /\ token \in [Sid -> Token \cup {Null}] /\ forgotten \subseteq Sid
      /\ listed \in [Staff -> SUBSET Sid]
  BY DEF SessionsInv, TablesTyped
<1>2. \A d \in Sid : token[d] # Null =>
        /\ token[d].who \in Staff /\ token[d].sv \in Nat
        /\ token[d].parent \in Sid \cup {Null}
        /\ epoch[token[d].who] <= epoch'[token[d].who]
  BY <1>1 DEF Token, Grows
<1>3. TokensAreFine'
  <2> SUFFICES ASSUME NEW d \in Sid, token[d] # Null
               PROVE  /\ Signed(token[d]) /\ token[d].sv <= epoch'[token[d].who]
                      /\ token[d].parent # Null =>
                           /\ token[token[d].parent] # Null
                           /\ hash'[token[d].parent] = Null
    BY DEF TokensAreFine, Signed
  <2>1. /\ Signed(token[d]) /\ token[d].sv <= epoch[token[d].who]
        /\ token[d].parent # Null => /\ token[token[d].parent] # Null
                                     /\ hash[token[d].parent] = Null
    BY DEF SessionsInv, TokensAreFine
  <2>2. token[d].sv <= epoch'[token[d].who]
    BY <1>1, <1>2, <2>1
  <2>3. token[d].parent # Null => hash'[token[d].parent] = Null
    BY <1>2, <2>1 DEF Grows
  <2> QED BY <2>1, <2>2, <2>3
<1>4. ListsAreFine'
  BY <1>1 DEF SessionsInv, ListsAreFine
<1>5. ForgottenAreOld'
  <2> SUFFICES ASSUME NEW d \in forgotten
               PROVE  token[d] # Null /\ token[d].sv < epoch'[token[d].who]
    BY DEF ForgottenAreOld, ForgetsOld
  <2>1. token[d] # Null /\ token[d].sv < epoch[token[d].who]
    BY DEF SessionsInv, ForgottenAreOld
  <2> QED BY <1>1, <1>2, <2>1
<1> QED BY <1>3, <1>4, <1>5 DEF TablesSound

-----------------------------------------------------------------------------
(* Requests that arrive. *)

LEMMA QuietTables ==
  ASSUME SessionsInv, UNCHANGED <<rows, sessions>>, redis' \in {"up", "lost"},
         window' \in [n : Nat, ttl : Nat]
  PROVE  TablesTyped' /\ Grows /\ TablesSound' /\ token' = token
<1>1. /\ gym' = gym /\ staff' = staff /\ epoch' = epoch /\ hash' = hash
      /\ listed' = listed /\ token' = token /\ forgotten' = forgotten
  BY DEF rows, sessions
<1>2. TablesTyped'
  BY <1>1 DEF SessionsInv, TablesTyped
<1>3. Grows
  BY <1>1 DEF SessionsInv, TablesTyped, Grows
<1>4. VersionIsEpoch'
  BY <1>1 DEF SessionsInv, VersionIsEpoch
<1>5. ForgetsOld /\ \A s \in Staff : listed'[s] \subseteq listed[s]
  BY <1>1 DEF ForgetsOld
<1> QED BY <1>1, <1>2, <1>3, <1>4, <1>5, TablesStand

LEMMA HitIsTyped ==
  ASSUME NEW w \in [n : Nat, ttl : Nat]
  PROVE  Hit(w) \in [n : Nat, ttl : Nat]
  BY SessionsAssumption DEF Hit

IsNewCall(c, op, s, d) ==
  /\ c \in Call /\ c.op = op /\ c.todo = Flow[op] /\ c.who = s
  /\ c.sid = d /\ c.new = Null /\ c.missed = {} /\ c.sv = 0
  /\ c.proof = 0 /\ c.raced = FALSE

LEMMA NewCallIs ==
  ASSUME NEW op \in Ops, NEW s \in Staff, NEW d \in Sid \cup {Null}
  PROVE  IsNewCall(NewCall(op, s, d), op, s, d)
<1>1. Flow[op] \in Seq(RedisSteps \cup RowSteps) \ {<<>>}
  BY FlowsAreShaped DEF Begun, Steps
<1> QED BY <1>1 DEF NewCall, Call, IsNewCall

(* A request that begins with a call of no proof. *)
LEMMA BeginIsSound ==
  ASSUME NEW r \in Calls, NEW c,
         SessionsInv,
         Begin(r, c),
         Fine(c, token, hash, epoch),
         c.new = Null
  PROVE  SessionsInv'
<1>1. /\ UNCHANGED <<rows, sessions>> /\ redis' = redis /\ window' = window
      /\ call' = [call EXCEPT ![r] = c]
  BY DEF Begin
<1>2. TablesTyped' /\ Grows /\ TablesSound' /\ token' = token
  BY <1>1, QuietTables DEF SessionsInv, TablesTyped
<1>3. IdleOrFine(c, token', hash', epoch') /\ KeepsItsId(r, c)
  BY <1>1 DEF rows, sessions, IdleOrFine, KeepsItsId
<1>4. CallsSound'
  BY <1>1, <1>2, <1>3, CallGoesOn
<1> QED BY <1>2, <1>4 DEF SessionsInv, CallsSound, TablesSound

LEMMA NewCallIsFine ==
  ASSUME NEW op \in Ops \ {"refresh"}, NEW s \in Staff, NEW d \in Sid
         \cup {Null},
         SessionsInv
  PROVE  /\ Fine(NewCall(op, s, d), token, hash, epoch)
         /\ NewCall(op, s, d).new = Null
<1> DEFINE c == NewCall(op, s, d)
<1>a. op \in Ops /\ op # "refresh"
  OBVIOUS
<1>b. IsNewCall(c, op, s, d)
  BY <1>a, NewCallIs
<1> HIDE DEF c
<1>1. /\ c \in Call /\ c.op = op /\ c.todo = Flow[op] /\ c.who = s
      /\ c.new = Null /\ c.missed = {} /\ c.sv = 0 /\ c.proof = 0
      /\ c.raced = FALSE
  BY <1>b DEF IsNewCall
<1>2. epoch \in [Staff -> Nat] /\ c.sv <= epoch[c.who]
  BY <1>1 DEF SessionsInv, TablesTyped
<1>3. Signed(c)
  BY <1>1 DEF Signed
<1>4. c.todo = Flow[c.op] /\ c.op # "refresh"
  BY <1>a, <1>1
<1>5. Fine(c, token, hash, epoch)
  BY <1>1, <1>2, <1>3, <1>4, FreshIsFine
<1> QED BY <1>1, <1>5 DEF c

(* Whose token it is. *)
LEMMA OpensIs ==
  ASSUME NEW d \in Sid,
         SessionsInv,
         Verifies(d)
  PROVE  /\ token[d] \in Token /\ token[d].who \in Staff
         /\ token[d].sv \in Nat /\ token[d].proof \in Nat
         /\ token[d].raced \in BOOLEAN
         /\ Signed(token[d])
         /\ staff[token[d].who].sv = epoch[token[d].who]
         /\ epoch[token[d].who] \in Nat
         /\ Opens(d) => token[d].sv = staff[token[d].who].sv
<1>1. token[d] \in Token /\ token[d] # Null
  BY DEF SessionsInv, TablesTyped, Verifies
<1>2. Signed(token[d])
  BY <1>1 DEF SessionsInv, TokensAreFine
<1>3. token[d].who \in Staff
  BY <1>1 DEF Token
<1>4. /\ staff[token[d].who].sv = epoch[token[d].who]
      /\ epoch[token[d].who] \in Nat
  BY <1>3 DEF SessionsInv, VersionIsEpoch, TablesTyped
<1> QED BY <1>1, <1>2, <1>3, <1>4 DEF Token, Opens, Current

LEMMA LoginIsSound ==
  ASSUME NEW r \in Calls, NEW s \in Staff,
         SessionsInv,
         Login(r, s)
  PROVE  SessionsInv'
<1>1. window' \in [n : Nat, ttl : Nat]
  BY HitIsTyped DEF SessionsInv, TablesTyped, Login, Counted
<1>2. UNCHANGED <<rows, sessions>> /\ redis' = redis
  BY DEF Login
<1>3. TablesTyped' /\ Grows /\ TablesSound' /\ token' = token
  BY <1>1, <1>2, QuietTables DEF SessionsInv, TablesTyped
<1> DEFINE n == NewCall("login", s, Null)
           c == [n EXCEPT !.sv = staff[s].sv, !.proof = epoch[s]]
<1>4. CASE call' = call
  <2>1. CallsSound'
    BY <1>3, <1>4, CallsStand
  <2> QED BY <1>3, <2>1 DEF SessionsInv, CallsSound, TablesSound
<1>5. CASE call' = [call EXCEPT ![r] = c]
  <2>1. staff[s].sv = epoch[s] /\ epoch[s] \in Nat /\ epoch \in [Staff -> Nat]
    BY DEF SessionsInv, VersionIsEpoch, TablesTyped
  <2>2. "login" \in Ops /\ Null \in Sid \cup {Null}
    BY OpsAre
  <2>b. IsNewCall(n, "login", s, Null)
    BY <2>2, NewCallIs
  <2> HIDE DEF n
  <2>a. /\ n \in Call /\ n.op = "login" /\ n.todo = Flow["login"] /\ n.who = s
        /\ n.new = Null /\ n.missed = {} /\ n.raced = FALSE
    BY <2>b DEF IsNewCall
  <2>3. /\ c \in Call /\ c.op = "login" /\ c.todo = Flow["login"] /\ c.who = s
        /\ c.new = Null /\ c.missed = {} /\ c.sv = epoch[s]
        /\ c.proof = epoch[s] /\ c.raced = FALSE
    BY <2>1, <2>a DEF Call
  <2> HIDE DEF c
  <2>4. c.todo = Flow[c.op] /\ c.op # "refresh" /\ c.sv <= epoch[c.who]
    BY <2>1, <2>3
  <2>5. Signed(c)
    BY <2>3 DEF Signed
  <2>6. Fine(c, token, hash, epoch)
    BY <2>1, <2>3, <2>4, <2>5, FreshIsFine
  <2>7. IdleOrFine(c, token', hash', epoch') /\ KeepsItsId(r, c)
    BY <1>2, <2>3, <2>6 DEF rows, sessions, IdleOrFine, KeepsItsId
  <2>8. CallsSound'
    BY <1>3, <1>5, <2>7, CallGoesOn
  <2> QED BY <1>3, <2>8 DEF SessionsInv, CallsSound, TablesSound
<1> QED BY <1>4, <1>5 DEF Login

LEMMA RefreshIsSound ==
  ASSUME NEW r \in Calls, NEW d \in Sid,
         SessionsInv,
         Refresh(r, d)
  PROVE  SessionsInv'
<1> DEFINE t == token[d]
           n == NewCall("refresh", t.who, d)
           c == [n EXCEPT
                  !.sv = staff[t.who].sv, !.proof = t.proof, !.raced = t.raced]
<1>1. Opens(d) /\ Verifies(d) /\ Begin(r, c)
  BY DEF Refresh, Opens
<1>2. /\ t \in Token /\ t.who \in Staff /\ t.sv \in Nat /\ t.proof \in Nat
      /\ t.raced \in BOOLEAN /\ Signed(t) /\ staff[t.who].sv = epoch[t.who]
      /\ epoch[t.who] \in Nat /\ t.sv = staff[t.who].sv
  BY <1>1, OpensIs
<1>3. "refresh" \in Ops /\ d \in Sid \cup {Null}
  BY OpsAre
<1>b. IsNewCall(n, "refresh", t.who, d)
  BY <1>2, <1>3, NewCallIs
<1> HIDE DEF n
<1>a. /\ n \in Call /\ n.op = "refresh" /\ n.todo = Flow["refresh"]
      /\ n.who = t.who /\ n.sid = d /\ n.new = Null /\ n.missed = {}
  BY <1>b DEF IsNewCall
<1>4. /\ c \in Call /\ c.op = "refresh" /\ c.todo = Flow["refresh"]
      /\ c.who = t.who /\ c.sid = d /\ c.new = Null /\ c.missed = {}
      /\ c.sv = t.sv /\ c.proof = t.proof /\ c.raced = t.raced
      /\ c.sv <= epoch[c.who]
  <2> HIDE DEF t
  <2>1. /\ c \in Call /\ c.op = "refresh" /\ c.todo = Flow["refresh"]
        /\ c.who = t.who /\ c.sid = d /\ c.new = Null /\ c.missed = {}
        /\ c.sv = staff[t.who].sv /\ c.proof = t.proof /\ c.raced = t.raced
    BY <1>2, <1>a DEF Call
  <2> HIDE DEF c
  <2>2. c.sv <= epoch[c.who]
    BY <1>2, <2>1
  <2> QED BY <1>2, <2>1, <2>2
<1>5. d # Null /\ t # Null /\ epoch \in [Staff -> Nat]
  BY <1>1, SessionsAssumption DEF Verifies, SessionsInv, TablesTyped
<1> HIDE DEF c
<1>6. Signed(c)
  BY <1>2, <1>4 DEF Signed
<1>7. c.todo = Flow[c.op] /\ c.sid # Null /\ token[c.sid] # Null
  BY <1>4, <1>5
<1>8. Fine(c, token, hash, epoch)
  BY <1>4, <1>5, <1>6, <1>7, FreshIsFine
<1> QED BY <1>1, <1>4, <1>8, BeginIsSound

LEMMA OtherArrivalsAreSound ==
  ASSUME NEW r \in Calls, NEW d \in Sid, NEW target \in Sid,
         SessionsInv,
         \/ Logout(r, d) \/ LogoutAll(r, d) \/ ChangePassword(r, d)
         \/ RevokeSession(r, d, target)
  PROVE  SessionsInv'
<1>1. Verifies(d) /\ token[d].who \in Staff
  BY OpensIs DEF Logout, LogoutAll, ChangePassword, RevokeSession, Opens
<1>2. \E op \in Ops \ {"refresh"}, e \in Sid \cup {Null} :
         Begin(r, NewCall(op, token[d].who, e))
  BY OpsAre DEF Logout, LogoutAll, ChangePassword, RevokeSession
<1>3. PICK op \in Ops \ {"refresh"}, e \in Sid \cup {Null} :
         Begin(r, NewCall(op, token[d].who, e))
  BY <1>2
<1> QED BY <1>1, <1>3, NewCallIsFine, BeginIsSound

-----------------------------------------------------------------------------
(* The statements of a call. *)

(* A call that has done its first statement and may go on to the next. *)
Ready(c, tk, hs, ep) ==
  /\ c \in Call
  /\ Shape(c.todo)
  /\ c.op = "logoutAll" => c.todo[Len(c.todo)] = "bump"
  /\ c.todo[1] = "store" => c.new # Null
  /\ c.proof <= ep[c.who] /\ c.sv <= ep[c.who]
  /\ c.todo[1] = "read" \/ Signed(c)
  /\ c.op = "refresh" => /\ c.sid # Null /\ tk[c.sid] # Null
                         /\ hs[c.sid] = Null \/ c.todo[1] = "look"
  /\ \A d \in c.missed : tk[d] # Null /\ tk[d].who = c.who
  /\ c.new # Null => tk[c.new] = Null

LEMMA ReadyGoesOn ==
  ASSUME NEW c, NEW tk, NEW hs, NEW ep, Ready(c, tk, hs, ep)
  PROVE  /\ IdleOrFine(After(c), tk, hs, ep)
         /\ After(c) # Idle => After(c).new = c.new
<1>1. /\ c \in Call /\ Shape(c.todo)
      /\ c.op = "logoutAll" => c.todo[Len(c.todo)] = "bump"
  BY DEF Ready
<1>2. After(c) = Idle \/ Resumed(c, After(c))
  BY <1>1, AfterResumes
<1>3. ASSUME NEW n, Resumed(c, n)
      PROVE  Fine(n, tk, hs, ep) /\ n.new = c.new
  <2>1. /\ n \in Call /\ Shape(n.todo) /\ n.new = c.new
        /\ n.op = "logoutAll" => n.todo[Len(n.todo)] = "bump"
        /\ n.todo[1] = "list" => n.new # Null
    BY <1>3 DEF Ready, Resumed
  <2>2. n.proof <= ep[n.who] /\ n.sv <= ep[n.who]
    BY <1>3 DEF Ready, Resumed
  <2>3. n.todo[1] = "write" \/ Signed(n)
    BY <1>3 DEF Ready, Resumed, Signed
  <2>4. n.op = "refresh" => /\ n.sid # Null /\ tk[n.sid] # Null
                            /\ hs[n.sid] = Null \/ n.todo[1] \in {"look", "del"}
    BY <1>3 DEF Ready, Resumed
  <2>5. /\ \A d \in n.missed : tk[d] # Null /\ tk[d].who = n.who
        /\ n.new # Null => tk[n.new] = Null
    BY <1>3 DEF Ready, Resumed
  <2> QED BY <2>1, <2>2, <2>3, <2>4, <2>5 DEF Fine
<1> QED BY <1>2, <1>3 DEF IdleOrFine

LEMMA FineIsReady ==
  ASSUME NEW c, NEW tk, NEW hs, NEW ep, Fine(c, tk, hs, ep),
         c.todo[1] \notin {"store", "write", "del"}
  PROVE  Ready(c, tk, hs, ep)
  BY DEF Fine, Ready

LEMMA AtIs ==
  ASSUME NEW r \in Calls, NEW step, SessionsInv, At(r, step)
  PROVE  /\ call[r] # Idle /\ call[r].todo[1] = step
         /\ Fine(call[r], token, hash, epoch)
  BY CallIsFine DEF At

(* The call as it finds the tables after a step that hands out no token. *)
LEMMA FineLater ==
  ASSUME NEW r \in Calls, SessionsInv, TablesTyped', Grows, token' = token,
         call[r] # Idle
  PROVE  Fine(call[r], token', hash', epoch')
<1>1. epoch \in [Staff -> Nat] /\ epoch' \in [Staff -> Nat]
  BY DEF SessionsInv, TablesTyped
<1>2. Fine(call[r], token, hash, epoch)
  BY CallIsFine
<1>3. call[r].new # Null => token'[call[r].new] = Null
  BY <1>2 DEF Fine
<1> QED BY <1>1, <1>2, <1>3, FineStays DEF Grows

(* What a call goes on as: c is call[r] with what the statement told it.    *)
LEMMA GoingOn ==
  ASSUME NEW r \in Calls, NEW c,
         SessionsInv, TablesTyped', Grows, token' = token,
         GoesOn(r, c), call[r] # Idle, Ready(c, token', hash', epoch'),
         c.new = call[r].new
  PROVE  CallsSound'
<1>1. /\ IdleOrFine(After(c), token', hash', epoch')
      /\ After(c) # Idle => After(c).new = c.new
  BY ReadyGoesOn
<1>2. KeepsItsId(r, After(c))
  BY <1>1 DEF KeepsItsId
<1>3. call' = [call EXCEPT ![r] = After(c)]
  BY DEF GoesOn
<1> QED BY <1>1, <1>2, <1>3, CallGoesOn

LEMMA GivingUp ==
  ASSUME NEW r \in Calls,
         SessionsInv, TablesTyped', Grows, token' = token, GivesUp(r)
  PROVE  CallsSound'
<1>1. IdleOrFine(Idle, token', hash', epoch') /\ KeepsItsId(r, Idle)
  BY DEF IdleOrFine, KeepsItsId
<1> QED BY <1>1, CallGoesOn DEF GivesUp

LEMMA SoundIs == SessionsInv' <=> TablesTyped' /\ CallsSound' /\ TablesSound'
  BY DEF SessionsInv, CallsSound, TablesSound

LEMMA LookIsSound ==
  ASSUME NEW r \in Calls, SessionsInv, Look(r)
  PROVE  SessionsInv'
<1>1. /\ At(r, "look") /\ UNCHANGED <<rows, sessions>>
      /\ redis' = redis /\ window' = window
  BY DEF Look
<1>2. TablesTyped' /\ Grows /\ TablesSound' /\ token' = token
  BY <1>1, QuietTables DEF SessionsInv, TablesTyped
<1>3. call[r] # Idle /\ call[r].todo[1] = "look"
  BY <1>1, AtIs
<1>4. Ready(call[r], token', hash', epoch')
  BY <1>2, <1>3, FineLater, FineIsReady
<1>5. CASE GoesOn(r, call[r])
  <2>1. CallsSound'
    BY <1>2, <1>3, <1>4, <1>5, GoingOn
  <2> QED BY <1>2, <2>1, SoundIs
<1>6. CASE GivesUp(r)
  <2>1. CallsSound'
    BY <1>2, <1>6, GivingUp
  <2> QED BY <1>2, <2>1, SoundIs
<1> QED BY <1>5, <1>6 DEF Look

LEMMA MembersIsSound ==
  ASSUME NEW r \in Calls, SessionsInv, Members(r)
  PROVE  SessionsInv'
<1> DEFINE c == call[r]
           n == [c EXCEPT !.read = listed[c.who]]
<1>1. /\ At(r, "members") /\ UNCHANGED <<rows, sessions>> /\ GoesOn(r, n)
      /\ redis' = redis /\ window' = window
  BY DEF Members
<1>2. TablesTyped' /\ Grows /\ TablesSound' /\ token' = token
  BY <1>1, QuietTables DEF SessionsInv, TablesTyped
<1>3. c # Idle /\ c.todo[1] = "members"
  BY <1>1, AtIs
<1>4. Ready(c, token', hash', epoch')
  BY <1>2, <1>3, FineLater, FineIsReady
<1>5. /\ n \in Call /\ n.todo = c.todo /\ n.op = c.op /\ n.new = c.new
      /\ n.who = c.who /\ n.sid = c.sid /\ n.sv = c.sv /\ n.proof = c.proof
      /\ n.raced = c.raced /\ n.missed = c.missed
  <2>1. c \in Call /\ c.who \in Staff /\ listed[c.who] \subseteq Sid
    BY <1>3, CallIsFine DEF SessionsInv, TablesTyped
  <2> HIDE DEF c
  <2> QED BY <2>1 DEF Call
<1> HIDE DEF n
<1>6. Ready(n, token', hash', epoch')
  BY <1>4, <1>5 DEF Ready, Signed
<1>7. CallsSound'
  BY <1>1, <1>2, <1>3, <1>5, <1>6, GoingOn
<1> QED BY <1>2, <1>7, SoundIs

LEMMA ReadIsSound ==
  ASSUME NEW r \in Calls, SessionsInv, Read(r)
  PROVE  SessionsInv'
<1> DEFINE c == call[r]
           n == [c EXCEPT !.proof = epoch[c.who]]
<1>1. /\ At(r, "read") /\ UNCHANGED <<rows, sessions>> /\ GoesOn(r, n)
      /\ redis' = redis /\ window' = window
  BY DEF Read
<1>2. TablesTyped' /\ Grows /\ TablesSound' /\ token' = token
  BY <1>1, QuietTables DEF SessionsInv, TablesTyped
<1>3. c # Idle /\ c.todo[1] = "read"
  BY <1>1, AtIs
<1>4. Ready(c, token', hash', epoch')
  BY <1>2, <1>3, FineLater, FineIsReady
<1>5. /\ n \in Call /\ n.todo = c.todo /\ n.op = c.op /\ n.new = c.new
      /\ n.who = c.who /\ n.sid = c.sid /\ n.sv = c.sv /\ n.missed = c.missed
      /\ n.proof <= epoch'[n.who]
  <2>1. /\ c \in Call /\ c.who \in Staff /\ epoch[c.who] \in Nat
        /\ epoch' = epoch
    BY <1>1, <1>3, CallIsFine DEF SessionsInv, TablesTyped, rows
  <2> HIDE DEF c
  <2> QED BY <2>1 DEF Call
<1> HIDE DEF n
<1>6. Ready(n, token', hash', epoch')
  BY <1>3, <1>4, <1>5 DEF Ready
<1>7. CallsSound'
  BY <1>1, <1>2, <1>3, <1>5, <1>6, GoingOn
<1> QED BY <1>2, <1>7, SoundIs

LEMMA RedisThrowsIsSound ==
  ASSUME NEW r \in Calls, SessionsInv, RedisThrows(r)
  PROVE  SessionsInv'
<1>1. TablesTyped' /\ Grows /\ TablesSound' /\ token' = token
  BY QuietTables DEF SessionsInv, TablesTyped, RedisThrows
<1>2. CallsSound'
  BY <1>1, GivingUp DEF RedisThrows
<1> QED BY <1>1, <1>2, SoundIs

LEMMA DelIsSound ==
  ASSUME NEW r \in Calls, SessionsInv, Del(r)
  PROVE  SessionsInv'
<1> DEFINE c == call[r]
           n == [c EXCEPT !.todo = <<"del">>]
<1>1. /\ At(r, "del") /\ UNCHANGED <<rows, listed, token, forgotten>>
      /\ redis' = redis /\ window' = window
      /\ hash' = hash \/ hash' = [hash EXCEPT ![c.sid] = Null]
  BY DEF Del
<1>2. hash \in [Sid -> Staff \cup {Null}]
  BY DEF SessionsInv, TablesTyped
<1>3. \A d \in Sid : hash'[d] = hash[d] \/ hash'[d] = Null
  BY <1>1, <1>2
<1>4. hash' \in [Sid -> Staff \cup {Null}]
  BY <1>1, <1>2
<1>5. TablesTyped' /\ VersionIsEpoch' /\ token' = token
  BY <1>1, <1>4 DEF SessionsInv, TablesTyped, VersionIsEpoch, rows
<1>6. Grows
  BY <1>1, <1>3 DEF Grows, rows, SessionsInv, TablesTyped
<1>7. ForgetsOld /\ \A s \in Staff : listed'[s] \subseteq listed[s]
  BY <1>1 DEF ForgetsOld
<1>8. TablesSound'
  BY <1>5, <1>6, <1>7, TablesStand
<1>9. c # Idle /\ c.todo[1] = "del"
  BY <1>1, AtIs
<1>10. CASE hash' = [hash EXCEPT ![c.sid] = Null] /\ GoesOn(r, c)
  <2>1. Fine(c, token', hash', epoch')
    BY <1>5, <1>6, <1>9, FineLater
  <2>2. c.sid # Null => hash'[c.sid] = Null
    BY <1>2, <1>9, <1>10, CallIsFine
  <2>3. Ready(c, token', hash', epoch')
    BY <1>9, <2>1, <2>2 DEF Fine, Ready
  <2>4. CallsSound'
    BY <1>5, <1>6, <1>9, <1>10, <2>3, GoingOn
  <2> QED BY <1>5, <1>8, <2>4, SoundIs
<1>11. CASE GoesOn(r, n)
  <2>1. n.todo = <<"del">>
    BY <1>9, CallIsFine DEF Call
  <2>2. After(n) = Idle
    BY <2>1 DEF After
  <2>3. GivesUp(r)
    BY <1>11, <2>2 DEF GoesOn, GivesUp
  <2>4. CallsSound'
    BY <1>5, <1>6, <2>3, GivingUp
  <2> QED BY <1>5, <1>8, <2>4, SoundIs
<1> QED BY <1>10, <1>11 DEF Del

LEMMA UnlistIsSound ==
  ASSUME NEW r \in Calls, SessionsInv, Unlist(r)
  PROVE  SessionsInv'
<1> DEFINE c == call[r]
<1>1. /\ At(r, "unlist") /\ UNCHANGED <<rows, hash, token, forgotten>>
      /\ redis' = redis /\ window' = window /\ GoesOn(r, c)
      /\ listed' = [listed EXCEPT ![c.who] = @ \ {c.sid}]
  BY DEF Unlist
<1>2. c # Idle /\ c.todo[1] = "unlist" /\ c.who \in Staff
  BY <1>1, AtIs, CallIsFine
<1>3. listed \in [Staff -> SUBSET Sid]
  BY DEF SessionsInv, TablesTyped
<1>4. /\ listed' \in [Staff -> SUBSET Sid]
      /\ \A s \in Staff : listed'[s] \subseteq listed[s]
  BY <1>1, <1>2, <1>3
<1>5. TablesTyped' /\ VersionIsEpoch' /\ token' = token
  BY <1>1, <1>4 DEF SessionsInv, TablesTyped, VersionIsEpoch, rows
<1>6. Grows /\ ForgetsOld
  BY <1>1 DEF Grows, rows, SessionsInv, TablesTyped, ForgetsOld
<1>7. TablesSound'
  BY <1>4, <1>5, <1>6, TablesStand
<1>8. Ready(c, token', hash', epoch')
  BY <1>2, <1>5, <1>6, FineLater, FineIsReady
<1>9. CallsSound'
  BY <1>1, <1>2, <1>5, <1>6, <1>8, GoingOn
<1> QED BY <1>5, <1>7, <1>9, SoundIs

LEMMA StoreIsSound ==
  ASSUME NEW r \in Calls, SessionsInv, Store(r)
  PROVE  SessionsInv'
<1> DEFINE c == call[r]
<1>1. /\ At(r, "store") /\ UNCHANGED <<rows, listed, token, forgotten>>
      /\ redis' = redis /\ window' = window
      /\ \E d \in Sid : /\ Unused(d) /\ hash' = [hash EXCEPT ![d] = c.who]
                       /\ GoesOn(r, [c EXCEPT !.new = d])
  BY DEF Store
<1>2. PICK d \in Sid : /\ Unused(d) /\ hash' = [hash EXCEPT ![d] = c.who]
                       /\ GoesOn(r, [c EXCEPT !.new = d])
  BY <1>1
<1> DEFINE n == [c EXCEPT !.new = d]
<1>3. c # Idle /\ c.todo[1] = "store" /\ c.who \in Staff
  BY <1>1, AtIs, CallIsFine
<1>4. hash \in [Sid -> Staff \cup {Null}]
  BY DEF SessionsInv, TablesTyped
<1>5. /\ hash' \in [Sid -> Staff \cup {Null}]
      /\ \A e \in Sid \ {d} : hash'[e] = hash[e]
  BY <1>2, <1>3, <1>4
<1>6. TablesTyped' /\ VersionIsEpoch' /\ token' = token
  BY <1>1, <1>5 DEF SessionsInv, TablesTyped, VersionIsEpoch, rows
<1>7. Grows
  BY <1>1, <1>2, <1>5 DEF Grows, rows, SessionsInv, TablesTyped, Unused
<1>8. ForgetsOld /\ \A s \in Staff : listed'[s] \subseteq listed[s]
  BY <1>1 DEF ForgetsOld
<1>9. TablesSound'
  BY <1>6, <1>7, <1>8, TablesStand
<1>10. Fine(c, token', hash', epoch')
  BY <1>3, <1>6, <1>7, FineLater
<1>11. d # Null /\ token'[d] = Null
  BY <1>1, <1>2, SessionsAssumption DEF Unused
<1>12. /\ n \in Call /\ n.todo = c.todo /\ n.op = c.op /\ n.new = d
       /\ n.who = c.who /\ n.sid = c.sid /\ n.sv = c.sv /\ n.proof = c.proof
       /\ n.raced = c.raced /\ n.missed = c.missed
  <2>1. c \in Call
    BY <1>3, CallIsFine
  <2> HIDE DEF c
  <2> QED BY <2>1 DEF Call
<1>13. GoesOn(r, n)
  BY <1>2
<1> HIDE DEF n
<1>14. Ready(n, token', hash', epoch')
  BY <1>3, <1>10, <1>11, <1>12 DEF Ready, Fine, Signed
<1>15. /\ IdleOrFine(After(n), token', hash', epoch')
       /\ After(n) # Idle => After(n).new = d
  BY <1>12, <1>14, ReadyGoesOn
<1>16. Apart(r, After(n), token')
  <2> SUFFICES ASSUME NEW q \in Calls, q # r, call[q] # Idle, call[q].new # Null
               PROVE  /\ token'[call[q].new] = Null
                      /\ After(n) # Idle => After(n).new # call[q].new
    BY DEF Apart
  <2>1. token[call[q].new] = Null
    BY CallIsFine DEF Fine
  <2>2. call[q].new # d
    BY <1>2 DEF Unused
  <2> QED BY <1>6, <1>15, <2>1, <2>2
<1>17. call' = [call EXCEPT ![r] = After(n)]
  BY <1>13 DEF GoesOn
<1>18. CallsSound'
  BY <1>6, <1>7, <1>15, <1>16, <1>17, CallMoves
<1> QED BY <1>6, <1>9, <1>18, SoundIs

LEMMA ListIsSound ==
  ASSUME NEW r \in Calls, SessionsInv, List(r)
  PROVE  SessionsInv'
<1> DEFINE c == call[r]
           t == [who |-> c.who, sv |-> c.sv, proof |-> c.proof,
                 raced |-> c.raced,
                 parent |-> IF c.op = "refresh" THEN c.sid ELSE Null]
<1>1. /\ At(r, "list") /\ UNCHANGED <<rows, hash, forgotten>>
      /\ redis' = redis /\ window' = window /\ GoesOn(r, c)
      /\ listed' = [listed EXCEPT ![c.who] = @ \cup {c.new}]
      /\ token' = [token EXCEPT ![c.new] = t]
  BY DEF List
<1>2. c # Idle /\ c.todo[1] = "list" /\ Fine(c, token, hash, epoch) /\ c \in Call
  BY <1>1, AtIs, CallIsFine
<1>3. /\ c.new \in Sid /\ token[c.new] = Null /\ Signed(c)
      /\ c.sv <= epoch[c.who] /\ c.who \in Staff
      /\ c.op = "refresh" => c.sid \in Sid /\ token[c.sid] # Null /\ hash[c.sid] = Null
  BY <1>2 DEF Fine, Call
<1>4. t \in Token
  BY <1>2 DEF Call, Token
<1>5. t # Null
  BY <1>4, NoTokenIsNone
<1>6. /\ t.who = c.who /\ t.sv = c.sv /\ Signed(t)
      /\ t.parent # Null => c.op = "refresh" /\ t.parent = c.sid
  BY <1>3 DEF Signed
<1> HIDE DEF t
<1>7. /\ token \in [Sid -> Token \cup {Null}] /\ listed \in [Staff -> SUBSET Sid]
      /\ epoch \in [Staff -> Nat]
  BY DEF SessionsInv, TablesTyped
<1>8. /\ token' \in [Sid -> Token \cup {Null}] /\ token'[c.new] = t
      /\ \A d \in Sid \ {c.new} : token'[d] = token[d]
  BY <1>1, <1>3, <1>4, <1>7
<1>9. /\ listed' \in [Staff -> SUBSET Sid]
      /\ listed'[c.who] = listed[c.who] \cup {c.new}
      /\ \A s \in Staff \ {c.who} : listed'[s] = listed[s]
  BY <1>1, <1>3, <1>7
<1>10. hash' = hash /\ epoch' = epoch /\ staff' = staff /\ forgotten' = forgotten
  BY <1>1 DEF rows
<1>11. TablesTyped' /\ VersionIsEpoch'
  BY <1>1, <1>8, <1>9 DEF SessionsInv, TablesTyped, VersionIsEpoch, rows
<1>12. \A d \in Sid : token[d] # Null => token'[d] = token[d]
  BY <1>3, <1>8
<1>13. Grows
  BY <1>7, <1>10, <1>12 DEF Grows
<1>14. TokensAreFine'
  <2> SUFFICES ASSUME NEW d \in Sid, token'[d] # Null
               PROVE  /\ Signed(token'[d]) /\ token'[d].sv <= epoch[token'[d].who]
                      /\ token'[d].parent # Null =>
                           /\ token'[token'[d].parent] # Null
                           /\ hash[token'[d].parent] = Null
    BY <1>10 DEF TokensAreFine, Signed
  <2>1. CASE d = c.new
    <3>1. token'[d] = t
      BY <1>8, <2>1
    <3>2. Signed(t) /\ t.sv <= epoch[t.who]
      BY <1>3, <1>6
    <3>3. t.parent # Null => token'[t.parent] # Null /\ hash[t.parent] = Null
      BY <1>3, <1>6, <1>12
    <3> QED BY <3>1, <3>2, <3>3
  <2>2. CASE d # c.new
    <3>1. token'[d] = token[d] /\ token[d] # Null /\ token[d] \in Token
      BY <1>7, <1>8, <2>2
    <3>2. /\ Signed(token[d]) /\ token[d].sv <= epoch[token[d].who]
          /\ token[d].parent # Null => /\ token[token[d].parent] # Null
                                       /\ hash[token[d].parent] = Null
      BY <3>1 DEF SessionsInv, TokensAreFine
    <3>3. token[d].parent \in Sid \cup {Null}
      BY <3>1 DEF Token
    <3>4. token[d].parent # Null => token'[token[d].parent] # Null
      BY <1>12, <3>2, <3>3
    <3> QED BY <3>1, <3>2, <3>4
  <2> QED BY <2>1, <2>2
<1>15. ListsAreFine'
  <2> SUFFICES ASSUME NEW s \in Staff, NEW d \in listed'[s]
               PROVE  token'[d] # Null /\ token'[d].who = s
    BY DEF ListsAreFine
  <2>1. CASE d \in listed[s]
    <3>1. d \in Sid /\ token[d] # Null /\ token[d].who = s
      BY <1>7, <2>1 DEF SessionsInv, ListsAreFine
    <3> QED BY <1>12, <3>1
  <2>2. CASE d \notin listed[s]
    <3>1. s = c.who /\ d = c.new
      BY <1>9, <2>2
    <3> QED BY <1>5, <1>6, <1>8, <3>1
  <2> QED BY <2>1, <2>2
<1>16. ForgottenAreOld'
  <2> SUFFICES ASSUME NEW d \in forgotten
               PROVE  token'[d] # Null /\ token'[d].sv < epoch[token'[d].who]
    BY <1>10 DEF ForgottenAreOld
  <2>1. d \in Sid /\ token[d] # Null /\ token[d].sv < epoch[token[d].who]
    BY DEF SessionsInv, ForgottenAreOld, TablesTyped
  <2> QED BY <1>12, <2>1
<1>17. After(c) = Idle
  BY <1>2, CallIsFine
<1>18. IdleOrFine(Idle, token', hash', epoch')
  BY DEF IdleOrFine
<1>19. Apart(r, Idle, token')
  <2> SUFFICES ASSUME NEW q \in Calls, q # r, call[q] # Idle, call[q].new # Null
               PROVE  token'[call[q].new] = Null
    BY DEF Apart
  <2>1. token[call[q].new] = Null /\ call[q].new \in Sid
    BY CallIsFine DEF Fine
  <2>2. c.new # call[q].new
    BY <1>2 DEF SessionsInv, SessionsDiffer
  <2> QED BY <1>8, <2>1, <2>2
<1>20. call' = [call EXCEPT ![r] = Idle]
  BY <1>1, <1>17 DEF GoesOn
<1>21. CallsSound'
  BY <1>11, <1>13, <1>18, <1>19, <1>20, CallMoves
<1> QED BY <1>11, <1>14, <1>15, <1>16, <1>21, SoundIs DEF TablesSound

LEMMA DropIsSound ==
  ASSUME NEW r \in Calls, SessionsInv, Drop(r)
  PROVE  SessionsInv'
<1> DEFINE b == call[r]
           c == [b EXCEPT !.missed = listed[b.who] \ b.read]
           n == [c EXCEPT !.read = {}]
<1>1. /\ At(r, "drop") /\ UNCHANGED <<rows, token>>
      /\ redis' = redis /\ window' = window /\ GoesOn(r, n)
      /\ hash' = [d \in Sid |-> IF d \in c.read THEN Null ELSE hash[d]]
      /\ listed' = [listed EXCEPT ![c.who] = {}]
      /\ Forgetting(c)
  BY DEF Drop
<1>2. b # Idle /\ b.todo[1] = "drop" /\ b \in Call /\ b.who \in Staff
  BY <1>1, AtIs, CallIsFine
<1>3. /\ hash \in [Sid -> Staff \cup {Null}] /\ listed \in [Staff -> SUBSET Sid]
  BY DEF SessionsInv, TablesTyped
<1>4. /\ c.who = b.who /\ c.op = b.op /\ c.todo = b.todo
      /\ n \in Call /\ n.todo = b.todo /\ n.op = b.op /\ n.new = b.new
      /\ n.who = b.who /\ n.sid = b.sid /\ n.sv = b.sv /\ n.proof = b.proof
      /\ n.raced = b.raced /\ n.missed = listed[b.who] \ b.read
  <2> HIDE DEF b
  <2> QED BY <1>2, <1>3 DEF Call
<1>5. forgotten' = forgotten
  <2>1. ~ (b.op = "logoutAll" /\ Len(b.todo) = 1)
    BY <1>2, CallIsFine
  <2> QED BY <1>1, <1>4, <2>1 DEF Forgetting
<1>6. /\ hash' \in [Sid -> Staff \cup {Null}]
      /\ \A d \in Sid : hash'[d] = hash[d] \/ hash'[d] = Null
  BY <1>1, <1>3
<1>7. /\ listed' \in [Staff -> SUBSET Sid]
      /\ \A s \in Staff : listed'[s] \subseteq listed[s]
  BY <1>1, <1>2, <1>3, <1>4
<1> HIDE DEF c, n
<1>8. TablesTyped' /\ VersionIsEpoch' /\ token' = token
  BY <1>1, <1>5, <1>6, <1>7 DEF SessionsInv, TablesTyped, VersionIsEpoch, rows
<1>9. Grows /\ ForgetsOld
  BY <1>1, <1>5, <1>6 DEF Grows, rows, SessionsInv, TablesTyped, ForgetsOld
<1>10. TablesSound'
  BY <1>7, <1>8, <1>9, TablesStand
<1>11. Ready(b, token', hash', epoch')
  BY <1>2, <1>8, <1>9, FineLater, FineIsReady
<1>12. \A d \in n.missed : token'[d] # Null /\ token'[d].who = n.who
  BY <1>2, <1>4, <1>8 DEF SessionsInv, ListsAreFine
<1>13. Ready(n, token', hash', epoch')
  BY <1>4, <1>11, <1>12 DEF Ready, Signed
<1>14. CallsSound'
  BY <1>1, <1>2, <1>4, <1>8, <1>9, <1>13, GoingOn
<1> QED BY <1>8, <1>10, <1>14, SoundIs

LEMMA RaiseIs ==
  ASSUME NEW s \in Staff, SessionsInv, Raise(s)
  PROVE  /\ staff' \in [Staff -> [status : {"ACTIVE", "ARCHIVED"}, sv : Nat]]
         /\ epoch' \in [Staff -> Nat] /\ VersionIsEpoch'
         /\ epoch'[s] = epoch[s] + 1
         /\ \A u \in Staff : epoch[u] <= epoch'[u]
<1>1. /\ staff \in [Staff -> [status : {"ACTIVE", "ARCHIVED"}, sv : Nat]]
      /\ epoch \in [Staff -> Nat]
      /\ \A u \in Staff : staff[u].sv = epoch[u]
  BY DEF SessionsInv, TablesTyped, VersionIsEpoch
<1>2. /\ epoch' \in [Staff -> Nat] /\ epoch'[s] = epoch[s] + 1
      /\ \A u \in Staff \ {s} : epoch'[u] = epoch[u]
  BY <1>1 DEF Raise
<1>3. /\ staff' \in [Staff -> [status : {"ACTIVE", "ARCHIVED"}, sv : Nat]]
      /\ staff'[s].sv = staff[s].sv + 1
      /\ \A u \in Staff \ {s} : staff'[u] = staff[u]
  BY <1>1 DEF Raise
<1>4. VersionIsEpoch'
  BY <1>1, <1>2, <1>3 DEF VersionIsEpoch
<1>5. \A u \in Staff : epoch[u] <= epoch'[u]
  BY <1>1, <1>2
<1> QED BY <1>2, <1>3, <1>4, <1>5

LEMMA WriteIsSound ==
  ASSUME NEW r \in Calls, SessionsInv, Write(r)
  PROVE  SessionsInv'
<1> DEFINE c == call[r]
           n == Updated(c)
<1>1. /\ At(r, "write") /\ UNCHANGED <<gym, hash, listed, token, forgotten>>
      /\ redis' = redis /\ window' = window /\ GoesOn(r, n)
      /\ IF c.op = "changeEvery" THEN Raise(c.who) ELSE UNCHANGED <<staff, epoch>>
  BY DEF Write, sessions
<1>2. /\ c # Idle /\ c.todo[1] = "write" /\ c \in Call /\ c.who \in Staff
      /\ c.proof <= epoch[c.who]
  BY <1>1, AtIs, CallIsFine DEF Fine
<1>3. /\ staff \in [Staff -> [status : {"ACTIVE", "ARCHIVED"}, sv : Nat]]
      /\ epoch \in [Staff -> Nat] /\ staff[c.who].sv = epoch[c.who]
  BY <1>2 DEF SessionsInv, TablesTyped, VersionIsEpoch
<1>4. /\ staff' \in [Staff -> [status : {"ACTIVE", "ARCHIVED"}, sv : Nat]]
      /\ epoch' \in [Staff -> Nat] /\ VersionIsEpoch'
      /\ \A u \in Staff : epoch[u] <= epoch'[u]
      /\ epoch'[c.who] = IF c.op = "changeEvery" THEN epoch[c.who] + 1
                                                ELSE epoch[c.who]
  <2>1. CASE c.op = "changeEvery"
    BY <1>1, <1>2, <2>1, RaiseIs
  <2>2. CASE c.op # "changeEvery"
    BY <1>1, <1>2, <1>3, <2>2 DEF SessionsInv, VersionIsEpoch
  <2> QED BY <2>1, <2>2
<1>5. TablesTyped' /\ token' = token
  BY <1>1, <1>4 DEF SessionsInv, TablesTyped
<1>6. Grows /\ ForgetsOld /\ \A s \in Staff : listed'[s] \subseteq listed[s]
  BY <1>1, <1>4 DEF Grows, ForgetsOld
<1>7. TablesSound'
  BY <1>4, <1>5, <1>6, TablesStand
<1>8. /\ n \in Call /\ n.todo = c.todo /\ n.op = c.op /\ n.new = c.new
      /\ n.who = c.who /\ n.sid = c.sid /\ n.missed = c.missed
      /\ c.proof # epoch[c.who] => n.raced = TRUE
      /\ c.proof = epoch[c.who] => n.raced = FALSE
      /\ n.sv = epoch'[c.who]
      /\ n.proof = IF c.op = "changeEvery" /\ c.proof = epoch[c.who]
                     THEN c.proof + 1 ELSE c.proof
  <2>1. epoch[c.who] \in Nat /\ c.proof \in Nat
    BY <1>2, <1>3 DEF Call
  <2> HIDE DEF c
  <2>2. CASE c.op = "changeEvery" /\ c.proof = epoch[c.who]
    <3>1. /\ staff[c.who].sv + 1 = epoch'[c.who] /\ epoch'[c.who] \in Nat
          /\ c.proof + 1 \in Nat
      BY <1>2, <1>3, <1>4, <2>1, <2>2
    <3>2. n = [c EXCEPT !.sv = staff[c.who].sv + 1, !.raced = FALSE,
                        !.proof = c.proof + 1]
      BY <2>2 DEF Updated
    <3> HIDE DEF n
    <3>3. n \in Call
      BY <1>2, <3>1, <3>2 DEF Call
    <3>4. /\ n.todo = c.todo /\ n.op = c.op /\ n.new = c.new
          /\ n.who = c.who /\ n.sid = c.sid /\ n.missed = c.missed
          /\ n.raced = FALSE /\ n.sv = epoch'[c.who] /\ n.proof = c.proof + 1
      BY <1>2, <3>1, <3>2 DEF Call
    <3> QED
      BY <2>2, <3>3, <3>4
  <2>3. CASE c.op = "changeEvery" /\ c.proof # epoch[c.who]
    BY <1>2, <1>3, <1>4, <2>1, <2>3 DEF Updated, Call
  <2>4. CASE c.op # "changeEvery"
    BY <1>2, <1>3, <1>4, <2>1, <2>4 DEF Updated, Call
  <2> QED BY <2>2, <2>3, <2>4
<1>9. n.proof <= epoch'[n.who] /\ n.sv <= epoch'[n.who] /\ Signed(n)
  <2>1. epoch[c.who] \in Nat /\ epoch'[c.who] \in Nat /\ c.proof \in Nat
    BY <1>2, <1>3, <1>4 DEF Call
  <2>a. n.who = c.who /\ n.sv = epoch'[c.who]
    BY <1>8
  <2>2. CASE c.proof = epoch[c.who]
    <3>1. n.raced = FALSE /\ n.proof = epoch'[c.who]
      BY <1>4, <1>8, <2>1, <2>2
    <3> HIDE DEF n, c
    <3> QED BY <2>1, <2>a, <3>1 DEF Signed
  <2>3. CASE c.proof # epoch[c.who]
    <3>1. n.raced = TRUE /\ n.proof = c.proof
      BY <1>8, <2>3
    <3>2. c.proof < epoch'[c.who]
      BY <1>2, <1>4, <2>1, <2>3
    <3> HIDE DEF n, c
    <3> QED BY <2>1, <2>a, <3>1, <3>2 DEF Signed
  <2> QED BY <2>2, <2>3
<1>10. Fine(c, token', hash', epoch')
  BY <1>2, <1>5, <1>6, FineLater
<1> HIDE DEF n
<1>11. Ready(n, token', hash', epoch')
  BY <1>2, <1>8, <1>9, <1>10 DEF Ready, Fine
<1>12. CallsSound'
  BY <1>1, <1>2, <1>5, <1>6, <1>8, <1>11, GoingOn
<1> QED BY <1>5, <1>7, <1>12, SoundIs

LEMMA BumpIsSound ==
  ASSUME NEW r \in Calls, SessionsInv, Bump(r)
  PROVE  SessionsInv'
<1> DEFINE c == call[r]
<1>1. /\ At(r, "bump") /\ UNCHANGED <<gym, hash, listed, token>>
      /\ redis' = redis /\ window' = window /\ GoesOn(r, c)
      /\ Raise(c.who) /\ Forgetting(c)
  BY DEF Bump
<1>2. /\ c # Idle /\ c.todo[1] = "bump" /\ c \in Call /\ c.who \in Staff
      /\ c.missed \subseteq Sid
      /\ \A d \in c.missed : token[d] # Null /\ token[d].who = c.who
  BY <1>1, AtIs, CallIsFine DEF Fine, Call
<1>3. /\ staff' \in [Staff -> [status : {"ACTIVE", "ARCHIVED"}, sv : Nat]]
      /\ epoch' \in [Staff -> Nat] /\ VersionIsEpoch'
      /\ epoch'[c.who] = epoch[c.who] + 1
      /\ \A u \in Staff : epoch[u] <= epoch'[u]
  BY <1>1, <1>2, RaiseIs
<1>4. forgotten' \subseteq forgotten \cup c.missed /\ forgotten' \subseteq Sid
  BY <1>1, <1>2 DEF Forgetting, SessionsInv, TablesTyped
<1>5. TablesTyped' /\ token' = token
  BY <1>1, <1>3, <1>4 DEF SessionsInv, TablesTyped
<1>6. Grows /\ \A s \in Staff : listed'[s] \subseteq listed[s]
  BY <1>1, <1>3 DEF Grows
<1>7. ForgetsOld
  <2> SUFFICES ASSUME NEW d \in forgotten' \ forgotten
               PROVE  token[d] # Null /\ token[d].sv < epoch'[token[d].who]
    BY DEF ForgetsOld
  <2>1. d \in Sid /\ token[d] # Null /\ token[d].who = c.who
    BY <1>2, <1>4
  <2>2. token[d].sv <= epoch[c.who] /\ token[d].sv \in Nat /\ epoch[c.who] \in Nat
    BY <1>2, <2>1 DEF SessionsInv, TokensAreFine, TablesTyped, Token
  <2> QED BY <1>3, <2>1, <2>2
<1>8. TablesSound'
  BY <1>3, <1>5, <1>6, <1>7, TablesStand
<1>9. Ready(c, token', hash', epoch')
  BY <1>2, <1>5, <1>6, FineLater, FineIsReady
<1>10. CallsSound'
  BY <1>1, <1>2, <1>5, <1>6, <1>9, GoingOn
<1> QED BY <1>5, <1>8, <1>10, SoundIs

-----------------------------------------------------------------------------
(* What happens around the calls. *)

LEMMA EditStaffIsSound ==
  ASSUME NEW s \in Staff, SessionsInv, EditStaff(s)
  PROVE  SessionsInv'
<1>1. PICK status \in {"ACTIVE", "ARCHIVED"} :
         staff' = [staff EXCEPT ![s] = [status |-> status, sv |-> @.sv + 1]]
  BY DEF EditStaff
<1>2. /\ epoch' = [epoch EXCEPT ![s] = @ + 1] /\ UNCHANGED <<gym, redis, window>>
      /\ UNCHANGED <<hash, listed, token, forgotten>> /\ call' = call
  BY DEF EditStaff, sessions
<1>3. /\ staff \in [Staff -> [status : {"ACTIVE", "ARCHIVED"}, sv : Nat]]
      /\ epoch \in [Staff -> Nat]
      /\ \A u \in Staff : staff[u].sv = epoch[u]
  BY DEF SessionsInv, TablesTyped, VersionIsEpoch
<1>4. /\ epoch' \in [Staff -> Nat] /\ epoch'[s] = epoch[s] + 1
      /\ \A u \in Staff \ {s} : epoch'[u] = epoch[u]
  BY <1>2, <1>3
<1>5. /\ staff' \in [Staff -> [status : {"ACTIVE", "ARCHIVED"}, sv : Nat]]
      /\ staff'[s].sv = staff[s].sv + 1
      /\ \A u \in Staff \ {s} : staff'[u] = staff[u]
  BY <1>1, <1>3
<1>6. VersionIsEpoch' /\ \A u \in Staff : epoch[u] <= epoch'[u]
  BY <1>3, <1>4, <1>5 DEF VersionIsEpoch
<1>7. TablesTyped' /\ token' = token
  BY <1>2, <1>4, <1>5 DEF SessionsInv, TablesTyped
<1>8. Grows /\ ForgetsOld /\ \A u \in Staff : listed'[u] \subseteq listed[u]
  BY <1>2, <1>6 DEF Grows, ForgetsOld
<1>9. TablesSound' /\ CallsSound'
  BY <1>2, <1>6, <1>7, <1>8, TablesStand, CallsStand
<1> QED BY <1>7, <1>9, SoundIs

LEMMA ListSessionsIsSound ==
  ASSUME NEW d \in Sid, SessionsInv, ListSessions(d)
  PROVE  SessionsInv'
<1>1. /\ listed' = [listed EXCEPT ![token[d].who] = {e \in @ : hash[e] # Null}]
      /\ UNCHANGED <<rows, hash, token, forgotten, call, redis, window>>
      /\ Verifies(d)
  BY DEF ListSessions, Opens
<1>2. token[d].who \in Staff /\ listed \in [Staff -> SUBSET Sid]
  BY <1>1, OpensIs DEF SessionsInv, TablesTyped
<1>3. /\ listed' \in [Staff -> SUBSET Sid]
      /\ \A s \in Staff : listed'[s] \subseteq listed[s]
  BY <1>1, <1>2
<1>4. TablesTyped' /\ VersionIsEpoch' /\ token' = token
  BY <1>1, <1>3 DEF SessionsInv, TablesTyped, VersionIsEpoch, rows
<1>5. Grows /\ ForgetsOld
  BY <1>1 DEF Grows, rows, SessionsInv, TablesTyped, ForgetsOld
<1>6. TablesSound' /\ CallsSound'
  BY <1>1, <1>3, <1>4, <1>5, TablesStand, CallsStand
<1> QED BY <1>4, <1>6, SoundIs

LEMMA SessionExpiresIsSound ==
  ASSUME NEW d \in Sid, SessionsInv, SessionExpires(d)
  PROVE  SessionsInv'
<1>1. /\ hash' = [hash EXCEPT ![d] = Null]
      /\ UNCHANGED <<rows, listed, token, forgotten, call, redis, window>>
  BY DEF SessionExpires
<1>2. hash \in [Sid -> Staff \cup {Null}]
  BY DEF SessionsInv, TablesTyped
<1>3. /\ hash' \in [Sid -> Staff \cup {Null}]
      /\ \A e \in Sid : hash'[e] = hash[e] \/ hash'[e] = Null
  BY <1>1, <1>2
<1>4. TablesTyped' /\ VersionIsEpoch' /\ token' = token
  BY <1>1, <1>3 DEF SessionsInv, TablesTyped, VersionIsEpoch, rows
<1>5. /\ Grows /\ ForgetsOld
      /\ \A s \in Staff : listed'[s] \subseteq listed[s]
  BY <1>1, <1>3 DEF Grows, rows, SessionsInv, TablesTyped, ForgetsOld
<1>6. TablesSound' /\ CallsSound'
  BY <1>1, <1>4, <1>5, TablesStand, CallsStand
<1> QED BY <1>4, <1>6, SoundIs

LEMMA SetGymIsSound ==
  ASSUME SessionsInv, SetGym
  PROVE  SessionsInv'
<1>1. /\ gym' \in {"ACTIVE", "SUSPENDED"} /\ staff' = staff /\ epoch' = epoch
      /\ UNCHANGED <<hash, listed, token, forgotten, call, redis, window>>
  BY DEF SetGym, sessions
<1>2. TablesTyped' /\ VersionIsEpoch' /\ token' = token
  BY <1>1 DEF SessionsInv, TablesTyped, VersionIsEpoch
<1>3. /\ Grows /\ ForgetsOld
      /\ \A s \in Staff : listed'[s] \subseteq listed[s]
  BY <1>1 DEF Grows, SessionsInv, TablesTyped, ForgetsOld
<1>4. TablesSound' /\ CallsSound'
  BY <1>1, <1>2, <1>3, TablesStand, CallsStand
<1> QED BY <1>2, <1>4, SoundIs

LEMMA RedisLostIsSound ==
  ASSUME SessionsInv, RedisLost
  PROVE  SessionsInv'
<1>1. TablesTyped' /\ Grows /\ TablesSound' /\ token' = token /\ call' = call
  BY QuietTables DEF RedisLost, SessionsInv, TablesTyped
<1>2. CallsSound'
  BY <1>1, CallsStand
<1> QED BY <1>1, <1>2, SoundIs

LEMMA RestartIsSound ==
  ASSUME SessionsInv, Restart
  PROVE  SessionsInv'
<1>1. TablesTyped' /\ TablesSound'
  BY QuietTables DEF Restart, SessionsInv, TablesTyped
<1>2. CallsSound'
  BY DEF Restart, CallsSound, CallsTyped, CallsAreFine, SessionsDiffer
<1> QED BY <1>1, <1>2, SoundIs

LEMMA TickIsSound ==
  ASSUME SessionsInv, Tick
  PROVE  SessionsInv'
<1>1. window' \in [n : Nat, ttl : Nat]
  BY DEF Tick, SessionsInv, TablesTyped
<1>2. TablesTyped' /\ Grows /\ TablesSound' /\ token' = token /\ call' = call
  BY <1>1, QuietTables DEF Tick, SessionsInv, TablesTyped
<1>3. CallsSound'
  BY <1>2, CallsStand
<1> QED BY <1>2, <1>3, SoundIs

LEMMA StutterIsSound ==
  ASSUME SessionsInv, UNCHANGED vars
  PROVE  SessionsInv'
<1>1. /\ TablesTyped' /\ Grows /\ TablesSound' /\ token' = token /\ call' = call
  BY QuietTables DEF vars, SessionsInv, TablesTyped
<1>2. CallsSound'
  BY <1>1, CallsStand
<1> QED BY <1>1, <1>2, SoundIs

-----------------------------------------------------------------------------
(* The theorems. *)

LEMMA NextIsSound == SessionsInv /\ [Next]_vars => SessionsInv'
<1> SUFFICES ASSUME SessionsInv, [Next]_vars
             PROVE  SessionsInv'
  OBVIOUS
<1>1. ASSUME NEW r \in Calls, Arrive(r)
      PROVE  SessionsInv'
  <2>1. CASE \E s \in Staff : Login(r, s)
    BY <2>1, LoginIsSound
  <2>2. CASE \E d \in Sid : Refresh(r, d)
    BY <2>2, RefreshIsSound
  <2>3. CASE \E d \in Sid : Logout(r, d) \/ LogoutAll(r, d) \/ ChangePassword(r, d)
    BY <2>3, OtherArrivalsAreSound
  <2>4. CASE \E d, target \in Sid : RevokeSession(r, d, target)
    BY <2>4, OtherArrivalsAreSound
  <2> QED BY <1>1, <2>1, <2>2, <2>3, <2>4 DEF Arrive
<1>2. ASSUME NEW r \in Calls, Step(r)
      PROVE  SessionsInv'
  BY <1>2, LookIsSound, DelIsSound, UnlistIsSound, StoreIsSound, ListIsSound,
     MembersIsSound, DropIsSound, ReadIsSound, WriteIsSound, BumpIsSound,
     RedisThrowsIsSound DEF Step
<1>3. CASE \E s \in Staff : EditStaff(s)
  BY <1>3, EditStaffIsSound
<1>4. CASE \E d \in Sid : ListSessions(d) \/ SessionExpires(d)
  BY <1>4, ListSessionsIsSound, SessionExpiresIsSound
<1>5. CASE SetGym \/ RedisLost \/ Restart \/ Tick
  BY <1>5, SetGymIsSound, RedisLostIsSound, RestartIsSound, TickIsSound
<1>6. CASE UNCHANGED vars
  BY <1>6, StutterIsSound
<1> QED BY <1>1, <1>2, <1>3, <1>4, <1>5, <1>6 DEF Next

LEMMA SessionsInvHolds == Spec => []SessionsInv
  BY InitIsSound, NextIsSound, PTL DEF Spec

(* Every variable of Sessions has its type, whatever calls interleave.      *)
THEOREM SessionsTyped == Spec => []TypeOK
<1>1. SessionsInv => TypeOK
  BY DEF SessionsInv, TablesTyped, CallsTyped, TypeOK
<1> QED BY <1>1, SessionsInvHolds, PTL

(* Whoever was signed out everywhere needs the password again: what still   *)
(* opens comes from a password checked since (OldProofsAreDead).            *)
THEOREM OldProofsStayDead == Spec => []OldProofsAreDead
<1>1. SessionsInv => OldProofsAreDead
  <2> SUFFICES ASSUME SessionsInv, NEW d \in Sid, Opens(d), ~token[d].raced
               PROVE  token[d].proof = epoch[token[d].who]
    BY DEF OldProofsAreDead
  <2>1. Verifies(d)
    BY DEF Opens
  <2> QED BY <2>1, OpensIs DEF Signed
<1> QED BY <1>1, SessionsInvHolds, PTL

(* No call hands out a token that is dead on arrival (FreshProofsOpen).     *)
THEOREM FreshProofsStayOpen == Spec => []FreshProofsOpen
<1>1. SessionsInv => FreshProofsOpen
  <2> SUFFICES ASSUME SessionsInv, NEW d \in Sid, token[d] # Null,
                      token[d].proof = epoch[token[d].who]
               PROVE  token[d].sv = staff[token[d].who].sv
    BY DEF FreshProofsOpen
  <2>1. /\ Signed(token[d]) /\ token[d].sv \in Nat /\ token[d].proof \in Nat
        /\ staff[token[d].who].sv = epoch[token[d].who]
        /\ epoch[token[d].who] \in Nat /\ token[d].raced \in BOOLEAN
    BY OpensIs DEF Verifies
  <2>2. token[d].sv <= epoch[token[d].who]
    BY DEF SessionsInv, TokensAreFine
  <2> QED BY <2>1, <2>2 DEF Signed
<1> QED BY <1>1, SessionsInvHolds, PTL

(* A refresh token that was traded in cannot be traded again, wherever the  *)
(* trade was cut short (RotatedIsGone).                                     *)
THEOREM RotatedStaysGone == Spec => []RotatedIsGone
<1>1. SessionsInv => RotatedIsGone
  BY DEF SessionsInv, TokensAreFine, RotatedIsGone
<1> QED BY <1>1, SessionsInvHolds, PTL

(* The sessions that a logout of all devices did not see are of no use      *)
(* (ForgottenAreUseless): they are of a version that is over.               *)
THEOREM ForgottenStayUseless == Spec => []ForgottenAreUseless
<1>1. SessionsInv => ForgottenAreUseless
  <2> SUFFICES ASSUME SessionsInv, NEW d \in forgotten, Refreshes(d)
               PROVE  FALSE
    BY DEF ForgottenAreUseless
  <2>1. d \in Sid /\ token[d].sv < epoch[token[d].who] /\ Verifies(d)
    BY DEF SessionsInv, TablesTyped, ForgottenAreOld, Verifies
  <2>2. Opens(d)
    BY DEF Refreshes
  <2> QED BY <2>1, <2>2, OpensIs
<1> QED BY <1>1, SessionsInvHolds, PTL

(* No attempt prolongs the window an address is counted in                  *)
(* (WindowIsNotExtended).                                                   *)
THEOREM WindowsAreNotExtended == Spec => WindowIsNotExtended
<1>1. SessionsInv /\ [Next]_vars =>
        [window.n > 0 /\ window'.n > 0 => window'.ttl <= window.ttl]_vars
  <2> SUFFICES ASSUME SessionsInv, Next, window.n > 0, window'.n > 0
               PROVE  window'.ttl <= window.ttl
    OBVIOUS
  <2>1. window.n \in Nat /\ window.ttl \in Nat /\ window \in [n : Nat, ttl : Nat]
    BY DEF SessionsInv, TablesTyped
  <2>2. CASE window' = window
    BY <2>1, <2>2
  <2>3. CASE window' = Hit(window)
    BY <2>1, <2>3 DEF Hit
  <2>4. CASE Tick
    BY <2>1, <2>4 DEF Tick
  <2>5. window' = window \/ window' = Hit(window) \/ Tick
    BY DEF Next, Arrive, Step, Login, Counted, Refresh, Logout, RevokeSession,
       LogoutAll, ChangePassword, Begin, Look, Del, Unlist, Store, List,
       Members, Drop, Read, Write, Bump, RedisThrows, EditStaff, ListSessions,
       SessionExpires, SetGym, RedisLost, Restart
  <2> QED BY <2>2, <2>3, <2>4, <2>5
<1> QED BY <1>1, SessionsInvHolds, PTL DEF Spec, WindowIsNotExtended
=============================================================================
