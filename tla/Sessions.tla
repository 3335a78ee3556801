------------------------------ MODULE Sessions ------------------------------
(***************************************************************************)
(* Signing in and staying signed in.  A staff member holds pairs of an     *)
(* access and a refresh token; every token carries the sessionVersion of   *)
(* the staff row it was made from (sv) and the refresh token names a       *)
(* session kept in Redis (sid).  The guard reads the row on every request  *)
(* and turns away a token of another version; only a refresh looks the     *)
(* session up.  A handler is a list of statements to the database or to    *)
(* Redis (Flow), and the statements of the calls under way interleave; the *)
(* connection to Redis may be lost and the application may restart between *)
(* any two of them.  In front of the sign-in stands the counter that       *)
(* limits attempts per address.                                            *)
(*                                                                         *)
(* Who asks is trusted to hold the password: a wrong one changes nothing.  *)
(* Tokens do not run out here, which only lets more requests in.           *)
(***************************************************************************)
EXTENDS Naturals, Sequences, FiniteSets

CONSTANTS
  Staff,       \* ids of the staff rows
  Sid,         \* the session ids that may be drawn (bound)
  Calls,       \* requests served at once
  MaxVersion,  \* sessionVersion is not raised beyond it (bound)
  Limit,       \* sign-in attempts allowed in one window
  Window,      \* length of that window in clock ticks
  Null

ASSUME SessionsAssumption ==
  /\ IsFiniteSet(Staff) /\ IsFiniteSet(Sid) /\ Null \notin Staff \cup Sid
  /\ MaxVersion \in Nat /\ Limit \in Nat /\ Window \in Nat \ {0}

VARIABLES
  gym,        \* tenants.status
  staff,      \* status and sessionVersion of each staff row
  hash,       \* Redis auth:session:<sid>: the owner, or Null
  listed,     \* Redis auth:user:<id>:sessions
  token,      \* the pair of tokens handed out for a sid, or Null
  call,       \* what each request under way still has to do
  redis,      \* "up", or "lost": this process has no connection
  window,     \* the sign-in counter of the address and its time to live
  epoch,      \* times a staff member was signed out everywhere (history)
  forgotten   \* sids a finished logoutAll took off a list unread (history)

rows     == <<gym, staff, epoch>>
sessions == <<hash, listed, token, forgotten>>
vars     == <<rows, sessions, call, redis, window>>

(* The statements of each handler, in the order the code awaits them.      *)
(* look, del, unlist, store, list, members and drop are Redis commands,    *)
(* read, write and bump statements to the database.                        *)
SignIn    == <<"store", "list">>
RevokeOne == <<"del", "unlist">>
RevokeAll == <<"members", "drop">>

(* Mutation: the new session is made before the old one is revoked. *)
OldRevokedLast == <<"look">> \o SignIn \o RevokeOne

Rotate == <<"look">> \o RevokeOne \o SignIn

(* Mutation: the version is raised before the sessions are revoked. *)
BumpFirst == <<"bump">> \o RevokeAll

SignOutEverywhere == RevokeAll \o <<"bump">>

NewPassword == <<"read", "write">>

Flow == [
  login       |-> SignIn,
  refresh     |-> Rotate,
  logout      |-> RevokeOne,
  revoke      |-> RevokeOne,
  logoutAll   |-> SignOutEverywhere,
  changeKeep  |-> NewPassword \o SignIn,
  changeThis  |-> NewPassword \o RevokeOne \o SignIn,
  changeEvery |-> NewPassword \o RevokeAll \o SignIn ]

Ops == DOMAIN Flow
RedisSteps == {"look", "del", "unlist", "store", "list", "members", "drop"}
RowSteps == {"read", "write", "bump"}
Idle == [op |-> "idle"]

(* A call: who asks, the session it presents or names (sid), the staff row *)
(* it read (sv, and proof: the epoch in which a password was last checked  *)
(* for it), whether the row was signed out everywhere between that check   *)
(* and the write of a new password (raced), the session being made (new)   *)
(* and what SMEMBERS returned (read), of which a DEL may have missed some. *)
Call == [op : Ops, todo : Seq(RedisSteps \cup RowSteps) \ {<<>>},
         who : Staff, sid : Sid \cup {Null}, sv : Nat, proof : Nat,
         raced : BOOLEAN, new : Sid \cup {Null}, read : SUBSET Sid,
         missed : SUBSET Sid]

Token == [who : Staff, sv : Nat, proof : Nat, raced : BOOLEAN,
          parent : Sid \cup {Null}]

ASSUME NoTokenIsNone == Null \notin Token

Init ==
  /\ gym = "ACTIVE"
  /\ staff = [s \in Staff |-> [status |-> "ACTIVE", sv |-> 0]]
  /\ hash = [d \in Sid |-> Null]
  /\ listed = [s \in Staff |-> {}]
  /\ token = [d \in Sid |-> Null]
  /\ call = [r \in Calls |-> Idle]
  /\ redis = "up"
  /\ window = [n |-> 0, ttl |-> 0]
  /\ epoch = [s \in Staff |-> 0]
  /\ forgotten = {}

(* A token verifies when it is one of ours. *)
Verifies(d) == token[d] # Null

Active(s)  == staff[s].status = "ACTIVE"
Current(d) == token[d].sv = staff[token[d].who].sv

(* JwtAuthGuard, and the same checks in refreshTokens. *)
Opens(d) ==
  /\ Verifies(d)
  /\ gym = "ACTIVE"
  /\ Active(token[d].who)
  /\ Current(d)

(* A refresh also needs the session. *)
Refreshes(d) == Opens(d) /\ hash[d] = token[d].who

-----------------------------------------------------------------------------
(* The counter: INCR, and EXPIRE on the first hit, in one script.  Counting *)
(* stops one above the limit (bound).                                       *)

(* Mutation: every hit renews the window. *)
HitRenewing(w) ==
  [n   |-> IF w.n > Limit THEN w.n ELSE w.n + 1, ttl |-> Window]

Hit(w) ==
  [n   |-> IF w.n > Limit THEN w.n ELSE w.n + 1,
   ttl |-> IF w.n = 0 THEN Window ELSE w.ttl]

(* A key whose time has come is gone. *)
Tick ==
  /\ window.ttl > 0
  /\ window' = IF window.ttl = 1 THEN [n |-> 0, ttl |-> 0]
                                 ELSE [window EXCEPT !.ttl = @ - 1]
  /\ UNCHANGED <<rows, sessions, call, redis>>

(* The guard counts an attempt, and lets it pass when Redis does not answer. *)
Counted == IF redis = "up" THEN window' = Hit(window) ELSE UNCHANGED window
Allowed == redis = "up" => window'.n <= Limit

-----------------------------------------------------------------------------
(* Requests arrive.  Those that sign in have read the staff row.            *)

NewCall(op, s, d) ==
  [op |-> op, todo |-> Flow[op], who |-> s, sid |-> d, sv |-> 0, proof |-> 0,
   raced |-> FALSE, new |-> Null, read |-> {}, missed |-> {}]

Begin(r, c) ==
  /\ call[r] = Idle
  /\ call' = [call EXCEPT ![r] = c]
  /\ UNCHANGED <<rows, sessions, redis, window>>

(* POST /auth/login: counted, then the gym and the row with its password    *)
(* are read and checked before anything is written.  A gym suspended        *)
(* between the two reads is as one suspended right after them.              *)
Login(r, s) ==
  /\ call[r] = Idle
  /\ Counted
  /\ IF /\ Allowed
        /\ gym = "ACTIVE"
        /\ Active(s)
       THEN call' = [call EXCEPT ![r] = [NewCall("login", s, Null) EXCEPT
                       !.sv = staff[s].sv, !.proof = epoch[s]]]
       ELSE UNCHANGED call
  /\ UNCHANGED <<rows, sessions, redis>>

(* POST /auth/refresh: the row also gives the version of the next token.    *)
Refresh(r, d) ==
  /\ Opens(d)
  /\ Begin(r, [NewCall("refresh", token[d].who, d) EXCEPT
                 !.sv = staff[token[d].who].sv,
                 !.proof = token[d].proof, !.raced = token[d].raced])

(* POST /auth/logout is public: any refresh token of ours will do. *)
Logout(r, d) ==
  /\ Verifies(d)
  /\ Begin(r, NewCall("logout", token[d].who, d))

(* DELETE /auth/sessions/:sid may name any session. *)
RevokeSession(r, d, target) ==
  /\ Opens(d)
  /\ Begin(r, NewCall("revoke", token[d].who, target))

(* POST /auth/logoutAll. *)
LogoutAll(r, d) ==
  /\ Opens(d)
  /\ Begin(r, NewCall("logoutAll", token[d].who, Null))

(* PATCH /auth/changePassword, which signs out every device, or this one    *)
(* when its refresh cookie came along, or none.                             *)
ChangePassword(r, d) ==
  /\ Opens(d)
  /\ \E op \in {"changeKeep", "changeThis", "changeEvery"} :
       Begin(r, NewCall(op, token[d].who, d))

-----------------------------------------------------------------------------
(* One awaited statement of a call.                                         *)

(* Mutation: a call that has done everything is not over. *)
AfterForever(c) == [c EXCEPT !.todo = Tail(@)]

After(c) == IF Len(c.todo) = 1 THEN Idle ELSE [c EXCEPT !.todo = Tail(@)]

At(r, step) ==
  /\ call[r] # Idle
  /\ Head(call[r].todo) = step
  /\ step \in RedisSteps => redis = "up"

GoesOn(r, c)  == call' = [call EXCEPT ![r] = After(c)]
GivesUp(r)    == call' = [call EXCEPT ![r] = Idle]

(* A logoutAll that is done has taken off the list what it missed, too. *)
Forgetting(c) ==
  forgotten' = IF c.op = "logoutAll" /\ Len(c.todo) = 1
                 THEN forgotten \cup c.missed ELSE forgotten

(* isSessionActive: HGET. *)
Look(r) == LET c == call[r] IN
  /\ At(r, "look")
  /\ IF hash[c.sid] = c.who THEN GoesOn(r, c) ELSE GivesUp(r)
  /\ UNCHANGED <<rows, sessions, redis, window>>

(* revokeSession: HGET, and DEL unless the session is of somebody else; its *)
(* owner never changes, so the two are one step.                            *)
Del(r) == LET c == call[r] IN
  /\ At(r, "del")
  /\ IF hash[c.sid] \in {c.who, Null}
       THEN /\ hash' = [hash EXCEPT ![c.sid] = Null]
            /\ GoesOn(r, c)
       ELSE /\ GoesOn(r, [c EXCEPT !.todo = <<"del">>])
            /\ UNCHANGED hash
  /\ UNCHANGED <<rows, listed, token, forgotten, redis, window>>

(* revokeSession: SREM. *)
Unlist(r) == LET c == call[r] IN
  /\ At(r, "unlist")
  /\ listed' = [listed EXCEPT ![c.who] = @ \ {c.sid}]
  /\ GoesOn(r, c)
  /\ UNCHANGED <<rows, hash, token, forgotten, redis, window>>

(* Ids are drawn at random; none is drawn twice. *)
Unused(d) ==
  /\ token[d] = Null /\ hash[d] = Null
  /\ \A r \in Calls : call[r] # Idle => call[r].new # d

(* createSession: HSET and its EXPIRE. *)
Store(r) == LET c == call[r] IN
  /\ At(r, "store")
  /\ \E d \in Sid :
       /\ Unused(d)
       /\ hash' = [hash EXCEPT ![d] = c.who]
       /\ GoesOn(r, [c EXCEPT !.new = d])
  /\ UNCHANGED <<rows, listed, token, forgotten, redis, window>>

(* createSession: SADD and its EXPIRE; then the tokens are signed and       *)
(* handed out.                                                              *)
List(r) == LET c == call[r] IN
  /\ At(r, "list")
  /\ listed' = [listed EXCEPT ![c.who] = @ \cup {c.new}]
  /\ token' = [token EXCEPT ![c.new] =
       [who |-> c.who, sv |-> c.sv, proof |-> c.proof, raced |-> c.raced,
        parent |-> IF c.op = "refresh" THEN c.sid ELSE Null]]
  /\ GoesOn(r, c)
  /\ UNCHANGED <<rows, hash, forgotten, redis, window>>

(* revokeAllSessions: SMEMBERS. *)
Members(r) == LET c == call[r] IN
  /\ At(r, "members")
  /\ GoesOn(r, [c EXCEPT !.read = listed[c.who]])
  /\ UNCHANGED <<rows, sessions, redis, window>>

(* revokeAllSessions: one DEL of the sessions read and of the list.         *)
Drop(r) ==
  LET c == [call[r] EXCEPT !.missed = listed[call[r].who] \ call[r].read] IN
  /\ At(r, "drop")
  /\ hash' = [d \in Sid |-> IF d \in c.read THEN Null ELSE hash[d]]
  /\ listed' = [listed EXCEPT ![c.who] = {}]
  /\ Forgetting(c)
  /\ GoesOn(r, [c EXCEPT !.read = {}])
  /\ UNCHANGED <<rows, token, redis, window>>

(* changePassword: the row is read and the current password compared.       *)
Read(r) == LET c == call[r] IN
  /\ At(r, "read")
  /\ GoesOn(r, [c EXCEPT !.proof = epoch[c.who]])
  /\ UNCHANGED <<rows, sessions, redis, window>>

(* One UPDATE that raises the version. *)
Raise(s) ==
  /\ staff[s].sv < MaxVersion
  /\ staff' = [staff EXCEPT ![s].sv = @ + 1]
  /\ epoch' = [epoch EXCEPT ![s] = @ + 1]

(* Mutation: the tokens are made from the row read before the update. *)
UpdatedOldRow(c) ==
  LET raced == c.proof # epoch[c.who] IN
  IF c.op = "changeEvery"
    THEN [c EXCEPT !.raced = raced, !.proof = IF raced THEN @ ELSE @ + 1]
    ELSE [c EXCEPT !.raced = raced]

(* What changePassword goes on with: the row its update returned.           *)
Updated(c) ==
  LET raced == c.proof # epoch[c.who]
      row   == staff[c.who].sv IN
  IF c.op = "changeEvery"
    THEN [c EXCEPT !.sv = row + 1, !.raced = raced,
                   !.proof = IF raced THEN @ ELSE @ + 1]
    ELSE [c EXCEPT !.sv = row, !.raced = raced]

(* updatePassword, with or without a new version. *)
Write(r) == LET c == call[r] IN
  /\ At(r, "write")
  /\ GoesOn(r, Updated(c))
  /\ IF c.op = "changeEvery" THEN Raise(c.who) ELSE UNCHANGED <<staff, epoch>>
  /\ UNCHANGED <<gym, sessions, redis, window>>

(* bumpSessionVersion. *)
Bump(r) == LET c == call[r] IN
  /\ At(r, "bump")
  /\ GoesOn(r, c) /\ Raise(c.who) /\ Forgetting(c)
  /\ UNCHANGED <<gym, hash, listed, token, redis, window>>

-----------------------------------------------------------------------------
(* What happens around the calls.                                           *)

(* Mutation: archiving or reactivating leaves the version alone. *)
EditStaffQuietly(s) ==
  /\ gym = "ACTIVE"
  /\ epoch[s] < MaxVersion
  /\ epoch' = [epoch EXCEPT ![s] = @ + 1]
  /\ \E status \in {"ACTIVE", "ARCHIVED"} :
       staff' = [staff EXCEPT ![s].status = status]
  /\ UNCHANGED <<gym, sessions, call, redis, window>>

(* PATCH /staff/:id that names email, password, role, branch or status: the *)
(* version is raised in the same UPDATE.                                    *)
EditStaff(s) ==
  /\ gym = "ACTIVE"
  /\ staff[s].sv < MaxVersion
  /\ \E status \in {"ACTIVE", "ARCHIVED"} :
       staff' = [staff EXCEPT ![s] = [status |-> status, sv |-> @.sv + 1]]
  /\ epoch' = [epoch EXCEPT ![s] = @ + 1]
  /\ UNCHANGED <<gym, sessions, call, redis, window>>

(* The platform suspends or reactivates a gym. *)
SetGym ==
  /\ gym' \in {"ACTIVE", "SUSPENDED"} \ {gym}
  /\ UNCHANGED <<staff, epoch, sessions, call, redis, window>>

(* GET /auth/sessions takes the sids without a session off the list.  A sid *)
(* never gets its session back, so the reads and SREMs are one step.        *)
ListSessions(d) ==
  /\ Opens(d) /\ redis = "up"
  /\ listed' = [listed EXCEPT ![token[d].who] =
                  {e \in @ : hash[e] # Null}]
  /\ UNCHANGED <<rows, hash, token, forgotten, call, redis, window>>

(* A session outlives its time to live. *)
SessionExpires(d) ==
  /\ hash[d] # Null /\ token[d] # Null
  /\ hash' = [hash EXCEPT ![d] = Null]
  /\ UNCHANGED <<rows, listed, token, forgotten, call, redis, window>>

(* The connection breaks; the client never tries again (retryStrategy).     *)
RedisLost ==
  /\ redis = "up"
  /\ redis' = "lost"
  /\ UNCHANGED <<rows, sessions, call, window>>

(* Without it a command throws at once: the call ends where it stands, also *)
(* a logout, which answers as if it had revoked the session.                *)
RedisThrows(r) ==
  /\ redis = "lost"
  /\ call[r] # Idle /\ Head(call[r].todo) \in RedisSteps
  /\ GivesUp(r)
  /\ UNCHANGED <<rows, sessions, redis, window>>

(* The process goes down with its calls; the next one connects if it can.   *)
Restart ==
  /\ call' = [r \in Calls |-> Idle]
  /\ redis' \in {"up", "lost"}
  /\ UNCHANGED <<rows, sessions, window>>

Step(r) ==
  \/ Look(r) \/ Del(r) \/ Unlist(r) \/ Store(r) \/ List(r)
  \/ Members(r) \/ Drop(r) \/ Read(r) \/ Write(r) \/ Bump(r)
  \/ RedisThrows(r)

Arrive(r) ==
  \/ \E s \in Staff : Login(r, s)
  \/ \E d \in Sid : \/ Refresh(r, d) \/ Logout(r, d) \/ LogoutAll(r, d)
                    \/ ChangePassword(r, d)
  \/ \E d, target \in Sid : RevokeSession(r, d, target)

Next ==
  \/ \E r \in Calls : Arrive(r) \/ Step(r)
  \/ \E s \in Staff : EditStaff(s)
  \/ \E d \in Sid : ListSessions(d) \/ SessionExpires(d)
  \/ SetGym \/ RedisLost \/ Restart \/ Tick

Spec == Init /\ [][Next]_vars

-----------------------------------------------------------------------------
(* Every variable has its type. *)
TypeOK ==
  /\ gym \in {"ACTIVE", "SUSPENDED"}
  /\ staff \in [Staff -> [status : {"ACTIVE", "ARCHIVED"}, sv : Nat]]
  /\ hash \in [Sid -> Staff \cup {Null}]
  /\ listed \in [Staff -> SUBSET Sid]
  /\ token \in [Sid -> Token \cup {Null}]
  /\ call \in [Calls -> Call \cup {Idle}]
  /\ redis \in {"up", "lost"}
  /\ window \in [n : Nat, ttl : Nat]
  /\ epoch \in [Staff -> Nat]
  /\ forgotten \subseteq Sid

(* A staff member is signed out everywhere by logoutAll, by a password      *)
(* change that asks for it and by an edit of the row.  Whatever was under   *)
(* way then, a token that opens anything comes from a password checked      *)
(* since - unless the event fell between the check and the write of a       *)
(* password change, which then overtakes it.                                *)
OldProofsAreDead ==
  \A d \in Sid : Opens(d) /\ ~token[d].raced =>
    token[d].proof = epoch[token[d].who]

(* The other way round: a token from a password checked since the last such *)
(* event is of the current version - a sign-in beside any other call, or    *)
(* the one a password change ends with, never hands out a dead token.       *)
FreshProofsOpen ==
  \A d \in Sid : token[d] # Null =>
    (token[d].proof = epoch[token[d].who] =>
       token[d].sv = staff[token[d].who].sv)

(* Rotation: a session that was traded for a new one is gone before the new *)
(* one is handed out, wherever the trade was cut short.                     *)
RotatedIsGone ==
  \A d \in Sid : token[d] # Null /\ token[d].parent # Null =>
    hash[token[d].parent] = Null

(* A session made while revokeAllSessions runs loses its place on the list  *)
(* without being deleted.  After a logoutAll no such session can be used:   *)
(* the version is raised last, so its token was made from the row before.   *)
ForgottenAreUseless ==
  \A d \in forgotten : ~Refreshes(d)

(* The window an address is counted in ends when it would have ended after  *)
(* the first attempt, however often it tries meanwhile: a desk that is      *)
(* refused is let in again by waiting, whoever else hammers the door.       *)
WindowIsNotExtended ==
  [][window.n > 0 /\ window'.n > 0 => window'.ttl <= window.ttl]_vars
=============================================================================
