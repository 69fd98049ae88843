---------------------------- MODULE AdminPipeline ----------------------------
(***************************************************************************)
(* A request of an employee through admin-api (backend/internal/httpapi/    *)
(* admin, backend/internal/staff/admin), and the cookie of the browser: the *)
(* layer of the session, CSRF, the validator and x-permission, then the     *)
(* handler, which looks at the session again under its locks.  Several tabs *)
(* share the cookie: a token is replaced by a new one while requests with   *)
(* the old one are under way, and answers come in any order or not at all.  *)
(* Limits and refused tokens are in RateLimit and AdminCookies, answers     *)
(* stored under a key in Idempotency.  A token is the number of its session. *)
(***************************************************************************)
EXTENDS EdgeClock, Sequences, FiniteSets

CONSTANTS
  Grace,   \* replacedGrace
  Transit  \* bound: the way of a request to the process, and of an answer back

ASSUME PipelineAssumption == Transit \in Nat /\ Grace \in Nat /\ Grace > 2 * Transit

VARIABLES
  seats,  \* seats[n]: the n-th session of the employee
  jar,    \* the token in the cookie of the browser, or 0
  sent    \* sent[c]: the request of tab c

pipeline == <<seats, jar, sent>>

Calls == {"login", "accept", "mfa", "unlock", "ack", "logout", "me", "own", "decide"}

Stages == {"mfa_pending", "setup", "active"}
Seat(stage, reauth) == [stage |-> stage, reauth |-> reauth, end |-> "", at |-> 0]
Home == [op |-> "none", pc |-> "home", token |-> 0, own |-> TRUE, who |-> 0, at |-> 0, since |-> 0,
         stage |-> "", reauth |-> FALSE, cookies |-> <<>>]

PipelineTypeOK ==
  /\ seats \in Seq([stage : Stages, reauth : BOOLEAN,
                    end : {"", "replaced", "ended"}, at : Nat])
  /\ jar \in 0..Len(seats)
  /\ \A c \in Clients : /\ sent[c].pc \in {"home", "way", "handler", "approve", "answer"}
                        /\ {sent[c].token, sent[c].who} \subseteq 0..Len(seats)

PipelineInit ==
  /\ \E stage \in Stages, reauth \in BOOLEAN :
       /\ reauth => stage = "active"
       /\ plan.part # "pipeline" => stage = "active" /\ ~reauth
       /\ seats = <<Seat(stage, reauth)>>
  /\ jar = 1 /\ sent = [c \in Clients |-> Home]

Seated(n) == n # 0 /\ seats[n].end = ""
Ended(S, n, end) == IF n # 0 /\ S[n].end = "" THEN [S EXCEPT ![n].end = end, ![n].at = IF end = "replaced" THEN now ELSE 0] ELSE S

(* A session ends from elsewhere: by its deadline, by a manager, with the   *)
(* account, from another browser.  One at the start may be idle too long.  *)
EndElsewhere(n) ==
  /\ plan.part = "pipeline" /\ Seated(n) /\ seats' = Ended(seats, n, "ended") /\ UNCHANGED <<clock, jar, sent>>

(* A tab sends a request; a page of another site, without the cookie        *)
(* (SameSite=Strict).                                                      *)
Send(c, op, own) ==
  /\ Arrival("pipeline") /\ sent[c] = Home
  /\ sent' = [sent EXCEPT ![c] = [Home EXCEPT !.op = op, !.pc = "way", !.own = own, !.at = now,
                                              !.since = now, !.token = IF own THEN jar ELSE 0]]
  /\ UNCHANGED <<seats, jar>>

-----------------------------------------------------------------------------
(* LoadStaff, one read: the session, a token just replaced, or no session:  *)
(* then the cookie is erased.                                              *)
JustReplaced(n) == seats[n].end = "replaced" /\ now - seats[n].at < Grace
ErasesReplaced(n) == n # 0 /\ ~Seated(n)
Erases(n) == n # 0 /\ ~Seated(n) /\ ~JustReplaced(n)

(* csrf, and x-permission with the validator's 401 before it.              *)
Safe(op) == op = "me"
CSRF(r) == Safe(r.op) \/ r.own
Permission(op) ==
  CASE op \in {"login", "accept"} -> "anonymous"
    [] op \in {"mfa", "unlock", "ack", "logout", "me"} -> "session"
    [] op \in {"own", "decide"} -> "active"
Permitted(r, who) ==
  LET p == Permission(r.op) IN
  \/ p = "anonymous"
  \/ who # 0 /\ (p = "session" \/ (seats[who].stage = "active" /\ ~seats[who].reauth))

Layers(c) ==
  LET r   == sent[c]
      who == IF Seated(r.token) THEN r.token ELSE 0
      on  == CSRF(r) /\ Permitted(r, who) IN
  /\ r.pc = "way"
  /\ sent' = [sent EXCEPT ![c] =
       [r EXCEPT !.pc = IF on THEN "handler" ELSE "answer", !.who = who, !.at = now,
                 !.stage = IF who = 0 THEN "" ELSE seats[who].stage, !.reauth = who # 0 /\ seats[who].reauth,
                 !.cookies = IF Erases(r.token) THEN <<0>> ELSE <<>>]]
  /\ UNCHANGED <<clock, seats, jar>>

(* The answer of the handler.  http.SetCookie adds to what the layer of the *)
(* session has set: the last cookie is the one that stays.                 *)
WithCookieFirst(r, cookie) == <<cookie>> \o r.cookies
WithCookie(r, cookie) == Append(r.cookies, cookie)
Answers(c, cookies) == sent' = [sent EXCEPT ![c].pc = "answer", ![c].at = now, ![c].cookies = cookies]
Replies(c) == Answers(c, sent[c].cookies)
Gives(c) == Answers(c, WithCookie(sent[c], Len(seats) + 1))
Clears(c) == Answers(c, WithCookie(sent[c], 0))

(* Anything without an effect: a limit, the schema, a right, a wrong stage, *)
(* password or code, the database, a stored answer under the key.          *)
RefuseCall(c) == sent[c].pc \in {"handler", "approve"} /\ Replies(c) /\ UNCHANGED <<clock, seats, jar>>

(* The session again under the locks: ErrSessionInvalid erases the cookie,  *)
(* ErrSessionReplaced does not.                                            *)
NoSession(n) == seats[n].end = "ended"
LostSession(c) ==
  /\ sent[c].pc \in {"handler", "approve"} /\ sent[c].op \in {"mfa", "unlock", "ack", "own", "decide"}
  /\ ~Seated(sent[c].who) /\ (IF NoSession(sent[c].who) THEN Clears(c) ELSE Replies(c))
  /\ UNCHANGED <<clock, seats, jar>>

(* Login: the session of the request is replaced; AcceptInvite: every       *)
(* session of the account is, and the one of the cookie, whatever LoadStaff *)
(* said of it.                                                             *)
Login(c) ==
  /\ sent[c].pc = "handler" /\ sent[c].op = "login"
  /\ seats' = Append(Ended(seats, sent[c].who, "replaced"), Seat("mfa_pending", FALSE)) /\ Gives(c)
  /\ UNCHANGED <<clock, jar>>
Accept(c) ==
  /\ sent[c].pc = "handler" /\ sent[c].op = "accept"
  /\ seats' = Append([n \in DOMAIN seats |-> Ended(seats, n, "replaced")[n]], Seat("setup", FALSE)) /\ Gives(c)
  /\ UNCHANGED <<clock, jar>>

(* VerifyMFA, Unlock, RecoveryAck: the stage that was loaded and the stage  *)
(* under the lock are the one each wants; the token is replaced.           *)
Wanted(op) == CASE op = "mfa" -> "mfa_pending" [] op = "unlock" -> "active" [] op = "ack" -> "setup"
Rotate(c) ==
  LET r == sent[c] IN
  /\ r.pc = "handler" /\ r.op \in {"mfa", "unlock", "ack"}
  /\ r.stage = Wanted(r.op) /\ (r.op = "unlock" => r.reauth) /\ Seated(r.who) /\ seats[r.who].stage = Wanted(r.op)
  /\ seats' = Append(Ended(seats, r.who, "replaced"), Seat("active", FALSE)) /\ Gives(c)
  /\ UNCHANGED <<clock, jar>>

(* Logout looks at nothing again: a session just replaced by another tab    *)
(* stays as it is, the cookie goes all the same.                           *)
Logout(c) ==
  /\ sent[c].pc = "handler" /\ sent[c].op = "logout"
  /\ seats' = Ended(seats, sent[c].who, "ended") /\ Clears(c) /\ UNCHANGED <<clock, jar>>

(* What an employee does with the account or a session of their own (n, or  *)
(* none); the cookie stays even if it is the session of this request.      *)
Me(c) == sent[c].pc = "handler" /\ sent[c].op = "me" /\ Replies(c) /\ UNCHANGED <<clock, seats, jar>>
Own(c, n) ==
  /\ sent[c].pc = "handler" /\ sent[c].op = "own" /\ Seated(sent[c].who)
  /\ seats' = Ended(seats, n, "ended") /\ Replies(c) /\ UNCHANGED <<clock, jar>>

(* A decision on an approval: the label of the decider without a lock, then *)
(* the transaction.                                                        *)
Label(c) ==
  /\ sent[c].pc = "handler" /\ sent[c].op = "decide" /\ Seated(sent[c].who)
  /\ sent' = [sent EXCEPT ![c].pc = "approve"] /\ UNCHANGED <<clock, seats, jar>>
DecideApproval(c) == sent[c].pc = "approve" /\ Seated(sent[c].who) /\ Replies(c) /\ UNCHANGED <<clock, seats, jar>>

-----------------------------------------------------------------------------
(* The browser applies the cookies of an answer in turn; or the answer is   *)
(* lost on the way.                                                        *)
Applied(cookies) == IF cookies = <<>> THEN jar ELSE cookies[Len(cookies)]
Receive(c) ==
  /\ sent[c].pc = "answer" /\ jar' = Applied(sent[c].cookies) /\ sent' = [sent EXCEPT ![c] = Home]
  /\ UNCHANGED <<clock, seats>>
LoseAnswer(c) ==
  /\ sent[c].pc = "answer" /\ sent' = [sent EXCEPT ![c] = Home] /\ UNCHANGED <<clock, seats, jar>>

(* What is on its way arrives, what is handled is answered in time.        *)
PipelineInTime ==
  \A c \in Clients : sent[c].pc # "home" =>
    now + Micro <= sent[c].at + IF sent[c].pc \in {"way", "answer"} THEN Transit ELSE Patience

PipelineNext ==
  \/ \E n \in DOMAIN seats : EndElsewhere(n)
  \/ \E c \in Clients :
       \/ (\E op \in Calls : Send(c, op, TRUE)) \/ (\E op \in {"login", "me"} : Send(c, op, FALSE))
       \/ Layers(c) \/ RefuseCall(c) \/ LostSession(c) \/ Login(c) \/ Accept(c) \/ Rotate(c) \/ Logout(c)
       \/ Me(c) \/ (\E n \in 0..Len(seats) : Own(c, n)) \/ Label(c) \/ DecideApproval(c)
       \/ Receive(c) \/ LoseAnswer(c)

-----------------------------------------------------------------------------
(* The browser does not lose a session that stands: the cookie is erased    *)
(* only by a logout, or by an answer to a request whose own session had     *)
(* ended otherwise than by being replaced, or had been replaced when the    *)
(* request was sent, longer ago than an answer is on its way: the browser   *)
(* had missed the new token.  A token given by an answer stays in the       *)
(* cookie, whatever the layer of the session had set before.  And no page   *)
(* of another site changes the cookie.                                     *)
Missed(r)  == seats[r.token].end = "replaced" /\ r.since > seats[r.token].at + Transit
OwnOver(r) == r.token # 0 /\ (seats[r.token].end = "ended" \/ Missed(r))
StaysSignedIn ==
  [][\A c \in Clients : Receive(c) =>
       /\ jar' = 0 /\ Seated(jar) => sent[c].op = "logout" \/ OwnOver(sent[c])
       /\ (\E i \in DOMAIN sent[c].cookies : sent[c].cookies[i] # 0) => jar' # 0
       /\ ~sent[c].own => jar' = jar]_<<clock, pipeline>>
=============================================================================
