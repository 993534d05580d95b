------------------------------- MODULE Accounts -------------------------------
(***************************************************************************)
(* Sign-in, the session cookie and the inbox (routers/auth.py, deps.py,    *)
(* core/jwt_tokens.py, core/kakao_oauth.py, services/user_service.py,      *)
(* routers/notifications.py, services/notification_service.py).            *)
(*                                                                         *)
(* A browser that asks to sign in gets a state cookie and is sent to       *)
(* Kakao; Kakao's redirect carries the state and a code to the callback,   *)
(* which may be requested twice, or by another browser of the device.  The *)
(* callback talks to Kakao, finds or inserts the account under the unique  *)
(* key kakao_id, commits and sets the session cookie.  calls[r] is the     *)
(* database session of request r when it is a callback, clicks[r] when it  *)
(* marks notifications as read.                                            *)
(*                                                                         *)
(* Time is left out: the browser drops a cookie at its max_age, which for  *)
(* the session cookie is also when its token expires.                      *)
(***************************************************************************)
EXTENDS Naturals, FiniteSets

CONSTANTS
  Browsers,   \* cookie jars
  People,     \* Kakao accounts
  UserIds,    \* uuids for the rows of the users table
  States,     \* random state values: bound on the sign-ins started
  Requests,   \* requests that may be served at the same time
  Notices,    \* ids of the notifications table
  Nobody      \* NULL, no cookie, no user

ASSUME AccountsAssumption == Nobody \notin People \cup UserIds \cup States \cup Browsers

VARIABLES
  users,      \* users table: the Kakao id and the ban of each row
  jar,        \* the cookies of each browser: session token and OAuth state
  flows,      \* Kakao's side of each sign-in: where it began, who consented
  calls,      \* callbacks being served
  notices,    \* notifications table: owner and read_at IS NOT NULL
  pages,      \* the notifications each browser shows
  clicks      \* requests being served that mark notifications

vars == << users, jar, flows, calls, notices, pages, clicks >>

NoUser == [kakao |-> Nobody, is_banned |-> FALSE]
NoFlow == [browser |-> Nobody, person |-> Nobody, spent |-> FALSE]
NoCall == [pc |-> "idle", browser |-> Nobody, state |-> Nobody, user |-> Nobody, row |-> NoUser]
NoNotice == [owner |-> Nobody, read |-> FALSE]
NoClick == [pc |-> "idle", browser |-> Nobody, user |-> Nobody, ns |-> {}]

Init ==
  /\ users = [u \in UserIds |-> NoUser]
  /\ jar = [b \in Browsers |-> [session |-> Nobody, state |-> Nobody]]
  /\ flows = [s \in States |-> NoFlow]
  /\ calls = [r \in Requests |-> NoCall]
  /\ notices = [n \in Notices |-> NoNotice]
  /\ pages = [b \in Browsers |-> {}]
  /\ clicks = [r \in Requests |-> NoClick]

-----------------------------------------------------------------------------
(* Who is asking                                                           *)

\* The token names an account for as long as the browser keeps the cookie.
DecodeSessionToken(b) == jar[b].session

UserById(u) == IF u \in UserIds THEN users[u] ELSE NoUser

\* get_current_user: no cookie, no row and a ban all count as nobody.
Caller(b) ==
  LET u == DecodeSessionToken(b)
  IN  IF UserById(u) = NoUser \/ UserById(u).is_banned THEN Nobody ELSE u

-----------------------------------------------------------------------------
(* Sign-in                                                                 *)

\* GET /auth/kakao/authorize: a fresh state, which replaces an older one.
KakaoAuthorize(b) ==
  \E s \in States :
    /\ flows[s] = NoFlow
    /\ flows' = [flows EXCEPT ![s].browser = b]
    /\ jar' = [jar EXCEPT ![b].state = s]
    /\ UNCHANGED << users, calls, notices, pages, clicks >>

\* Somebody signs in at Kakao and consents: the redirect gets its code.
Consent(s, p) ==
  /\ flows[s].browser # Nobody /\ flows[s].person = Nobody
  /\ flows' = [flows EXCEPT ![s].person = p]
  /\ UNCHANGED << users, jar, calls, notices, pages, clicks >>

\* A request that may still become either.
Free(r) == calls[r] = NoCall /\ clicks[r] = NoClick

Serve(r, call) ==
  /\ calls' = [calls EXCEPT ![r] = call]
  /\ UNCHANGED << users, jar, flows, notices, pages, clicks >>

\* Mutant: any state cookie will do.
CallbackBeginAnyState(r, b, s) ==
  /\ Free(r)
  /\ flows[s].person # Nobody
  /\ jar[b].state # Nobody
  /\ Serve(r, [NoCall EXCEPT !.pc = "exchange", !.browser = b, !.state = s])

\* GET /auth/kakao/callback in browser b; 400 unless its cookie has the state.
CallbackBegin(r, b, s) ==
  /\ Free(r)
  /\ flows[s].person # Nobody
  /\ jar[b].state = s
  /\ Serve(r, [NoCall EXCEPT !.pc = "exchange", !.browser = b, !.state = s])

\* Kakao redeems a code once; a second redemption is answered with 502.
ExchangeCodeForToken(r) ==
  LET s == calls[r].state IN
  /\ calls[r].pc = "exchange"
  /\ ~flows[s].spent
  /\ flows' = [flows EXCEPT ![s].spent = TRUE]
  /\ calls' = [calls EXCEPT ![r].pc = "profile"]
  /\ UNCHANGED << users, jar, notices, pages, clicks >>

\* Who the access token belongs to.  All the model keeps of a profile is its id.
FetchProfile(r) ==
  /\ calls[r].pc = "profile"
  /\ Serve(r, [calls[r] EXCEPT !.pc = "upsert", !.row.kakao = flows[calls[r].state].person])

AccountsOf(p) == {u \in UserIds : users[u].kakao = p}

\* upsert_kakao_user: SELECT by kakao_id; a row is refreshed, or one is added.
UpsertRead(r) ==
  LET p == calls[r].row.kakao IN
  /\ calls[r].pc = "upsert"
  /\ IF AccountsOf(p) = {}
     THEN Serve(r, [calls[r] EXCEPT !.pc = "insert"])
     ELSE \E u \in AccountsOf(p) :
            Serve(r, [calls[r] EXCEPT !.pc = "commit", !.user = u, !.row = users[u]])

InsertedUser(q) == IF calls[q].pc = "added" THEN calls[q].user ELSE Nobody

\* Mutant: kakao_id has no unique key.
UpsertInsertAgain(r) ==
  /\ calls[r].pc = "insert"
  /\ \E u \in UserIds :
       /\ users[u] = NoUser /\ \A q \in Requests : InsertedUser(q) # u
       /\ Serve(r, [calls[r] EXCEPT !.pc = "added", !.user = u])

\* INSERT users: waits for a session that holds the key, fails if it is taken.
UpsertInsert(r) ==
  LET p == calls[r].row.kakao IN
  /\ calls[r].pc = "insert"
  /\ \A q \in Requests : calls[q].pc = "added" => calls[q].row.kakao # p
  /\ IF AccountsOf(p) # {} THEN Serve(r, NoCall)
     ELSE \E u \in UserIds :
            /\ users[u] = NoUser /\ \A q \in Requests : InsertedUser(q) # u
            /\ Serve(r, [calls[r] EXCEPT !.pc = "added", !.user = u])

\* Mutant: the UPDATE writes the whole copy back.
RefreshedRowWhole(copy, row) == copy

\* UPDATE users writes the profile columns, which are not modelled.
RefreshedRow(copy, row) == row

CallbackCommit(r) ==
  LET t == calls[r] IN
  /\ t.pc \in {"added", "commit"}
  /\ users' = [users EXCEPT ![t.user] =
                 IF t.pc = "added" THEN t.row ELSE RefreshedRow(t.row, @)]
  /\ calls' = [calls EXCEPT ![r].pc = "answer"]
  /\ UNCHANGED << jar, flows, notices, pages, clicks >>

\* The answer sets the session cookie and deletes whatever state cookie is there.
CallbackAnswer(r) ==
  LET t == calls[r] IN
  /\ t.pc = "answer"
  /\ jar' = [jar EXCEPT ![t.browser] = [session |-> t.user, state |-> Nobody]]
  /\ calls' = [calls EXCEPT ![r] = NoCall]
  /\ UNCHANGED << users, flows, notices, pages, clicks >>

\* Kakao fails (502), a statement fails, the process dies, the answer is lost.
CallbackFail(r) == calls[r] # NoCall /\ Serve(r, NoCall)

-----------------------------------------------------------------------------
(* The cookies end; the account is banned by its reputation.               *)

DropCookies(b, cookies) ==
  /\ cookies # jar[b]
  /\ jar' = [jar EXCEPT ![b] = cookies]
  /\ UNCHANGED << users, flows, calls, notices, pages, clicks >>

\* POST /auth/logout clears the cookie of this browser and nothing else.
Logout(b) == DropCookies(b, [jar[b] EXCEPT !.session = Nobody])

\* max_age of the session cookie, which is the exp of its token.
SessionExpires(b) == DropCookies(b, [jar[b] EXCEPT !.session = Nobody])

\* Five minutes after the authorize request.
StateExpires(b) == DropCookies(b, [jar[b] EXCEPT !.state = Nobody])

Ban(u) ==
  /\ users[u] # NoUser /\ ~users[u].is_banned
  /\ users' = [users EXCEPT ![u].is_banned = TRUE]
  /\ UNCHANGED << jar, flows, calls, notices, pages, clicks >>

-----------------------------------------------------------------------------
(* The inbox                                                               *)

\* A moderation or report handler leaves a notification for user u.
Notify(n, u) ==
  /\ notices[n] = NoNotice /\ users[u] # NoUser
  /\ notices' = [notices EXCEPT ![n].owner = u]
  /\ UNCHANGED << users, jar, flows, calls, pages, clicks >>

Inbox(u, only_unread) ==
  {n \in Notices : notices[n].owner = u /\ (only_unread => ~notices[n].read)}

\* GET /notifications
ListMyNotifications(b) ==
  /\ Caller(b) # Nobody
  /\ \E only_unread \in BOOLEAN :
       pages' = [pages EXCEPT ![b] = Inbox(Caller(b), only_unread)]
  /\ UNCHANGED << users, jar, flows, calls, notices, clicks >>

Click(r, click) ==
  /\ clicks' = [clicks EXCEPT ![r] = click]
  /\ UNCHANGED << users, jar, flows, calls, notices, pages >>

\* POST /notifications/{id}/read of one on the page, or POST
\* /notifications/read-all: authenticated once, as whoever the cookie names now.
AskToMark(r, b) ==
  /\ Free(r) /\ Caller(b) # Nobody
  /\ \/ \E n \in pages[b] :
          Click(r, [pc |-> "one", browser |-> b, user |-> Caller(b), ns |-> {n}])
     \/ Click(r, [pc |-> "all", browser |-> b, user |-> Caller(b), ns |-> {}])

\* Mutant: the notification is selected by its id alone.
MarkReadById(r) ==
  /\ clicks[r].pc = "one"
  /\ Click(r, [clicks[r] EXCEPT !.pc = "commit"])

\* SELECT by id and owner; 404 for a notification of anybody else.
MarkRead(r) ==
  /\ clicks[r].pc = "one"
  /\ Click(r, IF clicks[r].ns \subseteq Inbox(clicks[r].user, FALSE)
              THEN [clicks[r] EXCEPT !.pc = "commit"] ELSE NoClick)

\* UPDATE by owner: also those that arrived after the page.
MarkAllRead(r) ==
  /\ clicks[r].pc = "all"
  /\ Click(r, [clicks[r] EXCEPT !.pc = "commit", !.ns = Inbox(clicks[r].user, TRUE)])

\* By now the cookie may be gone, be somebody else's, or its account be banned.
MarkCommit(r) ==
  /\ clicks[r].pc = "commit"
  /\ notices' = [n \in Notices |->
                   IF n \in clicks[r].ns THEN [notices[n] EXCEPT !.read = TRUE] ELSE notices[n]]
  /\ clicks' = [clicks EXCEPT ![r] = NoClick]
  /\ UNCHANGED << users, jar, flows, calls, pages >>

\* A statement fails, or the process dies.
MarkFail(r) == clicks[r] # NoClick /\ Click(r, NoClick)

-----------------------------------------------------------------------------

Callback(r) ==
  \/ \E b \in Browsers, s \in States : CallbackBegin(r, b, s)
  \/ ExchangeCodeForToken(r)
  \/ FetchProfile(r)
  \/ UpsertRead(r)
  \/ UpsertInsert(r)
  \/ CallbackCommit(r)
  \/ CallbackAnswer(r)
  \/ CallbackFail(r)

Mark(r) ==
  \/ \E b \in Browsers : AskToMark(r, b)
  \/ MarkRead(r)
  \/ MarkAllRead(r)
  \/ MarkCommit(r)
  \/ MarkFail(r)

Browse(b) ==
  \/ KakaoAuthorize(b)
  \/ Logout(b)
  \/ SessionExpires(b)
  \/ StateExpires(b)
  \/ ListMyNotifications(b)

Next ==
  \/ \E r \in Requests : Callback(r) \/ Mark(r)
  \/ \E b \in Browsers : Browse(b)
  \/ \E s \in States, p \in People : Consent(s, p)
  \/ \E u \in UserIds : Ban(u) \/ \E n \in Notices : Notify(n, u)

Spec == Init /\ [][Next]_vars

-----------------------------------------------------------------------------
(* Properties                                                              *)

\* Type correctness of the tables, the cookies and the callbacks.
TypeOK ==
  /\ users \in [UserIds -> [kakao : People \cup {Nobody}, is_banned : BOOLEAN]]
  /\ jar \in [Browsers -> [session : UserIds \cup {Nobody}, state : States \cup {Nobody}]]
  /\ flows \in [States -> [browser : Browsers \cup {Nobody}, person : People \cup {Nobody},
                           spent : BOOLEAN]]
  /\ calls \in [Requests ->
                 [pc      : {"idle", "exchange", "profile", "upsert", "insert", "added", "commit", "answer"},
                  browser : Browsers \cup {Nobody},
                  state   : States \cup {Nobody},
                  user    : UserIds \cup {Nobody},
                  row     : [kakao : People \cup {Nobody}, is_banned : BOOLEAN]]]
  /\ notices \in [Notices -> [owner : UserIds \cup {Nobody}, read : BOOLEAN]]
  /\ pages \in [Browsers -> SUBSET Notices]
  /\ clicks \in [Requests -> [pc      : {"idle", "one", "all", "commit"},
                           browser : Browsers \cup {Nobody},
                           user    : UserIds \cup {Nobody},
                           ns      : SUBSET Notices]]

\* A person has one account, whatever first logins overlap, crash or are
\* repeated because their answer was lost (user_service.py:26).
OneAccountPerPerson ==
  \A p \in People : \A u, v \in AccountsOf(p) : u = v

\* Whom account u belongs to consented in a sign-in that began in browser b.
SignedInFrom(b, u) ==
  \E s \in States : /\ flows[s].browser = b
                    /\ flows[s].person = UserById(u).kakao
                    /\ flows[s].person # Nobody

\* The session cookie of a browser names the account of a person who consented
\* in a sign-in that began in this browser, wherever Kakao's redirect landed.
SignInLandsWhereItBegan ==
  \A b \in Browsers : jar[b].session # Nobody => SignedInFrom(b, jar[b].session)

Banned(p) == \E u \in AccountsOf(p) : users[u].is_banned

\* A ban sticks to the person: signing in again neither lifts it nor opens a
\* second account, and no browser passes as that person.
BanFollowsPerson ==
  [][\A p \in People : Banned(p) =>
       /\ Banned(p)'
       /\ \A b \in Browsers : UserById(Caller(b)).kakao' # p]_vars

\* A notification is marked read only by a request that its owner's session
\* authenticated, in a browser where the owner had signed in: whose page the
\* click was made on and who is signed in there at the commit do not matter.
ReadByRecipient ==
  [][\A n \in Notices : ~notices[n].read /\ notices'[n].read =>
       \E r \in Requests : /\ clicks[r].user = notices[n].owner
                           /\ SignedInFrom(clicks[r].browser, notices[n].owner)]_vars

=============================================================================
