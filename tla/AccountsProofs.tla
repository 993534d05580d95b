---------------------------- MODULE AccountsProofs ----------------------------
(***************************************************************************)
(* Proofs about sign-in, for any numbers of browsers, people, accounts,    *)
(* sign-ins and callbacks served at the same time: a person has one        *)
(* account, a session belongs to someone who signed in from that browser,  *)
(* and a ban follows the person.                                           *)
(*                                                                         *)
(* What is checked is not inductive: the account of a callback is right    *)
(* because the state it carries named its browser when it began, and two   *)
(* inserts do not collide because the first one holds its key.             *)
(* SignInsAgree says so.  MarksAgree says that a request that marks         *)
(* notifications still serves whom it was authenticated for.               *)
(***************************************************************************)
EXTENDS Accounts, TLAPS

-----------------------------------------------------------------------------
(* The inductive invariant                                                 *)

\* A state cookie names a sign-in that began in the browser that holds it.
StatesLead ==
  \A b \in Browsers : jar[b].state # Nobody => flows[jar[b].state].browser = b

\* What a callback holds belongs to the person who consented in its sign-in.
CallAgrees(t) ==
  \/ t = NoCall
  \/ /\ t.pc # "idle"
     /\ t.browser \in Browsers /\ t.state \in States
     /\ flows[t.state].browser = t.browser
     /\ flows[t.state].person \in People
     /\ t.pc \in {"exchange", "profile"} => t.row = NoUser
     /\ t.pc \in {"upsert", "insert", "added"} =>
          t.row.kakao = flows[t.state].person /\ ~t.row.is_banned
     /\ t.pc = "added" =>
          t.user \in UserIds /\ users[t.user] = NoUser /\ AccountsOf(t.row.kakao) = {}
     /\ t.pc \in {"commit", "answer"} =>
          t.user \in UserIds /\ users[t.user].kakao = flows[t.state].person

\* Uncommitted inserts differ in the id and in the key of their row.
InsertsDiffer ==
  \A q, r \in Requests :
    /\ calls[q].pc = "added" /\ calls[r].pc = "added"
    /\ calls[q].user = calls[r].user \/ calls[q].row.kakao = calls[r].row.kakao
    => q = r

SignInsAgree ==
  /\ StatesLead
  /\ \A r \in Requests : CallAgrees(calls[r])
  /\ InsertsDiffer

\* A request that marks notifications serves an account whose person had
\* signed in from its browser, and holds rows of that account only.
MarksAgree ==
  \A r \in Requests : clicks[r] # NoClick =>
    /\ clicks[r].browser \in Browsers /\ clicks[r].user \in UserIds
    /\ SignedInFrom(clicks[r].browser, clicks[r].user)
    /\ clicks[r].pc = "commit" =>
         \A n \in clicks[r].ns : notices[n].owner = clicks[r].user

IInv == TypeOK /\ SignInsAgree /\ OneAccountPerPerson /\ SignInLandsWhereItBegan /\ MarksAgree

-----------------------------------------------------------------------------
(* Types                                                                   *)

Row == [kakao : People \cup {Nobody}, is_banned : BOOLEAN]

Call ==
  [pc      : {"idle", "exchange", "profile", "upsert", "insert", "added", "commit", "answer"},
   browser : Browsers \cup {Nobody},
   state   : States \cup {Nobody},
   user    : UserIds \cup {Nobody},
   row     : Row]

Flow == [browser : Browsers \cup {Nobody}, person : People \cup {Nobody}, spent : BOOLEAN]

Cookies == [session : UserIds \cup {Nobody}, state : States \cup {Nobody}]

Notice == [owner : UserIds \cup {Nobody}, read : BOOLEAN]

Marking ==
  [pc      : {"idle", "one", "all", "commit"},
   browser : Browsers \cup {Nobody},
   user    : UserIds \cup {Nobody},
   ns      : SUBSET Notices]

\* An idle callback is a call.
LEMMA NoCallType == NoCall \in Call /\ NoUser \in Row
  BY DEF NoCall, NoUser, Call, Row

\* Replacing a callback by a well-typed one keeps the state well typed.
LEMMA ServeType ==
  ASSUME TypeOK, NEW r \in Requests, NEW call \in Call, Serve(r, call)
  PROVE  TypeOK'
  BY DEF TypeOK, Serve, Call, Row

\* What the invariant says of a callback that is being served.
LEMMA CallFacts ==
  ASSUME IInv, NEW r \in Requests, calls[r].pc # "idle"
  PROVE  /\ calls[r] \in Call
         /\ calls[r].state \in States /\ calls[r].browser \in Browsers
         /\ flows[calls[r].state] \in Flow
         /\ flows[calls[r].state].browser = calls[r].browser
         /\ flows[calls[r].state].person \in People
  <1>1. calls[r] \in Call
    BY DEF IInv, TypeOK, Call, Row
  <1>2. calls[r] # NoCall
    BY DEF NoCall
  <1>3. CallAgrees(calls[r])
    BY DEF IInv, SignInsAgree
  <1>4. flows \in [States -> Flow]
    BY DEF IInv, TypeOK, Flow
  <1> QED
    BY <1>1, <1>2, <1>3, <1>4 DEF CallAgrees

\* Every step of a callback keeps the state well typed.
LEMMA CallbackType ==
  ASSUME IInv, NEW r \in Requests, Callback(r)
  PROVE  TypeOK'
  <1> DEFINE t == calls[r]
  <1>0. TypeOK /\ t \in Call
    BY DEF IInv, TypeOK, Call, Row
  <1>1. ASSUME NEW b \in Browsers, NEW s \in States, CallbackBegin(r, b, s) PROVE TypeOK'
    <2>1. [NoCall EXCEPT !.pc = "exchange", !.browser = b, !.state = s] \in Call
      BY NoCallType DEF Call, NoCall
    <2> QED
      BY <1>0, <1>1, <2>1, ServeType DEF CallbackBegin
  <1>2. CASE ExchangeCodeForToken(r)
    <2>1. [t EXCEPT !.pc = "profile"] \in Call
      BY <1>0 DEF Call
    <2>2. calls' \in [Requests -> Call]
      BY <1>0, <1>2, <2>1 DEF ExchangeCodeForToken, TypeOK, Call, Row
    <2>3. [flows[t.state] EXCEPT !.spent = TRUE] \in Flow
      BY <1>2, CallFacts DEF ExchangeCodeForToken, Flow
    <2>4. flows' = [flows EXCEPT ![t.state] = [flows[t.state] EXCEPT !.spent = TRUE]]
      BY <1>2 DEF ExchangeCodeForToken
    <2>5. flows' \in [States -> Flow]
      BY <1>0, <2>3, <2>4 DEF TypeOK, Flow
    <2>6. UNCHANGED << users, jar, notices, pages, clicks >>
      BY <1>2 DEF ExchangeCodeForToken
    <2> QED
      BY <1>0, <2>2, <2>5, <2>6 DEF TypeOK, Call, Row, Flow
  <1>3. CASE FetchProfile(r)
    <2>1. flows[t.state].person \in People
      BY <1>3, CallFacts DEF FetchProfile
    <2>2. [t EXCEPT !.pc = "upsert", !.row.kakao = flows[t.state].person] \in Call
      BY <1>0, <2>1 DEF Call, Row
    <2> QED
      BY <1>0, <1>3, <2>2, ServeType DEF FetchProfile
  <1>4. CASE UpsertRead(r)
    <2>1. [t EXCEPT !.pc = "insert"] \in Call
      BY <1>0 DEF Call
    <2>2. \A u \in UserIds :
            [t EXCEPT !.pc = "commit", !.user = u, !.row = users[u]] \in Call
      BY <1>0 DEF TypeOK, Call, Row
    <2> QED
      BY <1>0, <1>4, <2>1, <2>2, ServeType DEF UpsertRead, AccountsOf
  <1>5. CASE UpsertInsert(r)
    <2>1. \A u \in UserIds : [t EXCEPT !.pc = "added", !.user = u] \in Call
      BY <1>0 DEF Call
    <2> QED
      BY <1>0, <1>5, <2>1, NoCallType, ServeType DEF UpsertInsert
  <1>6. CASE CallbackCommit(r)
    <2>1. [t EXCEPT !.pc = "answer"] \in Call
      BY <1>0 DEF Call
    <2>2. calls' \in [Requests -> Call]
      BY <1>0, <1>6, <2>1 DEF CallbackCommit, TypeOK, Call, Row
    <2>3. users' \in [UserIds -> Row]
      BY <1>0, <1>6 DEF CallbackCommit, RefreshedRow, TypeOK, Call, Row
    <2> QED
      BY <1>0, <1>6, <2>2, <2>3 DEF CallbackCommit, TypeOK, Call, Row
  <1>7. CASE CallbackAnswer(r)
    <2>1. calls' \in [Requests -> Call]
      BY <1>0, <1>7, NoCallType DEF CallbackAnswer, TypeOK, Call, Row
    <2>2. jar' \in [Browsers -> Cookies]
      BY <1>0, <1>7 DEF CallbackAnswer, TypeOK, Call, Cookies
    <2> QED
      BY <1>0, <1>7, <2>1, <2>2 DEF CallbackAnswer, TypeOK, Call, Row, Cookies
  <1>8. CASE CallbackFail(r)
    BY <1>0, <1>8, NoCallType, ServeType DEF CallbackFail
  <1> QED
    BY <1>1, <1>2, <1>3, <1>4, <1>5, <1>6, <1>7, <1>8 DEF Callback

\* Whatever cookies a browser drops, the state stays well typed.
LEMMA DropType ==
  ASSUME TypeOK, NEW b \in Browsers,
         NEW cookies \in Cookies,
         DropCookies(b, cookies)
  PROVE  TypeOK'
  BY DEF TypeOK, DropCookies, Cookies

\* Every step of a request that marks notifications keeps the state well typed.
LEMMA ClickType ==
  ASSUME TypeOK, NEW r \in Requests, NEW click \in Marking, Click(r, click)
  PROVE  TypeOK'
  BY DEF TypeOK, Click, Marking

\* An idle request marks nothing.
LEMMA NoClickType == NoClick \in Marking
  BY DEF NoClick, Marking

LEMMA MarkType ==
  ASSUME IInv, NEW r \in Requests, Mark(r)
  PROVE  TypeOK'
  <1>0. TypeOK /\ clicks[r] \in Marking /\ NoClick \in Marking
    BY NoClickType DEF IInv, TypeOK, Marking
  <1>1. ASSUME NEW b \in Browsers, AskToMark(r, b) PROVE TypeOK'
    <2>1. Caller(b) \in UserIds
      BY <1>1 DEF AskToMark, Caller, UserById
    <2>2. \A n \in pages[b] :
            [pc |-> "one", browser |-> b, user |-> Caller(b), ns |-> {n}] \in Marking
      BY <1>0, <2>1 DEF Marking, TypeOK
    <2>3. [pc |-> "all", browser |-> b, user |-> Caller(b), ns |-> {}] \in Marking
      BY <2>1 DEF Marking
    <2> QED
      BY <1>0, <1>1, <2>2, <2>3, ClickType DEF AskToMark
  <1>2. CASE MarkRead(r)
    <2>1. [clicks[r] EXCEPT !.pc = "commit"] \in Marking
      BY <1>0 DEF Marking
    <2> QED
      BY <1>0, <1>2, <2>1, ClickType DEF MarkRead
  <1>3. CASE MarkAllRead(r)
    <2>1. [clicks[r] EXCEPT !.pc = "commit", !.ns = Inbox(clicks[r].user, TRUE)] \in Marking
      BY <1>0 DEF Marking, Inbox
    <2> QED
      BY <1>0, <1>3, <2>1, ClickType DEF MarkAllRead
  <1>4. CASE MarkCommit(r)
    <2>1. ASSUME NEW n \in Notices
          PROVE  notices[n] \in Notice /\ [notices[n] EXCEPT !.read = TRUE] \in Notice
      <3>1. notices[n] \in Notice
        BY <1>0 DEF TypeOK, Notice
      <3> QED
        BY <3>1 DEF Notice
    <2>2. notices' \in [Notices -> Notice] /\ clicks' \in [Requests -> Marking]
      BY <1>0, <1>4, <2>1 DEF MarkCommit, TypeOK, Marking
    <2>3. UNCHANGED << users, jar, flows, calls, pages >>
      BY <1>4 DEF MarkCommit
    <2> QED
      BY <1>0, <2>2, <2>3 DEF TypeOK, Notice, Marking
  <1>5. CASE MarkFail(r)
    BY <1>0, <1>5, ClickType DEF MarkFail
  <1> QED
    BY <1>1, <1>2, <1>3, <1>4, <1>5 DEF Mark

\* Everything else keeps the state well typed.
LEMMA TypeStep ==
  ASSUME IInv, [Next]_vars
  PROVE  TypeOK'
  <1>0. TypeOK
    BY DEF IInv
  <1>1. ASSUME NEW r \in Requests, Callback(r) PROVE TypeOK'
    BY <1>1, CallbackType
  <1>2. ASSUME NEW b \in Browsers, KakaoAuthorize(b) PROVE TypeOK'
    <2>1. PICK s \in States :
            /\ flows' = [flows EXCEPT ![s] = [flows[s] EXCEPT !.browser = b]]
            /\ jar' = [jar EXCEPT ![b] = [jar[b] EXCEPT !.state = s]]
      BY <1>2 DEF KakaoAuthorize
    <2>2. [flows[s] EXCEPT !.browser = b] \in Flow
      <3>1. flows[s] \in Flow
        BY <1>0 DEF TypeOK, Flow
      <3> QED
        BY <3>1 DEF Flow
    <2>3. [jar[b] EXCEPT !.state = s] \in Cookies
      BY <1>0 DEF TypeOK, Cookies
    <2>4. flows' \in [States -> Flow] /\ jar' \in [Browsers -> Cookies]
      BY <1>0, <2>1, <2>2, <2>3 DEF TypeOK, Flow, Cookies
    <2>5. UNCHANGED << users, calls, notices, pages, clicks >>
      BY <1>2 DEF KakaoAuthorize
    <2> QED
      BY <1>0, <2>4, <2>5 DEF TypeOK, Flow, Cookies
  <1>3. ASSUME NEW b \in Browsers, Logout(b) \/ SessionExpires(b) PROVE TypeOK'
    <2>0. jar[b] \in Cookies
      BY <1>0 DEF TypeOK, Cookies
    <2>1. [jar[b] EXCEPT !.session = Nobody] \in Cookies
      BY <2>0 DEF Cookies
    <2> QED
      BY <1>0, <1>3, <2>1, DropType DEF Logout, SessionExpires
  <1>4. ASSUME NEW b \in Browsers, StateExpires(b) PROVE TypeOK'
    <2>0. jar[b] \in Cookies
      BY <1>0 DEF TypeOK, Cookies
    <2>1. [jar[b] EXCEPT !.state = Nobody] \in Cookies
      BY <2>0 DEF Cookies
    <2> QED
      BY <1>0, <1>4, <2>1, DropType DEF StateExpires
  <1>5. ASSUME NEW b \in Browsers, ListMyNotifications(b) PROVE TypeOK'
    BY <1>0, <1>5 DEF ListMyNotifications, Inbox, TypeOK
  <1>6. ASSUME NEW r \in Requests, Mark(r) PROVE TypeOK'
    BY <1>6, MarkType
  <1>8. ASSUME NEW s \in States, NEW p \in People, Consent(s, p) PROVE TypeOK'
    <2>1. flows[s] \in Flow
      BY <1>0 DEF TypeOK, Flow
    <2>2. [flows[s] EXCEPT !.person = p] \in Flow
      BY <2>1 DEF Flow
    <2>3. flows' = [flows EXCEPT ![s] = [flows[s] EXCEPT !.person = p]]
      BY <1>8 DEF Consent
    <2>4. flows' \in [States -> Flow]
      BY <1>0, <2>2, <2>3 DEF TypeOK, Flow
    <2>5. UNCHANGED << users, jar, calls, notices, pages, clicks >>
      BY <1>8 DEF Consent
    <2> QED
      BY <1>0, <2>4, <2>5 DEF TypeOK, Flow
  <1>9. ASSUME NEW u \in UserIds, Ban(u) PROVE TypeOK'
    <2>1. users[u] \in [kakao : People \cup {Nobody}, is_banned : BOOLEAN]
      BY <1>0, <1>9 DEF TypeOK
    <2>2. [users[u] EXCEPT !.is_banned = TRUE] \in [kakao : People \cup {Nobody}, is_banned : BOOLEAN]
      BY <2>1
    <2> QED
      BY <1>0, <1>9, <2>2 DEF Ban, TypeOK
  <1>10. ASSUME NEW u \in UserIds, NEW n \in Notices, Notify(n, u) PROVE TypeOK'
    <2>1. notices[n] \in Notice
      BY <1>0 DEF TypeOK, Notice
    <2>2. [notices[n] EXCEPT !.owner = u] \in Notice
      BY <2>1 DEF Notice
    <2>3. notices' = [notices EXCEPT ![n] = [notices[n] EXCEPT !.owner = u]]
      BY <1>10 DEF Notify
    <2>4. notices' \in [Notices -> Notice]
      BY <1>0, <2>2, <2>3 DEF TypeOK, Notice
    <2>5. UNCHANGED << users, jar, flows, calls, pages, clicks >>
      BY <1>10 DEF Notify
    <2> QED
      BY <1>0, <2>4, <2>5 DEF TypeOK, Notice
  <1>11. CASE UNCHANGED vars
    BY <1>0, <1>11 DEF vars, TypeOK
  <1> QED
    BY <1>1, <1>2, <1>3, <1>4, <1>5, <1>6, <1>8, <1>9, <1>10, <1>11
    DEF Next, Browse
-----------------------------------------------------------------------------
(* What no step takes back                                                 *)

\* Marking notifications changes nothing but them.
LEMMA MarkFrame ==
  ASSUME NEW r \in Requests, Mark(r)
  PROVE  UNCHANGED << users, jar, flows, calls, pages >>
  BY DEF Mark, AskToMark, MarkRead, MarkAllRead, MarkCommit, MarkFail, Click

\* A sign-in keeps its browser and its person, a row keeps its Kakao id.
Grows ==
  /\ \A s \in States :
       /\ flows[s].browser # Nobody => flows'[s].browser = flows[s].browser
       /\ flows[s].person # Nobody => flows'[s].person = flows[s].person
  /\ \A u \in UserIds : users[u].kakao # Nobody => users'[u].kakao = users[u].kakao

\* The users table as the commit of a callback leaves it: one new row, for a
\* person who has none, or no change.
LEMMA CommitFacts ==
  ASSUME IInv, NEW r \in Requests, CallbackCommit(r)
  PROVE  \/ /\ calls[r].pc = "commit" /\ users' = users
         \/ /\ calls[r].pc = "added"
            /\ users' = [users EXCEPT ![calls[r].user] = calls[r].row]
            /\ calls[r].user \in UserIds
            /\ users[calls[r].user] = NoUser
            /\ calls[r].row.kakao \in People
            /\ calls[r].row.is_banned = FALSE
            /\ AccountsOf(calls[r].row.kakao) = {}
  <1>1. calls[r].pc \in {"added", "commit"}
    BY DEF CallbackCommit
  <1>2. CallAgrees(calls[r])
    BY DEF IInv, SignInsAgree
  <1>3. calls[r] # NoCall
    BY <1>1 DEF NoCall
  <1>4. CASE calls[r].pc = "commit"
    <2>1. users' = [users EXCEPT ![calls[r].user] = users[calls[r].user]]
      BY <1>4 DEF CallbackCommit, RefreshedRow
    <2> QED
      BY <1>4, <2>1 DEF IInv, TypeOK
  <1>5. CASE calls[r].pc = "added"
    BY <1>2, <1>3, <1>5 DEF CallAgrees, CallbackCommit
  <1> QED
    BY <1>1, <1>4, <1>5

\* No step takes any of it back.
LEMMA StepGrows ==
  ASSUME IInv, [Next]_vars
  PROVE  Grows
  <1>0. TypeOK
    BY DEF IInv
  <1> DEFINE FlowsGrow == \A s \in States :
               /\ flows[s].browser # Nobody => flows'[s].browser = flows[s].browser
               /\ flows[s].person # Nobody => flows'[s].person = flows[s].person
             UsersGrow == \A u \in UserIds :
               users[u].kakao # Nobody => users'[u].kakao = users[u].kakao
  <1>1. FlowsGrow
    <2>1. ASSUME NEW r \in Requests, Callback(r) PROVE FlowsGrow
      <3>1. CASE ExchangeCodeForToken(r)
        <4>1. flows' = [flows EXCEPT ![calls[r].state] = [flows[calls[r].state] EXCEPT !.spent = TRUE]]
          BY <3>1 DEF ExchangeCodeForToken
        <4>2. calls[r].state \in States /\ flows[calls[r].state] \in Flow
          BY <3>1, CallFacts DEF ExchangeCodeForToken
        <4>3. flows \in [States -> Flow]
          BY <1>0 DEF TypeOK, Flow
        <4> QED
          BY <4>1, <4>2, <4>3 DEF Flow
      <3>2. CASE ~ExchangeCodeForToken(r)
        <4>1. UNCHANGED flows
          BY <2>1, <3>2 DEF Callback, CallbackBegin, FetchProfile, UpsertRead, UpsertInsert,
            CallbackCommit, CallbackAnswer, CallbackFail, Serve
        <4> QED
          BY <4>1
      <3> QED
        BY <3>1, <3>2
    <2>2. ASSUME NEW b \in Browsers, KakaoAuthorize(b) PROVE FlowsGrow
      <3>1. PICK s \in States :
              flows[s] = NoFlow /\ flows' = [flows EXCEPT ![s] = [flows[s] EXCEPT !.browser = b]]
        BY <2>2 DEF KakaoAuthorize
      <3> QED
        BY <1>0, <3>1 DEF TypeOK, NoFlow
    <2>3. ASSUME NEW b \in Browsers, Browse(b), ~KakaoAuthorize(b) PROVE FlowsGrow
      <3>1. UNCHANGED flows
        BY <2>3 DEF Browse, Logout, SessionExpires, StateExpires, DropCookies,
          ListMyNotifications
      <3> QED
        BY <3>1
    <2>4. ASSUME NEW s \in States, NEW p \in People, Consent(s, p) PROVE FlowsGrow
      <3>1. flows' = [flows EXCEPT ![s] = [flows[s] EXCEPT !.person = p]] /\ flows[s].person = Nobody
        BY <2>4 DEF Consent
      <3> QED
        BY <1>0, <3>1 DEF TypeOK
    <2>5. ASSUME NEW u \in UserIds, Ban(u) \/ \E n \in Notices : Notify(n, u) PROVE FlowsGrow
      BY <2>5 DEF Ban, Notify
    <2>6. CASE UNCHANGED vars
      BY <2>6 DEF vars
    <2>7. ASSUME NEW r \in Requests, Mark(r) PROVE FlowsGrow
      BY <2>7, MarkFrame
    <2> QED
      BY <2>1, <2>2, <2>3, <2>4, <2>5, <2>6, <2>7 DEF Next
  <1>2. UsersGrow
    <2>1. ASSUME NEW r \in Requests, CallbackCommit(r) PROVE UsersGrow
      <3>1. CASE users' = users
        BY <3>1
      <3>2. CASE /\ users' = [users EXCEPT ![calls[r].user] = calls[r].row]
                 /\ users[calls[r].user].kakao = Nobody
        BY <1>0, <3>2 DEF TypeOK
      <3>3. \/ users' = users
            \/ /\ users' = [users EXCEPT ![calls[r].user] = calls[r].row]
               /\ users[calls[r].user] = NoUser
        BY <2>1, CommitFacts
      <3>4. NoUser.kakao = Nobody
        BY DEF NoUser
      <3> QED
        BY <3>1, <3>2, <3>3, <3>4
    <2>2. ASSUME NEW r \in Requests, Callback(r), ~CallbackCommit(r) PROVE UsersGrow
      <3>1. UNCHANGED users
        BY <2>2 DEF Callback, CallbackBegin, ExchangeCodeForToken, FetchProfile, UpsertRead,
          UpsertInsert, CallbackAnswer, CallbackFail, Serve
      <3> QED
        BY <3>1
    <2>3. ASSUME NEW u \in UserIds, Ban(u) PROVE UsersGrow
      <3>1. users' = [users EXCEPT ![u] = [users[u] EXCEPT !.is_banned = TRUE]]
        BY <2>3 DEF Ban
      <3> QED
        BY <1>0, <3>1 DEF TypeOK
    <2>4. ASSUME NEW b \in Browsers, Browse(b) PROVE UsersGrow
      <3>1. UNCHANGED users
        BY <2>4 DEF Browse, KakaoAuthorize, Logout, SessionExpires, StateExpires, DropCookies,
          ListMyNotifications
      <3> QED
        BY <3>1
    <2>5. CASE (\E s \in States, p \in People : Consent(s, p))
                 \/ (\E u \in UserIds, n \in Notices : Notify(n, u)) \/ UNCHANGED vars
      BY <2>5 DEF Consent, Notify, vars
    <2>6. ASSUME NEW r \in Requests, Mark(r) PROVE UsersGrow
      BY <2>6, MarkFrame
    <2> QED
      BY <2>1, <2>2, <2>3, <2>4, <2>5, <2>6 DEF Next
  <1> QED
    BY <1>1, <1>2 DEF Grows

\* So whoever had signed in from a browser still has.
LEMMA SignInStays ==
  ASSUME IInv, Grows, NEW b, NEW u \in UserIds, SignedInFrom(b, u), b # Nobody
  PROVE  SignedInFrom(b, u)'
  <1>1. PICK s \in States : /\ flows[s].browser = b
                            /\ flows[s].person = UserById(u).kakao
                            /\ flows[s].person # Nobody
    BY DEF SignedInFrom
  <1>2. flows'[s].browser = b /\ flows'[s].person = flows[s].person
    BY <1>1 DEF Grows
  <1>3. users'[u].kakao = users[u].kakao
    BY <1>1 DEF Grows, UserById
  <1>4. UserById(u)' = users'[u]
    BY DEF UserById
  <1> QED
    BY <1>1, <1>2, <1>3, <1>4 DEF SignedInFrom, UserById
-----------------------------------------------------------------------------
(* The cookies                                                             *)

\* Which steps write a cookie: the start of a sign-in, the answer of one, and
\* the steps that only take cookies away.
LEMMA JarFacts ==
  ASSUME IInv, [Next]_vars, NEW b \in Browsers
  PROVE  \/ /\ KakaoAuthorize(b)
            /\ jar'[b].session = jar[b].session
         \/ \E r \in Requests :
              /\ CallbackAnswer(r) /\ calls[r].browser = b
              /\ jar'[b].session = calls[r].user /\ jar'[b].state = Nobody
         \/ /\ jar'[b].session \in {jar[b].session, Nobody}
            /\ jar'[b].state \in {jar[b].state, Nobody}
  <1>0. jar \in [Browsers -> Cookies]
    BY DEF IInv, TypeOK, Cookies
  <1> DEFINE Less == /\ jar'[b].session \in {jar[b].session, Nobody}
                     /\ jar'[b].state \in {jar[b].state, Nobody}
  <1>1. ASSUME NEW c \in Browsers, KakaoAuthorize(c)
        PROVE  \/ c # b /\ Less
               \/ c = b /\ jar'[b].session = jar[b].session
    <2>1. PICK s \in States : jar' = [jar EXCEPT ![c] = [jar[c] EXCEPT !.state = s]]
      BY <1>1 DEF KakaoAuthorize
    <2> QED
      BY <1>0, <2>1 DEF Cookies
  <1>2. ASSUME NEW r \in Requests, CallbackAnswer(r)
        PROVE  \/ calls[r].browser # b /\ Less
               \/ /\ calls[r].browser = b
                  /\ jar'[b].session = calls[r].user /\ jar'[b].state = Nobody
    BY <1>0, <1>2 DEF CallbackAnswer
  <1>3. ASSUME NEW c \in Browsers, Logout(c) \/ SessionExpires(c) PROVE Less
    <2>1. jar' = [jar EXCEPT ![c] = [jar[c] EXCEPT !.session = Nobody]]
      BY <1>3 DEF Logout, SessionExpires, DropCookies
    <2> QED
      BY <1>0, <2>1 DEF Cookies
  <1>4. ASSUME NEW c \in Browsers, StateExpires(c) PROVE Less
    <2>1. jar' = [jar EXCEPT ![c] = [jar[c] EXCEPT !.state = Nobody]]
      BY <1>4 DEF StateExpires, DropCookies
    <2> QED
      BY <1>0, <2>1 DEF Cookies
  <1>5. ASSUME UNCHANGED jar PROVE Less
    BY <1>5
  <1>6. ASSUME NEW c \in Browsers, Browse(c)
        PROVE  \/ KakaoAuthorize(c) \/ Logout(c) \/ SessionExpires(c) \/ StateExpires(c)
               \/ UNCHANGED jar
    BY <1>6 DEF Browse, ListMyNotifications
  <1>7. ASSUME NEW r \in Requests, Callback(r)
        PROVE  CallbackAnswer(r) \/ UNCHANGED jar
    BY <1>7 DEF Callback, CallbackBegin, ExchangeCodeForToken, FetchProfile, UpsertRead,
      UpsertInsert, CallbackCommit, CallbackFail, Serve
  <1>8. ASSUME (\E s \in States, p \in People : Consent(s, p))
                 \/ (\E u \in UserIds : Ban(u) \/ \E n \in Notices : Notify(n, u))
                 \/ UNCHANGED vars
        PROVE  UNCHANGED jar
    BY <1>8 DEF Consent, Ban, Notify, vars
  <1>9. ASSUME NEW r \in Requests, Mark(r) PROVE UNCHANGED jar
    BY <1>9, MarkFrame
  <1> QED
    BY <1>1, <1>2, <1>3, <1>4, <1>5, <1>6, <1>7, <1>8, <1>9 DEF Next

\* A state cookie still names a sign-in of its browser.
LEMMA StatesLeadStep ==
  ASSUME IInv, [Next]_vars
  PROVE  StatesLead'
  <1> SUFFICES ASSUME NEW b \in Browsers, jar'[b].state # Nobody
               PROVE  flows'[jar'[b].state].browser = b
    BY DEF StatesLead
  <1>0. TypeOK /\ StatesLead
    BY DEF IInv, SignInsAgree
  <1>1. CASE KakaoAuthorize(b)
    <2>1. PICK s \in States :
            /\ flows' = [flows EXCEPT ![s] = [flows[s] EXCEPT !.browser = b]]
            /\ jar' = [jar EXCEPT ![b] = [jar[b] EXCEPT !.state = s]]
      BY <1>1 DEF KakaoAuthorize
    <2> QED
      BY <1>0, <2>1 DEF TypeOK
  <1>2. CASE jar'[b].state = jar[b].state
    <2>1. jar[b].state \in States
      BY <1>0, <1>2 DEF TypeOK
    <2>2. flows[jar[b].state].browser = b
      BY <1>0, <1>2 DEF StatesLead
    <2> QED
      BY <1>2, <2>1, <2>2, StepGrows, AccountsAssumption DEF Grows
  <1> QED
    BY <1>1, <1>2, JarFacts

\* A session cookie still belongs to someone who signed in from its browser.
LEMMA SignInLandsStep ==
  ASSUME IInv, [Next]_vars
  PROVE  SignInLandsWhereItBegan'
  <1> SUFFICES ASSUME NEW b \in Browsers, jar'[b].session # Nobody
               PROVE  \E s \in States : /\ flows'[s].browser = b
                                        /\ flows'[s].person = UserById(jar[b].session).kakao'
                                        /\ flows'[s].person # Nobody
    BY DEF SignInLandsWhereItBegan, SignedInFrom
  <1>0. Grows
    BY StepGrows
  <1>1. CASE jar'[b].session = jar[b].session
    <2>1. jar[b].session \in UserIds /\ SignedInFrom(b, jar[b].session)
      BY <1>1 DEF IInv, TypeOK, SignInLandsWhereItBegan
    <2>2. PICK u \in UserIds : u = jar[b].session
      BY <2>1
    <2>3. SignedInFrom(b, u)'
      BY <1>0, <2>1, <2>2, SignInStays, AccountsAssumption
    <2> QED
      BY <1>1, <2>2, <2>3 DEF SignedInFrom, UserById
  <1>2. ASSUME NEW r \in Requests, CallbackAnswer(r), calls[r].browser = b,
               jar'[b].session = calls[r].user
        PROVE  \E s \in States : /\ flows'[s].browser = b
                                 /\ flows'[s].person = UserById(jar[b].session).kakao'
                                 /\ flows'[s].person # Nobody
    <2> DEFINE t == calls[r]
    <2>1. t.pc = "answer"
      BY <1>2 DEF CallbackAnswer
    <2>2. CallAgrees(t) /\ t # NoCall
      BY <2>1 DEF IInv, SignInsAgree, NoCall
    <2>3. /\ t.state \in States /\ flows[t.state].browser = b
          /\ flows[t.state].person \in People
          /\ t.user \in UserIds /\ users[t.user].kakao = flows[t.state].person
      BY <1>2, <2>1, <2>2 DEF CallAgrees
    <2>4. flows' = flows /\ users' = users
      BY <1>2 DEF CallbackAnswer
    <2>5. UserById(jar[b].session)' = users[t.user]
      BY <1>2, <2>3, <2>4 DEF UserById
    <2> QED
      BY <2>3, <2>4, <2>5, AccountsAssumption
  <1> QED
    BY <1>1, <1>2, JarFacts
-----------------------------------------------------------------------------
(* The callbacks                                                           *)

\* Only a callback's own step changes what it holds.
LEMMA OwnStep ==
  ASSUME IInv, [Next]_vars, NEW q \in Requests, calls'[q] # calls[q]
  PROVE  Callback(q)
  <1>0. calls \in [Requests -> Call]
    BY DEF IInv, TypeOK, Call, Row
  <1>1. ASSUME NEW r \in Requests, Callback(r), r # q PROVE calls'[q] = calls[q]
    BY <1>0, <1>1 DEF Callback, CallbackBegin, ExchangeCodeForToken, FetchProfile, UpsertRead,
      UpsertInsert, CallbackCommit, CallbackAnswer, CallbackFail, Serve
  <1>2. ASSUME NEW b \in Browsers, Browse(b) PROVE UNCHANGED calls
    BY <1>2 DEF Browse, KakaoAuthorize, Logout, SessionExpires, StateExpires, DropCookies,
      ListMyNotifications
  <1>3. ASSUME (\E s \in States, p \in People : Consent(s, p))
                 \/ (\E u \in UserIds : Ban(u) \/ \E n \in Notices : Notify(n, u))
                 \/ UNCHANGED vars
        PROVE  UNCHANGED calls
    BY <1>3 DEF Consent, Ban, Notify, vars
  <1>4. ASSUME NEW r \in Requests, Mark(r) PROVE UNCHANGED calls
    BY <1>4, MarkFrame
  <1> QED
    BY <1>1, <1>2, <1>3, <1>4 DEF Next

\* Which steps write the users table: a commit and a ban.
LEMMA UsersFacts ==
  ASSUME IInv, [Next]_vars
  PROVE  \/ users' = users
         \/ \E u \in UserIds : Ban(u)
         \/ \E r \in Requests : CallbackCommit(r) /\ calls[r].pc = "added"
  <1>1. ASSUME NEW r \in Requests, Callback(r)
        PROVE  users' = users \/ CallbackCommit(r)
    BY <1>1 DEF Callback, CallbackBegin, ExchangeCodeForToken, FetchProfile, UpsertRead,
      UpsertInsert, CallbackAnswer, CallbackFail, Serve
  <1>2. ASSUME NEW r \in Requests, CallbackCommit(r)
        PROVE  users' = users \/ calls[r].pc = "added"
    BY <1>2, CommitFacts
  <1>3. ASSUME NEW b \in Browsers, Browse(b) PROVE users' = users
    BY <1>3 DEF Browse, KakaoAuthorize, Logout, SessionExpires, StateExpires, DropCookies,
      ListMyNotifications
  <1>4. ASSUME (\E s \in States, p \in People : Consent(s, p))
                 \/ (\E u \in UserIds, n \in Notices : Notify(n, u)) \/ UNCHANGED vars
        PROVE  users' = users
    BY <1>4 DEF Consent, Notify, vars
  <1>5. ASSUME NEW r \in Requests, Mark(r) PROVE users' = users
    BY <1>5, MarkFrame
  <1> QED
    BY <1>1, <1>2, <1>3, <1>4, <1>5 DEF Next

\* An insert that waits for its commit keeps its id and its key free.
LEMMA AddedStays ==
  ASSUME IInv, [Next]_vars, NEW q \in Requests, calls'[q] = calls[q], calls[q].pc = "added"
  PROVE  /\ users'[calls[q].user] = NoUser
         /\ AccountsOf(calls[q].row.kakao)' = {}
  <1> DEFINE t == calls[q]
  <1>0. users \in [UserIds -> Row]
    BY DEF IInv, TypeOK, Row
  <1>1. CallAgrees(t) /\ t # NoCall
    BY DEF IInv, SignInsAgree, NoCall
  <1>2. t.user \in UserIds /\ users[t.user] = NoUser /\ AccountsOf(t.row.kakao) = {}
    BY <1>1 DEF CallAgrees
  <1>3. calls'[q].row.kakao = t.row.kakao
    OBVIOUS
  <1>4. CASE users' = users
    BY <1>2, <1>3, <1>4 DEF AccountsOf
  <1>5. ASSUME NEW u \in UserIds, Ban(u)
        PROVE  users'[t.user] = NoUser /\ AccountsOf(t.row.kakao)' = {}
    <2>1. users' = [users EXCEPT ![u] = [users[u] EXCEPT !.is_banned = TRUE]] /\ users[u] # NoUser
      BY <1>5 DEF Ban
    <2>2. \A v \in UserIds : users'[v].kakao = users[v].kakao
      BY <1>0, <2>1 DEF Row
    <2>3. users'[t.user] = NoUser
      BY <1>0, <1>2, <2>1
    <2> QED
      BY <1>2, <1>3, <2>2, <2>3 DEF AccountsOf
  <1>6. ASSUME NEW r \in Requests, CallbackCommit(r), calls[r].pc = "added"
        PROVE  users'[t.user] = NoUser /\ AccountsOf(t.row.kakao)' = {}
    <2>1. /\ users' = [users EXCEPT ![calls[r].user] = calls[r].row]
          /\ calls[r].user \in UserIds
      BY <1>6, CommitFacts
    <2>2. calls'[r].pc = "answer"
      BY <1>6 DEF CallbackCommit, IInv, TypeOK
    <2>3. r # q
      BY <2>2
    <2>4. calls[r].user # t.user /\ calls[r].row.kakao # t.row.kakao
      BY <1>6, <2>3 DEF IInv, SignInsAgree, InsertsDiffer
    <2>5. users'[t.user] = NoUser
      BY <1>0, <1>2, <2>1, <2>4
    <2>6. \A v \in UserIds : users'[v].kakao # t.row.kakao
      BY <1>0, <1>2, <2>1, <2>4 DEF AccountsOf
    <2> QED
      BY <1>3, <2>5, <2>6 DEF AccountsOf
  <1> QED
    BY <1>4, <1>5, <1>6, UsersFacts
\* A callback that does not move still agrees with its sign-in.
LEMMA CallStays ==
  ASSUME IInv, [Next]_vars, NEW q \in Requests, calls'[q] = calls[q]
  PROVE  CallAgrees(calls[q])'
  <1> DEFINE t == calls[q]
  <1>1. CallAgrees(t)
    BY DEF IInv, SignInsAgree
  <1>2. CASE t = NoCall
    BY <1>2 DEF CallAgrees, NoCall, NoUser
  <1>3. CASE t # NoCall
    <2>1. /\ t.pc # "idle"
          /\ t.browser \in Browsers /\ t.state \in States
          /\ flows[t.state].browser = t.browser
          /\ flows[t.state].person \in People
          /\ t.pc \in {"commit", "answer"} =>
               t.user \in UserIds /\ users[t.user].kakao = flows[t.state].person
      BY <1>1, <1>3 DEF CallAgrees
    <2>2. /\ flows'[t.state].browser = t.browser
          /\ flows'[t.state].person = flows[t.state].person
      BY <2>1, StepGrows, AccountsAssumption DEF Grows
    <2>3. t.pc \in {"commit", "answer"} => users'[t.user].kakao = users[t.user].kakao
      BY <2>1, StepGrows, AccountsAssumption DEF Grows
    <2>4. t.pc = "added" =>
            /\ t.user \in UserIds
            /\ users'[t.user] = NoUser /\ AccountsOf(t.row.kakao)' = {}
      BY <1>1, <1>3, AddedStays DEF CallAgrees
    <2>5. /\ t.pc \in {"exchange", "profile"} => t.row = NoUser
          /\ t.pc \in {"upsert", "insert", "added"} =>
               t.row.kakao = flows[t.state].person /\ ~t.row.is_banned
      BY <1>1, <1>3 DEF CallAgrees
    <2> QED
      BY <2>1, <2>2, <2>3, <2>4, <2>5 DEF CallAgrees, NoUser
  <1> QED
    BY <1>2, <1>3

\* A callback that moves agrees with its sign-in again.
LEMMA CallMoves ==
  ASSUME IInv, NEW r \in Requests, Callback(r)
  PROVE  CallAgrees(calls[r])'
  <1> DEFINE t == calls[r]
  <1>0. calls \in [Requests -> Call]
    BY DEF IInv, TypeOK, Call, Row
  <1>a. t \in Call /\ CallAgrees(t)
    BY <1>0 DEF IInv, SignInsAgree
  <1>b. ASSUME t.pc # "idle"
        PROVE  /\ t.browser \in Browsers /\ t.state \in States
               /\ flows[t.state].browser = t.browser
               /\ flows[t.state].person \in People
               /\ t.pc \in {"exchange", "profile"} => t.row = NoUser
               /\ t.pc \in {"upsert", "insert", "added"} =>
                    t.row.kakao = flows[t.state].person /\ ~t.row.is_banned
               /\ t.pc \in {"commit", "answer"} =>
                    t.user \in UserIds /\ users[t.user].kakao = flows[t.state].person
    BY <1>a, <1>b DEF CallAgrees, NoCall
  <1>1. ASSUME NEW b \in Browsers, NEW s \in States, CallbackBegin(r, b, s)
        PROVE  CallAgrees(calls[r])'
    <2>1. /\ calls'[r] = [NoCall EXCEPT !.pc = "exchange", !.browser = b, !.state = s]
          /\ flows' = flows
      BY <1>0, <1>1 DEF CallbackBegin, Serve
    <2>2. flows[s].browser = b
      BY <1>1, AccountsAssumption DEF IInv, SignInsAgree, StatesLead, CallbackBegin
    <2>3. flows[s].person \in People
      BY <1>1 DEF IInv, TypeOK, CallbackBegin
    <2> QED
      BY <2>1, <2>2, <2>3 DEF CallAgrees, NoCall, NoUser
  <1>2. CASE ExchangeCodeForToken(r)
    <2>1. t.pc = "exchange"
      BY <1>2 DEF ExchangeCodeForToken
    <2>2. /\ calls'[r] = [t EXCEPT !.pc = "profile"]
          /\ flows' = [flows EXCEPT ![t.state] = [flows[t.state] EXCEPT !.spent = TRUE]]
      BY <1>0, <1>2 DEF ExchangeCodeForToken
    <2>3. flows[t.state] \in Flow /\ flows \in [States -> Flow]
      BY <2>1, CallFacts DEF IInv, TypeOK, Flow
    <2>4. /\ flows'[t.state].browser = flows[t.state].browser
          /\ flows'[t.state].person = flows[t.state].person
      BY <1>b, <2>1, <2>2, <2>3 DEF Flow
    <2>5. /\ calls'[r].pc = "profile" /\ calls'[r].browser = t.browser
          /\ calls'[r].state = t.state /\ calls'[r].row = t.row
      BY <1>a, <2>2 DEF Call
    <2> QED
      BY <1>b, <2>1, <2>4, <2>5 DEF CallAgrees, NoUser
  <1>3. CASE FetchProfile(r)
    <2>1. t.pc = "profile"
      BY <1>3 DEF FetchProfile
    <2>2. /\ calls'[r] = [t EXCEPT !.pc = "upsert", !.row.kakao = flows[t.state].person]
          /\ flows' = flows
      BY <1>0, <1>3 DEF FetchProfile, Serve
    <2>3. calls'[r].row.kakao = flows[t.state].person /\ ~calls'[r].row.is_banned
      <3>1. calls'[r].row = [t.row EXCEPT !.kakao = flows[t.state].person]
        BY <1>a, <2>2 DEF Call
      <3>2. t.row = NoUser
        BY <1>b, <2>1
      <3> QED
        BY <3>1, <3>2 DEF NoUser
    <2>4. /\ calls'[r].pc = "upsert" /\ calls'[r].browser = t.browser
          /\ calls'[r].state = t.state
      BY <1>a, <2>2 DEF Call
    <2> QED
      BY <1>b, <2>1, <2>2, <2>3, <2>4 DEF CallAgrees
  <1>4. CASE UpsertRead(r)
    <2>1. t.pc = "upsert" /\ flows' = flows /\ users' = users
      BY <1>4 DEF UpsertRead, Serve
    <2>2. CASE calls'[r] = [t EXCEPT !.pc = "insert"]
      <3>1. /\ calls'[r].pc = "insert" /\ calls'[r].browser = t.browser
            /\ calls'[r].state = t.state /\ calls'[r].row = t.row
        BY <1>a, <2>2 DEF Call
      <3> QED
        BY <1>b, <2>1, <3>1 DEF CallAgrees
    <2>3. ASSUME NEW u \in AccountsOf(t.row.kakao),
                 calls'[r] = [t EXCEPT !.pc = "commit", !.user = u, !.row = users[u]]
          PROVE  CallAgrees(calls[r])'
      <3>1. /\ calls'[r].pc = "commit" /\ calls'[r].browser = t.browser
            /\ calls'[r].state = t.state /\ calls'[r].user = u
        BY <1>a, <2>3 DEF Call
      <3>2. u \in UserIds /\ users[u].kakao = flows[t.state].person
        BY <1>b, <2>1 DEF AccountsOf
      <3> QED
        BY <1>b, <2>1, <3>1, <3>2 DEF CallAgrees
    <2> QED
      BY <1>0, <1>4, <2>2, <2>3 DEF UpsertRead, Serve
  <1>5. CASE UpsertInsert(r)
    <2>1. t.pc = "insert" /\ flows' = flows /\ users' = users
      BY <1>5 DEF UpsertInsert, Serve
    <2>2. CASE calls'[r] = NoCall
      BY <2>2 DEF CallAgrees, NoCall, NoUser
    <2>3. ASSUME NEW u \in UserIds, users[u] = NoUser, AccountsOf(t.row.kakao) = {},
                 calls'[r] = [t EXCEPT !.pc = "added", !.user = u]
          PROVE  CallAgrees(calls[r])'
      <3>1. /\ calls'[r].pc = "added" /\ calls'[r].browser = t.browser
            /\ calls'[r].state = t.state /\ calls'[r].row = t.row /\ calls'[r].user = u
        BY <1>a, <2>3 DEF Call
      <3>2. AccountsOf(calls[r].row.kakao)' = {}
        BY <2>1, <2>3, <3>1 DEF AccountsOf
      <3> QED
        BY <1>b, <2>1, <2>3, <3>1, <3>2 DEF CallAgrees, NoUser
    <2> QED
      BY <1>0, <1>5, <2>2, <2>3 DEF UpsertInsert, Serve
  <1>6. CASE CallbackCommit(r)
    <2>1. /\ t.pc \in {"added", "commit"} /\ flows' = flows
          /\ calls'[r] = [t EXCEPT !.pc = "answer"]
      BY <1>0, <1>6 DEF CallbackCommit
    <2>2. /\ calls'[r].pc = "answer" /\ calls'[r].browser = t.browser
          /\ calls'[r].state = t.state /\ calls'[r].user = t.user
      BY <1>a, <2>1 DEF Call
    <2>3. t.user \in UserIds /\ users'[t.user].kakao = flows[t.state].person
      <3>1. CASE t.pc = "commit" /\ users' = users
        BY <1>b, <3>1
      <3>2. CASE t.pc = "added" /\ users' = [users EXCEPT ![t.user] = t.row] /\ t.user \in UserIds
        <4>1. users'[t.user] = t.row
          BY <3>2 DEF IInv, TypeOK
        <4>2. t.row.kakao = flows[t.state].person
          BY <1>b, <3>2
        <4> QED
          BY <3>2, <4>1, <4>2
      <3> QED
        BY <1>6, <3>1, <3>2, CommitFacts
    <2> QED
      BY <1>b, <2>1, <2>2, <2>3 DEF CallAgrees
  <1>7. CASE CallbackAnswer(r) \/ CallbackFail(r)
    <2>1. calls'[r] = NoCall
      BY <1>0, <1>7 DEF CallbackAnswer, CallbackFail, Serve
    <2> QED
      BY <2>1 DEF CallAgrees, NoCall, NoUser
  <1> QED
    BY <1>1, <1>2, <1>3, <1>4, <1>5, <1>6, <1>7 DEF Callback
\* Two inserts that wait for their commits still differ: a new one waited for
\* the key of every other, and took an id none of them took.
LEMMA InsertsDifferStep ==
  ASSUME IInv, [Next]_vars
  PROVE  InsertsDiffer'
  <1>0. calls \in [Requests -> Call]
    BY DEF IInv, TypeOK, Call, Row
  <1> DEFINE Clash(s, t) == s.user = t.user \/ s.row.kakao = t.row.kakao
  <1>1. ASSUME NEW q \in Requests, calls'[q].pc = "added", calls'[q] # calls[q]
        PROVE  /\ UpsertInsert(q)
               /\ \A r \in Requests \ {q} : calls'[r] = calls[r]
               /\ \A r \in Requests \ {q} : calls[r].pc = "added" => ~Clash(calls'[q], calls[r])
    <2>1. Callback(q)
      BY <1>1, OwnStep
    <2>2. UpsertInsert(q)
      <3>1. ASSUME NEW b \in Browsers, NEW s \in States, CallbackBegin(q, b, s) PROVE FALSE
        BY <1>0, <1>1, <3>1 DEF CallbackBegin, Serve, NoCall
      <3>2. CASE ExchangeCodeForToken(q)
        BY <1>0, <1>1, <3>2 DEF ExchangeCodeForToken, Call
      <3>3. CASE FetchProfile(q)
        BY <1>0, <1>1, <3>3 DEF FetchProfile, Serve, Call
      <3>4. CASE UpsertRead(q)
        BY <1>0, <1>1, <3>4 DEF UpsertRead, Serve, Call
      <3>5. CASE CallbackCommit(q)
        BY <1>0, <1>1, <3>5 DEF CallbackCommit, Call
      <3>6. CASE CallbackAnswer(q) \/ CallbackFail(q)
        BY <1>0, <1>1, <3>6 DEF CallbackAnswer, CallbackFail, Serve, NoCall
      <3> QED
        BY <2>1, <3>1, <3>2, <3>3, <3>4, <3>5, <3>6 DEF Callback
    <2>3. \A r \in Requests \ {q} : calls'[r] = calls[r]
      BY <1>0, <2>2 DEF UpsertInsert, Serve
    <2>4. calls'[q] # NoCall
      BY <1>1 DEF NoCall
    <2>5. PICK u \in UserIds :
            /\ \A r \in Requests : InsertedUser(r) # u
            /\ calls' = [calls EXCEPT ![q] = [calls[q] EXCEPT !.pc = "added", !.user = u]]
      BY <1>0, <2>2, <2>4 DEF UpsertInsert, Serve
    <2>6. calls'[q].user = u /\ calls'[q].row.kakao = calls[q].row.kakao
      BY <1>0, <2>5 DEF Call
    <2>7. \A r \in Requests \ {q} : calls[r].pc = "added" =>
            calls[r].user # u /\ calls[r].row.kakao # calls[q].row.kakao
      BY <2>2, <2>5 DEF UpsertInsert, InsertedUser
    <2> QED
      BY <2>2, <2>3, <2>6, <2>7
  <1> SUFFICES ASSUME NEW q \in Requests, NEW r \in Requests,
                      calls'[q].pc = "added", calls'[r].pc = "added",
                      Clash(calls'[q], calls'[r]), q # r
               PROVE  FALSE
    BY DEF InsertsDiffer
  <1>2. CASE calls'[q] # calls[q]
    BY <1>1, <1>2
  <1>3. CASE calls'[r] # calls[r]
    BY <1>1, <1>3
  <1>4. CASE calls'[q] = calls[q] /\ calls'[r] = calls[r]
    BY <1>4 DEF IInv, SignInsAgree, InsertsDiffer
  <1> QED
    BY <1>2, <1>3, <1>4

\* Sign-ins still agree.
LEMMA SignInsAgreeStep ==
  ASSUME IInv, [Next]_vars
  PROVE  SignInsAgree'
  <1>1. \A r \in Requests : CallAgrees(calls[r])'
    BY OwnStep, CallMoves, CallStays
  <1> QED
    BY <1>1, StatesLeadStep, InsertsDifferStep DEF SignInsAgree

\* A person still has one account.
LEMMA OneAccountStep ==
  ASSUME IInv, [Next]_vars
  PROVE  OneAccountPerPerson'
  <1>0. /\ users \in [UserIds -> Row]
        /\ OneAccountPerPerson
    BY DEF IInv, TypeOK, Row
  <1>1. CASE users' = users
    BY <1>0, <1>1 DEF OneAccountPerPerson, AccountsOf
  <1>2. ASSUME NEW u \in UserIds, Ban(u) PROVE OneAccountPerPerson'
    <2>1. users' = [users EXCEPT ![u] = [users[u] EXCEPT !.is_banned = TRUE]]
      BY <1>2 DEF Ban
    <2>2. \A v \in UserIds : users'[v].kakao = users[v].kakao
      BY <1>0, <2>1 DEF Row
    <2> QED
      BY <1>0, <2>2 DEF OneAccountPerPerson, AccountsOf
  <1>3. ASSUME NEW r \in Requests, CallbackCommit(r), calls[r].pc = "added"
        PROVE  OneAccountPerPerson'
    <2>1. /\ users' = [users EXCEPT ![calls[r].user] = calls[r].row]
          /\ calls[r].user \in UserIds
          /\ AccountsOf(calls[r].row.kakao) = {}
      BY <1>3, CommitFacts
    <2> QED
      BY <1>0, <2>1 DEF OneAccountPerPerson, AccountsOf
  <1> QED
    BY <1>1, <1>2, <1>3, UsersFacts

\* Which steps write a notification: a new one, and the commit of a request.
LEMMA NoticesFacts ==
  ASSUME IInv, [Next]_vars
  PROVE  \/ notices' = notices
         \/ \E n \in Notices, u \in UserIds : Notify(n, u)
         \/ \E r \in Requests : MarkCommit(r)
  <1>1. ASSUME NEW r \in Requests, Callback(r) PROVE notices' = notices
    BY <1>1 DEF Callback, CallbackBegin, ExchangeCodeForToken, FetchProfile, UpsertRead,
      UpsertInsert, CallbackCommit, CallbackAnswer, CallbackFail, Serve
  <1>2. ASSUME NEW r \in Requests, Mark(r) PROVE notices' = notices \/ MarkCommit(r)
    BY <1>2 DEF Mark, AskToMark, MarkRead, MarkAllRead, MarkFail, Click
  <1>3. ASSUME NEW b \in Browsers, Browse(b) PROVE notices' = notices
    BY <1>3 DEF Browse, KakaoAuthorize, Logout, SessionExpires, StateExpires, DropCookies,
      ListMyNotifications
  <1>4. ASSUME (\E s \in States, p \in People : Consent(s, p))
                 \/ (\E u \in UserIds : Ban(u)) \/ UNCHANGED vars
        PROVE  notices' = notices
    BY <1>4 DEF Consent, Ban, vars
  <1> QED
    BY <1>1, <1>2, <1>3, <1>4 DEF Next

\* A notification that has an owner keeps it.
LEMMA OwnersStay ==
  ASSUME IInv, [Next]_vars, NEW n \in Notices, notices[n].owner # Nobody
  PROVE  notices'[n].owner = notices[n].owner
  <1>0. notices \in [Notices -> Notice]
    BY DEF IInv, TypeOK, Notice
  <1>1. ASSUME NEW m \in Notices, NEW u \in UserIds, Notify(m, u)
        PROVE  notices'[n].owner = notices[n].owner
    <2>1. notices' = [notices EXCEPT ![m] = [notices[m] EXCEPT !.owner = u]]
      BY <1>1 DEF Notify
    <2>2. m # n
      BY <1>1 DEF Notify, NoNotice
    <2> QED
      BY <1>0, <2>1, <2>2
  <1>2. ASSUME NEW r \in Requests, MarkCommit(r) PROVE notices'[n].owner = notices[n].owner
    BY <1>0, <1>2 DEF MarkCommit, Notice
  <1> QED
    BY <1>1, <1>2, NoticesFacts

\* Only a request's own step changes what it is about to mark.
LEMMA OwnMark ==
  ASSUME IInv, [Next]_vars, NEW q \in Requests, clicks'[q] # clicks[q]
  PROVE  Mark(q)
  <1>0. clicks \in [Requests -> Marking]
    BY DEF IInv, TypeOK, Marking
  <1>1. ASSUME NEW r \in Requests, Mark(r), r # q PROVE clicks'[q] = clicks[q]
    BY <1>0, <1>1 DEF Mark, AskToMark, MarkRead, MarkAllRead, MarkCommit, MarkFail, Click
  <1>2. ASSUME NEW r \in Requests, Callback(r) PROVE UNCHANGED clicks
    BY <1>2 DEF Callback, CallbackBegin, ExchangeCodeForToken, FetchProfile, UpsertRead,
      UpsertInsert, CallbackCommit, CallbackAnswer, CallbackFail, Serve
  <1>3. ASSUME NEW b \in Browsers, Browse(b) PROVE UNCHANGED clicks
    BY <1>3 DEF Browse, KakaoAuthorize, Logout, SessionExpires, StateExpires, DropCookies,
      ListMyNotifications
  <1>4. ASSUME (\E s \in States, p \in People : Consent(s, p))
                 \/ (\E u \in UserIds : Ban(u) \/ \E n \in Notices : Notify(n, u))
                 \/ UNCHANGED vars
        PROVE  UNCHANGED clicks
    BY <1>4 DEF Consent, Ban, Notify, vars
  <1> QED
    BY <1>1, <1>2, <1>3, <1>4 DEF Next

\* What a request is about to mark belongs to whom it serves, whatever happens
\* to the cookies and the accounts after it was authenticated.
LEMMA MarksAgreeStep ==
  ASSUME IInv, [Next]_vars
  PROVE  MarksAgree'
  <1> DEFINE Mine(r) == \A n \in clicks[r].ns : notices[n].owner = clicks[r].user
  <1>0. /\ clicks \in [Requests -> Marking] /\ notices \in [Notices -> Notice]
        /\ TypeOK
    BY DEF IInv, TypeOK, Marking, Notice
  <1> SUFFICES ASSUME NEW r \in Requests, clicks'[r] # NoClick
               PROVE  /\ clicks'[r].browser \in Browsers /\ clicks'[r].user \in UserIds
                      /\ SignedInFrom(clicks[r].browser, clicks[r].user)'
                      /\ clicks'[r].pc = "commit" => Mine(r)'
    BY DEF MarksAgree
  <1>1. ASSUME clicks[r] # NoClick
        PROVE  /\ clicks[r].browser \in Browsers /\ clicks[r].user \in UserIds
               /\ SignedInFrom(clicks[r].browser, clicks[r].user)
               /\ clicks[r].pc = "commit" => Mine(r)
    BY <1>1 DEF IInv, MarksAgree
  <1>2. ASSUME NEW b \in Browsers, NEW u \in UserIds, SignedInFrom(b, u)
        PROVE  SignedInFrom(b, u)'
    BY <1>2, StepGrows, SignInStays, AccountsAssumption
  <1>3. CASE clicks'[r] = clicks[r]
    <2>1. /\ clicks[r].browser \in Browsers /\ clicks[r].user \in UserIds
          /\ clicks[r].ns \subseteq Notices
      BY <1>0, <1>1, <1>3 DEF Marking
    <2>2. SignedInFrom(clicks[r].browser, clicks[r].user)'
      <3>1. PICK b \in Browsers, u \in UserIds : b = clicks[r].browser /\ u = clicks[r].user
        BY <2>1
      <3>2. SignedInFrom(b, u)'
        BY <1>1, <1>2, <1>3, <3>1
      <3> QED
        BY <1>3, <3>1, <3>2 DEF SignedInFrom, UserById
    <2>3. clicks[r].pc = "commit" => Mine(r)'
      BY <1>1, <1>3, <2>1, OwnersStay, AccountsAssumption
    <2> QED
      BY <1>3, <2>1, <2>2, <2>3
  <1>4. ASSUME NEW b \in Browsers, AskToMark(r, b)
        PROVE  /\ clicks'[r].browser \in Browsers /\ clicks'[r].user \in UserIds
               /\ SignedInFrom(clicks[r].browser, clicks[r].user)'
               /\ clicks'[r].pc # "commit"
    <2>1. /\ clicks'[r].browser = b /\ clicks'[r].user = Caller(b) /\ clicks'[r].pc # "commit"
          /\ UNCHANGED << users, flows >>
      BY <1>0, <1>4 DEF AskToMark, Click
    <2>2. Caller(b) = jar[b].session /\ jar[b].session \in UserIds
      BY <1>4 DEF AskToMark, Caller, UserById, DecodeSessionToken
    <2>3. SignedInFrom(b, jar[b].session)
      BY <2>2, AccountsAssumption DEF IInv, SignInLandsWhereItBegan
    <2> QED
      BY <2>1, <2>2, <2>3 DEF SignedInFrom, UserById
  <1>5. ASSUME MarkRead(r) \/ MarkAllRead(r)
        PROVE  /\ clicks'[r].browser \in Browsers /\ clicks'[r].user \in UserIds
               /\ SignedInFrom(clicks[r].browser, clicks[r].user)'
               /\ Mine(r)'
    <2>1. clicks[r] # NoClick /\ notices' = notices /\ users' = users /\ flows' = flows
      <3>1. clicks[r].pc # "idle"
        BY <1>5 DEF MarkRead, MarkAllRead
      <3>2. clicks[r] # NoClick
        BY <3>1 DEF NoClick
      <3>3. notices' = notices /\ users' = users /\ flows' = flows
        BY <1>5 DEF MarkRead, MarkAllRead, Click
      <3> QED
        BY <3>2, <3>3
    <2>2. /\ clicks'[r].user = clicks[r].user /\ clicks'[r].browser = clicks[r].browser
          /\ clicks'[r].ns \subseteq Inbox(clicks[r].user, FALSE)
      <3>1. clicks[r] \in Marking
        BY <1>0
      <3>2. CASE MarkRead(r)
        <4>1. /\ clicks'[r] = [clicks[r] EXCEPT !.pc = "commit"]
              /\ clicks[r].ns \subseteq Inbox(clicks[r].user, FALSE)
          BY <1>0, <3>2 DEF MarkRead, Click
        <4> QED
          BY <3>1, <4>1 DEF Marking
      <3>3. CASE MarkAllRead(r)
        <4>1. clicks'[r] = [clicks[r] EXCEPT !.pc = "commit", !.ns = Inbox(clicks[r].user, TRUE)]
          BY <1>0, <3>3 DEF MarkAllRead, Click
        <4>2. Inbox(clicks[r].user, TRUE) \subseteq Inbox(clicks[r].user, FALSE)
          BY DEF Inbox
        <4> QED
          BY <3>1, <4>1, <4>2 DEF Marking
      <3> QED
        BY <1>5, <3>2, <3>3
    <2>3. SignedInFrom(clicks[r].browser, clicks[r].user)'
      BY <1>1, <2>1, <2>2 DEF SignedInFrom, UserById
    <2>4. Mine(r)'
      BY <2>1, <2>2 DEF Inbox
    <2> QED
      BY <1>1, <2>1, <2>2, <2>3, <2>4
  <1>6. ASSUME MarkCommit(r) \/ MarkFail(r) PROVE clicks'[r] = NoClick
    BY <1>0, <1>6 DEF MarkCommit, MarkFail, Click
  <1> QED
    BY <1>3, <1>4, <1>5, <1>6, OwnMark DEF Mark

\* In the empty tables everything agrees.
LEMMA InitIInv == Init => IInv
  <1> SUFFICES ASSUME Init PROVE IInv
    OBVIOUS
  <1>1. TypeOK
    BY DEF Init, TypeOK, NoUser, NoFlow, NoCall, NoNotice, NoClick
  <1>2. SignInsAgree
    <2>1. StatesLead
      BY DEF Init, StatesLead
    <2>2. \A r \in Requests : calls[r] = NoCall /\ calls[r].pc # "added"
      BY DEF Init, NoCall
    <2> QED
      BY <2>1, <2>2 DEF SignInsAgree, CallAgrees, InsertsDiffer
  <1>3. OneAccountPerPerson
    BY AccountsAssumption DEF Init, OneAccountPerPerson, AccountsOf, NoUser
  <1>4. SignInLandsWhereItBegan
    BY DEF Init, SignInLandsWhereItBegan
  <1>5. MarksAgree
    BY DEF Init, MarksAgree
  <1> QED
    BY <1>1, <1>2, <1>3, <1>4, <1>5 DEF IInv

\* The invariant is inductive.
LEMMA StepIInv == IInv /\ [Next]_vars => IInv'
  BY TypeStep, SignInsAgreeStep, OneAccountStep, SignInLandsStep, MarksAgreeStep DEF IInv

\* The invariant holds in every reachable state.
LEMMA Invariance == Spec => []IInv
  <1>1. Init => IInv
    BY InitIInv
  <1>2. IInv /\ [Next]_vars => IInv'
    BY StepIInv
  <1> QED
    BY <1>1, <1>2, PTL DEF Spec

-----------------------------------------------------------------------------
(* The theorems                                                            *)

\* The tables, the cookies and the callbacks keep their types.
THEOREM TypeCorrect == Spec => []TypeOK
  <1>1. IInv => TypeOK
    BY DEF IInv
  <1> QED
    BY <1>1, Invariance, PTL

\* A person has one account, whatever first logins overlap, fail between two
\* statements or are repeated because their answer was lost.
THEOREM OneAccount == Spec => []OneAccountPerPerson
  <1>1. IInv => OneAccountPerPerson
    BY DEF IInv
  <1> QED
    BY <1>1, Invariance, PTL

\* The session cookie of a browser names the account of somebody who consented
\* in a sign-in that began there.
THEOREM SignInSafety == Spec => []SignInLandsWhereItBegan
  <1>1. IInv => SignInLandsWhereItBegan
    BY DEF IInv
  <1> QED
    BY <1>1, Invariance, PTL

\* No step lifts the ban of an account.
LEMMA BanStays ==
  ASSUME IInv, [Next]_vars, NEW u \in UserIds, users[u].is_banned
  PROVE  users'[u].is_banned
  <1>0. users \in [UserIds -> Row]
    BY DEF IInv, TypeOK, Row
  <1>1. ASSUME NEW v \in UserIds, Ban(v) PROVE users'[u].is_banned
    <2>1. users' = [users EXCEPT ![v] = [users[v] EXCEPT !.is_banned = TRUE]]
      BY <1>1 DEF Ban
    <2> QED
      BY <1>0, <2>1 DEF Row
  <1>2. ASSUME NEW r \in Requests, CallbackCommit(r), calls[r].pc = "added"
        PROVE  users'[u].is_banned
    <2>1. /\ users' = [users EXCEPT ![calls[r].user] = calls[r].row]
          /\ users[calls[r].user] = NoUser
      BY <1>2, CommitFacts
    <2>2. calls[r].user # u
      BY <2>1 DEF NoUser
    <2> QED
      BY <1>0, <2>1, <2>2
  <1> QED
    BY <1>1, <1>2, UsersFacts

\* A banned person stays banned and nobody's browser passes as that person:
\* not after signing in again, and not with the cookie from before the ban.
THEOREM BanSafety == Spec => BanFollowsPerson
  <1> DEFINE Follows == \A p \in People : Banned(p) =>
               /\ Banned(p)'
               /\ \A b \in Browsers : UserById(Caller(b)).kakao' # p
  <1>1. ASSUME IInv, IInv', [Next]_vars PROVE Follows
    <2> SUFFICES ASSUME NEW p \in People, Banned(p)
                 PROVE  /\ Banned(p)'
                        /\ \A b \in Browsers : UserById(Caller(b)).kakao' # p
      OBVIOUS
    <2>1. PICK u \in UserIds : users[u].kakao = p /\ users[u].is_banned
      BY DEF Banned, AccountsOf
    <2>2. users'[u].kakao = p /\ users'[u].is_banned
      BY <1>1, <2>1, StepGrows, BanStays, AccountsAssumption DEF Grows
    <2>3. Banned(p)'
      BY <2>2 DEF Banned, AccountsOf
    <2>4. ASSUME NEW b \in Browsers PROVE UserById(Caller(b)).kakao' # p
      <3>1. CASE Caller(b)' = Nobody
        BY <3>1, AccountsAssumption DEF UserById, NoUser
      <3>2. CASE Caller(b)' # Nobody
        <4>1. /\ Caller(b)' \in UserIds
              /\ ~users'[Caller(b)'].is_banned
          BY <3>2 DEF Caller, UserById, NoUser
        <4>2. Caller(b)' # u
          BY <2>2, <4>1
        <4>3. users'[Caller(b)'].kakao # p
          BY <1>1, <2>2, <4>1, <4>2 DEF IInv, OneAccountPerPerson, AccountsOf
        <4> QED
          BY <4>1, <4>3 DEF UserById
      <3> QED
        BY <3>1, <3>2
    <2> QED
      BY <2>3, <2>4
  <1>2. IInv /\ IInv' /\ [Next]_vars => [Follows]_vars
    BY <1>1
  <1>3. BanFollowsPerson <=> [][Follows]_vars
    BY PTL DEF BanFollowsPerson
  <1> QED
    BY <1>2, <1>3, Invariance, PTL DEF Spec

\* A notification becomes read only by a request that its owner's session
\* authenticated, in a browser from which the owner had signed in.
THEOREM ReadSafety == Spec => ReadByRecipient
  <1> DEFINE ByOwner == \A n \in Notices : ~notices[n].read /\ notices'[n].read =>
               \E r \in Requests : /\ clicks[r].user = notices[n].owner
                                   /\ SignedInFrom(clicks[r].browser, notices[n].owner)
  <1>1. ASSUME IInv, [Next]_vars PROVE ByOwner
    <2> SUFFICES ASSUME NEW n \in Notices, ~notices[n].read, notices'[n].read
                 PROVE  \E r \in Requests :
                          /\ clicks[r].user = notices[n].owner
                          /\ SignedInFrom(clicks[r].browser, notices[n].owner)
      OBVIOUS
    <2>0. notices \in [Notices -> Notice]
      BY <1>1 DEF IInv, TypeOK, Notice
    <2>1. ASSUME NEW u \in UserIds, NEW m \in Notices, Notify(m, u) PROVE FALSE
      <3>1. notices' = [notices EXCEPT ![m] = [notices[m] EXCEPT !.owner = u]]
        BY <2>1 DEF Notify
      <3> QED
        BY <2>0, <3>1 DEF Notice
    <2>2. PICK r \in Requests : MarkCommit(r)
      BY <1>1, <2>1, NoticesFacts
    <2>3. n \in clicks[r].ns
      BY <2>2 DEF MarkCommit
    <2>4. clicks[r].pc = "commit" /\ clicks[r] # NoClick
      BY <2>2 DEF MarkCommit, NoClick
    <2>5. /\ clicks[r].user = notices[n].owner
          /\ SignedInFrom(clicks[r].browser, clicks[r].user)
      BY <1>1, <2>3, <2>4 DEF IInv, MarksAgree
    <2> QED
      BY <2>5
  <1>2. IInv /\ [Next]_vars => [ByOwner]_vars
    BY <1>1
  <1>3. ReadByRecipient <=> [][ByOwner]_vars
    BY PTL DEF ReadByRecipient
  <1> QED
    BY <1>2, <1>3, Invariance, PTL DEF Spec

=============================================================================
