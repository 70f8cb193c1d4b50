--------------------------- MODULE Server_proofs ---------------------------
(***************************************************************************)
(* Proofs about what the server keeps, by two families of programs.        *)
(*                                                                         *)
(* The accounts: the site and the back office each follow their own        *)
(* specification, the term of a session follows its use, every account     *)
(* keeps a way in, a one-time code opens one session, and what is over     *)
(* stays over, for any tabs, browsers, accounts and durations.             *)
(*                                                                         *)
(* The scripts: releases, backups and restorations, for any bases, any     *)
(* number of runs and any number of commands that fail, kills and writes.  *)
(***************************************************************************)
EXTENDS Accounts, Deployment, SequenceTheorems, TLAPS

-----------------------------------------------------------------------------
(***************************************************************************)
(* The accounts                                                            *)
(***************************************************************************)

(* The invariant of the site *)

Owners == Accounts \cup {NoOne}
States == [id : Nat, link : BOOLEAN, invited : BOOLEAN]
Sides == [status : {"loading", "authenticated", "anonymous", "discord", "offline"}, state : States]
Rows == [user : Owners, expires : Nat]
Requests ==
    [kind : {"none", "private", "unlink", "logout", "login", "register", "start", "callback"},
     step : {"none", "sent", "purge", "slide", "in", "session", "link", "create", "done"},
     token : Nat, user : Owners, discord : Discords \cup {NoOne},
     state : States, cookie : States, set : {"keep", "clear", "token"}, ok : BOOLEAN]

\* A form names an account; an identity is linked, or opens an account, by its name.
Proper(r) ==
    /\ r.kind \in {"login", "register"} /\ r.step = "sent" => r.user \in Accounts
    /\ r.step \in {"link", "create"} => r.discord \in Discords
    /\ r.step = "create" => EmailOf[r.discord] # NoOne
ProperRequests == {r \in Requests : Proper(r)}

ServerTypes ==
    /\ now \in Nat /\ issued \in Nat
    /\ users \subseteq Accounts /\ passwords \subseteq users
    /\ identity \in [Discords -> Owners]
    /\ sessions \in [Tokens -> Rows]
    /\ used \in [Tokens -> Nat]
BrowserTypes ==
    /\ jar \in Nat /\ oauth \in States /\ starts \in Nat
    /\ tab \in [Tabs -> Sides]
UsedInThePast == \A k \in Tokens : used[k] <= now

ServerInOrder == ServerTypes /\ UsedInThePast /\ TermFollowsUse /\ EveryAccountCanSignIn
RequestsInOrder == req \in [Tabs -> ProperRequests]
SiteInOrder == ServerInOrder /\ BrowserTypes /\ RequestsInOrder

-----------------------------------------------------------------------------
(* The invariant of the back office *)

Codes == [secret : Nat, at : Int]
AdminRequests ==
    [page : {"none", "login", "totp", "logout", "view", "code"},
     step : {"none", "sent", "in", "drop", "create", "accept", "verified", "prepare", "enrol", "done"},
     token : Nat, code : Codes, first : BOOLEAN, secret : Nat]

AdminTypes ==
    /\ step \in Nat /\ drawn \in Nat /\ adminIssued \in Nat
    /\ shown \subseteq Nat
    /\ totp \in [secret : Nat, confirmed : BOOLEAN, last : Int]
    /\ adminSessions \in [B!Tokens -> [expires : Nat, verified : BOOLEAN]]
    /\ accepted \subseteq [token : Nat, secret : Nat, at : Int]
    /\ adminJar \in [Browsers -> Nat]
    /\ adminReq \in [Browsers -> AdminRequests]

\* The row remembers the last step accepted, and is confirmed once one was.
RowRemembers == \A c \in accepted : totp.confirmed /\ c.at <= totp.last
\* The page of a code knows whether it confirms the enrolment, and what was accepted.
CodesInOrder ==
    \A b \in Browsers :
        /\ adminReq[b].step = "accept" => adminReq[b].first \/ totp.confirmed
        /\ adminReq[b].step = "verified" => \E c \in accepted : c.token = adminReq[b].token

BackofficeInOrder == AdminTypes /\ RowRemembers /\ CodesInOrder /\ B!OneCodeOneSession

-----------------------------------------------------------------------------
(* What a tab's request may become *)

USE SessionsAssumption

LEMMA IdleIsProper == Idle \in ProperRequests
BY DEF Idle, ProperRequests, Requests, Proper, States, Owners, NoState, NoToken

\* The request a tab sends, whoever it names and whatever Discord returned.
LEMMA RequestIsProper ==
    ASSUME jar \in Nat,
           NEW kind \in {"private", "unlink", "logout", "login", "register", "start", "callback"}
    PROVE  /\ Request(kind) \in Requests
           /\ Request(kind).kind = kind /\ Request(kind).step = "sent"
           /\ kind \notin {"login", "register"} => Request(kind) \in ProperRequests
BY DEF Request, Idle, ProperRequests, Requests, Proper, States, Owners, NoState, NoToken

LEMMA Answered ==
    ASSUME NEW t \in Tabs, RequestsInOrder,
           NEW ok \in BOOLEAN, NEW set \in {"keep", "clear", "token"}, NEW k \in Nat,
           Reply(t, ok, set, k)
    PROVE  RequestsInOrder'
<1> DEFINE r == [Idle EXCEPT !.kind = req[t].kind, !.step = "done", !.ok = ok,
                         !.state = IF req[t].kind = "start" THEN req[t].state ELSE NoState,
                         !.set = set, !.token = k]
<1>1. req[t] \in Requests
  BY DEF RequestsInOrder, ProperRequests
<1>2. r \in Requests /\ r.step = "done"
  <2>1. NoState \in States
    BY DEF NoState, States
  <2>2. req[t].state \in States /\ req[t].kind \in
          {"none", "private", "unlink", "logout", "login", "register", "start", "callback"}
    BY <1>1 DEF Requests
  <2> QED
    BY <2>1, <2>2 DEF Idle, Requests, Owners
<1>3. r \in ProperRequests
  BY <1>2 DEF ProperRequests, Proper
<1>4. req' = [req EXCEPT ![t] = r]
  BY DEF Reply, Step
<1> QED
  BY <1>3, <1>4 DEF RequestsInOrder

LEMMA Concluded ==
    ASSUME NEW t \in Tabs, RequestsInOrder, NEW ok \in BOOLEAN, Conclude(t, ok)
    PROVE  RequestsInOrder'
<1>1. req[t].token \in Nat
  BY DEF RequestsInOrder, ProperRequests, Requests
<1> QED
  BY <1>1, Answered DEF Conclude, NoToken

\* A request that goes on with the account it was given.
LEMMA GoesOn ==
    ASSUME NEW t \in Tabs, RequestsInOrder, NEW r \in ProperRequests, Step(t, r)
    PROVE  RequestsInOrder'
BY DEF RequestsInOrder, Step

LEMMA Advanced ==
    ASSUME NEW r \in ProperRequests, NEW u \in Owners,
           NEW s \in {"purge", "slide", "in", "session"}
    PROVE  /\ [r EXCEPT !.step = s] \in ProperRequests
           /\ [r EXCEPT !.step = s, !.user = u] \in ProperRequests
           /\ [r EXCEPT !.step = s, !.set = "token"] \in ProperRequests
BY ZenonT(30) DEF ProperRequests, Requests, Proper

-----------------------------------------------------------------------------
(* The site *)

LEMMA SiteInit == Init => SiteInOrder
<1> SUFFICES ASSUME Init PROVE SiteInOrder
  OBVIOUS
<1>1. ServerTypes
  BY DEF Init, ServerTypes, Rows, Owners, NoSession
<1>2. UsedInThePast /\ TermFollowsUse
  BY DEF Init, UsedInThePast, TermFollowsUse, Alive
<1>3. EveryAccountCanSignIn
  BY DEF Init, EveryAccountCanSignIn
<1>4. BrowserTypes
  BY DEF Init, BrowserTypes, Sides, States, Shows, NoState, NoToken
<1>5. RequestsInOrder
  BY IdleIsProper DEF Init, RequestsInOrder
<1> QED
  BY <1>1, <1>2, <1>3, <1>4, <1>5 DEF SiteInOrder, ServerInOrder

LEMMA ServerKept == ServerInOrder /\ UNCHANGED <<now, server>> => ServerInOrder'
BY DEF ServerInOrder, ServerTypes, UsedInThePast, TermFollowsUse, EveryAccountCanSignIn, server, Alive

LEMMA BrowserKept == BrowserTypes /\ UNCHANGED browser => BrowserTypes'
BY DEF BrowserTypes, browser

LEMMA TickStep == SiteInOrder /\ Tick => SiteInOrder'
<1> SUFFICES ASSUME SiteInOrder, Tick PROVE SiteInOrder'
  OBVIOUS
<1> USE DEF Tick, SiteInOrder, ServerInOrder, server, browser
<1>1. ServerTypes'
  BY DEF ServerTypes
<1>2. UsedInThePast'
  BY DEF ServerTypes, UsedInThePast
<1>3. TermFollowsUse' /\ EveryAccountCanSignIn'
  BY DEF TermFollowsUse, EveryAccountCanSignIn, Alive
<1>4. BrowserTypes' /\ RequestsInOrder'
  BY DEF BrowserTypes, RequestsInOrder
<1> QED
  BY <1>1, <1>2, <1>3, <1>4

LEMMA AsksStep ==
    ASSUME SiteInOrder, NEW t \in Tabs, Asks(t)
    PROVE  SiteInOrder'
<1> USE DEF SiteInOrder
<1>0. jar \in Nat /\ oauth \in States /\ starts \in Nat /\ tab \in [Tabs -> Sides]
  BY DEF BrowserTypes
<1>1. ASSUME NEW r \in ProperRequests, Ask(t, r)
      PROVE  SiteInOrder'
  BY <1>1, ServerKept, BrowserKept DEF Ask, RequestsInOrder
<1>2. CASE Probe(t)
  BY <1>2, <1>1, <1>0, RequestIsProper DEF Probe
<1>3. CASE UseAccount(t)
  BY <1>3, <1>1, <1>0, RequestIsProper DEF UseAccount
<1>4. CASE SignIn(t)
  <2>1. PICK a \in Accounts, kind \in {"login", "register"} :
          Ask(t, [Request(kind) EXCEPT !.user = a])
    BY <1>4 DEF SignIn
  <2>2. [Request(kind) EXCEPT !.user = a] \in ProperRequests
    BY <1>0, RequestIsProper DEF ProperRequests, Requests, Proper, Owners
  <2> QED
    BY <2>1, <2>2, <1>1
<1>5. CASE GoToDiscord(t)
  <2>1. PICK link, invited \in BOOLEAN :
          req' = [req EXCEPT ![t] = [Request("start") EXCEPT
                    !.state = [id |-> starts + 1, link |-> link, invited |-> invited]]]
    BY <1>5 DEF GoToDiscord
  <2>2. [Request("start") EXCEPT !.state = [id |-> starts + 1, link |-> link, invited |-> invited]]
          \in ProperRequests
    BY <1>0, RequestIsProper DEF ProperRequests, Requests, Proper, States
  <2>3. RequestsInOrder'
    BY <2>1, <2>2 DEF RequestsInOrder
  <2>4. ServerInOrder' /\ BrowserTypes'
    BY <1>5, <1>0, ServerKept DEF GoToDiscord, BrowserTypes
  <2> QED
    BY <2>3, <2>4
<1>6. CASE ReturnFromDiscord(t)
  <2>1. PICK d \in Discords \cup {NoOne}, state \in {oauth, NoState} :
          Ask(t, [Request("callback") EXCEPT
                    !.discord = d, !.cookie = tab[t].state, !.state = state])
    BY <1>6 DEF ReturnFromDiscord
  <2>2. state \in States /\ tab[t].state \in States
    <3>1. NoState \in States
      BY DEF NoState, States
    <3> QED
      BY <3>1, <1>0 DEF Sides
  <2>3. [Request("callback") EXCEPT !.discord = d, !.cookie = tab[t].state, !.state = state]
          \in ProperRequests
    BY ZenonT(30), <2>2, <1>0, RequestIsProper DEF ProperRequests, Requests, Proper
  <2> QED
    BY <2>1, <2>3, <1>1
<1>7. CASE Reload(t)
  <2>1. Shows("loading") \in Sides
    BY DEF Shows, Sides, States, NoState
  <2>2. BrowserTypes'
    BY <1>7, <2>1, <1>0 DEF Reload, BrowserTypes
  <2> QED
    BY <1>7, <2>2, ServerKept DEF Reload, RequestsInOrder
<1> QED
  BY <1>2, <1>3, <1>4, <1>5, <1>6, <1>7 DEF Asks

LEMMA ClearedAnswer ==
    ASSUME NEW t \in Tabs, RequestsInOrder, NEW ok \in BOOLEAN, Clear(t, ok)
    PROVE  RequestsInOrder'
BY Answered DEF Clear, NoToken

\* A session that ends takes nothing with it: neither a term nor a way in.
LEMMA SessionEnds ==
    ASSUME ServerInOrder, NEW ended \in SUBSET Tokens,
           sessions' = [k \in Tokens |-> IF k \in ended THEN NoSession ELSE sessions[k]],
           UNCHANGED <<now, users, passwords, identity, issued, used>>
    PROVE  ServerInOrder'
<1> USE DEF ServerInOrder
<1>1. ServerTypes'
  BY DEF ServerTypes, Rows, Owners, NoSession
<1>2. UsedInThePast' /\ EveryAccountCanSignIn'
  BY DEF UsedInThePast, EveryAccountCanSignIn
<1>3. TermFollowsUse'
  BY DEF TermFollowsUse, Alive
<1> QED
  BY <1>1, <1>2, <1>3

\* A session used now, for a term of Life, opened or slid.
LEMMA SessionUsed ==
    ASSUME ServerInOrder, NEW k \in Tokens, NEW row \in Rows, row.expires = now + Life,
           sessions' = [sessions EXCEPT ![k] = row],
           used' = [used EXCEPT ![k] = now],
           issued' \in Nat, UNCHANGED <<now, users, passwords, identity>>
    PROVE  ServerInOrder'
<1> USE DEF ServerInOrder
<1>1. ServerTypes'
  BY DEF ServerTypes
<1>2. UsedInThePast' /\ EveryAccountCanSignIn'
  BY DEF ServerTypes, UsedInThePast, EveryAccountCanSignIn
<1>3. TermFollowsUse'
  BY DEF TermFollowsUse, Alive, ServerTypes
<1> QED
  BY <1>1, <1>2, <1>3

LEMMA ResolvesStep ==
    ASSUME SiteInOrder, NEW t \in Tabs, Resolves(t)
    PROVE  SiteInOrder'
<1> USE DEF SiteInOrder
<1>0. req[t] \in ProperRequests /\ req[t].token \in Nat /\ now \in Nat
  BY DEF RequestsInOrder, ProperRequests, Requests, ServerInOrder, ServerTypes
<1>1. CASE NoSessionFound(t)
  BY <1>1, Concluded, ServerKept, BrowserKept DEF NoSessionFound, ServerOnly, Refuse
<1>2. CASE FindExpired(t)
  <2>1. [req[t] EXCEPT !.step = "purge"] \in ProperRequests
    BY <1>0, Advanced DEF Owners
  <2> QED
    BY <1>2, <2>1, GoesOn, ServerKept, BrowserKept DEF FindExpired, ServerOnly
<1>3. CASE Purge(t)
  <2>1. sessions' = [k \in Tokens |-> IF k \in {req[t].token} \cap Tokens
                                      THEN NoSession ELSE sessions[k]]
    BY <1>3 DEF Purge, ServerInOrder, ServerTypes
  <2>2. ServerInOrder'
    BY <1>3, <2>1, SessionEnds DEF Purge, ServerOnly
  <2> QED
    BY <1>3, <2>2, ClearedAnswer, BrowserKept DEF Purge, ServerOnly
<1>4. CASE FindLive(t)
  <2> DEFINE s == sessions[req[t].token]
  <2>1. /\ req[t].token \in Tokens /\ s \in Rows /\ s.user \in Owners /\ s.expires \in Nat
        /\ Alive(req[t].token)
    BY <1>4 DEF FindLive, Alive, ServerInOrder, ServerTypes, Rows
  <2>2. /\ [req[t] EXCEPT !.step = "slide", !.user = s.user] \in ProperRequests
        /\ [req[t] EXCEPT !.step = "in", !.user = s.user] \in ProperRequests
    BY <2>1, <1>0, Advanced
  <2>3. RequestsInOrder'
    BY <1>4, <2>2, GoesOn DEF FindLive
  <2>4. CASE s.expires - now < Slide
    BY <1>4, <2>4, <2>3, ServerKept, BrowserKept DEF FindLive, ServerOnly, server
  <2>5. CASE ~(s.expires - now < Slide)
    <3>1. /\ used' = [used EXCEPT ![req[t].token] = now]
          /\ UNCHANGED <<now, users, passwords, identity, sessions, issued>>
      BY <1>4, <2>5 DEF FindLive, ServerOnly
    <3> HIDE DEF s
    <3>2. used[req[t].token] <= now /\ used[req[t].token] \in Nat /\ used \in [Tokens -> Nat]
      BY <2>1 DEF ServerInOrder, UsedInThePast, ServerTypes
    <3>3. s.expires <= used[req[t].token] + Life
      BY <2>1 DEF s, ServerInOrder, TermFollowsUse
    <3>4. now + Slide <= s.expires /\ s.expires <= now + Life
      BY <2>5, <2>1, <3>2, <3>3, <1>0
    <3>5. ServerTypes' /\ UsedInThePast' /\ EveryAccountCanSignIn'
      <4>1. ServerTypes'
        BY <3>1, <1>0 DEF ServerInOrder, ServerTypes
      <4>2. UsedInThePast'
        BY <3>1, <3>2, <1>0 DEF ServerInOrder, UsedInThePast
      <4>3. EveryAccountCanSignIn'
        BY <3>1 DEF ServerInOrder, EveryAccountCanSignIn
      <4> QED
        BY <4>1, <4>2, <4>3
    <3>6. TermFollowsUse'
      BY <3>1, <3>4, <3>2, <2>1 DEF s, ServerInOrder, TermFollowsUse, Alive
    <3> QED
      BY <1>4, <2>3, <3>5, <3>6, BrowserKept DEF FindLive, ServerOnly, ServerInOrder
  <2> QED
    BY <2>4, <2>5
<1>5. CASE SlideSession(t)
  <2>1. RequestsInOrder'
    BY <1>5, <1>0, Advanced, GoesOn DEF SlideSession, Owners
  <2>2. CASE Alive(req[t].token)
    <3> DEFINE row == [sessions[req[t].token] EXCEPT !.expires = now + Life]
    <3>1. req[t].token \in Tokens /\ sessions[req[t].token] \in Rows
      BY <2>2 DEF Alive, ServerInOrder, ServerTypes
    <3>2. row \in Rows /\ row.expires = now + Life
      BY <3>1, <1>0 DEF Rows
    <3>3. /\ sessions' = [sessions EXCEPT ![req[t].token] = row]
          /\ used' = [used EXCEPT ![req[t].token] = now]
      BY <1>5, <2>2 DEF SlideSession
    <3>4. UNCHANGED <<now, users, passwords, identity, issued>> /\ issued' \in Nat
      BY <1>5 DEF SlideSession, ServerOnly, ServerInOrder, ServerTypes
    <3> HIDE DEF row
    <3>5. ServerInOrder'
      BY <3>1, <3>2, <3>3, <3>4, SessionUsed
    <3> QED
      BY <1>5, <2>1, <3>5, BrowserKept DEF SlideSession, ServerOnly
  <2>3. CASE ~Alive(req[t].token)
    BY <1>5, <2>3, <2>1, ServerKept, BrowserKept DEF SlideSession, ServerOnly, server
  <2> QED
    BY <2>2, <2>3
<1> QED
  BY <1>1, <1>2, <1>3, <1>4, <1>5 DEF Resolves

\* The steps of a handler that write nothing of the accounts.
LEMMA NothingWritten ==
    ASSUME SiteInOrder, ServerOnly, UNCHANGED server, RequestsInOrder'
    PROVE  SiteInOrder'
BY ServerKept, BrowserKept DEF SiteInOrder, ServerOnly

LEMMA ServesStep ==
    ASSUME SiteInOrder, NEW t \in Tabs, Serves(t)
    PROVE  SiteInOrder'
<1>0. /\ RequestsInOrder /\ ServerInOrder /\ BrowserTypes /\ ServerTypes
      /\ req[t] \in ProperRequests /\ req[t].token \in Nat /\ req[t].user \in Owners
  BY DEF SiteInOrder, ServerInOrder, RequestsInOrder, ProperRequests, Requests
<1>a. ASSUME NEW ok \in BOOLEAN, Conclude(t, ok) PROVE RequestsInOrder'
  BY <1>a, <1>0, Concluded
<1>b. ASSUME ServerInOrder', RequestsInOrder', ServerOnly PROVE SiteInOrder'
  BY <1>b, <1>0, BrowserKept DEF SiteInOrder, ServerOnly
<1> USE DEF Grant, Refuse
<1>1. CASE ServeAccount(t)
  BY <1>1, <1>a, NothingWritten DEF ServeAccount
<1>2. CASE Unlink(t)
  <2>1. RequestsInOrder'
    BY <1>2, <1>a DEF Unlink
  <2>2. CASE req[t].user \in passwords
    <3>1. identity' = [d \in Discords |-> IF identity[d] = req[t].user THEN NoOne ELSE identity[d]]
      BY <1>2, <2>2 DEF Unlink
    <3>2. UNCHANGED <<now, users, passwords, sessions, issued, used>> /\ ServerOnly
      BY <1>2 DEF Unlink, ServerOnly
    <3>3. ServerTypes' /\ UsedInThePast' /\ TermFollowsUse'
      BY <3>1, <3>2, <1>0
      DEF ServerTypes, ServerInOrder, UsedInThePast, TermFollowsUse, Alive, Owners
    <3>4. EveryAccountCanSignIn'
      BY <3>1, <3>2, <2>2, <1>0 DEF EveryAccountCanSignIn, ServerInOrder
    <3> QED
      BY <3>2, <3>3, <3>4, <2>1, <1>b DEF ServerInOrder
  <2>3. CASE req[t].user \notin passwords
    BY <1>2, <2>1, <2>3, NothingWritten DEF Unlink, server
  <2> QED
    BY <2>2, <2>3
<1>3. CASE Logout(t)
  <2>1. sessions' = [k \in Tokens |-> IF k \in {req[t].token} \cap Tokens
                                      THEN NoSession ELSE sessions[k]]
    BY <1>3 DEF Logout
  <2>2. ServerInOrder'
    BY <1>3, <2>1, <1>0, SessionEnds DEF Logout, ServerOnly
  <2> QED
    BY <1>3, <2>2, <1>0, <1>b, ClearedAnswer DEF Logout
<1>4. CASE Login(t)
  <2>1. [req[t] EXCEPT !.step = "session"] \in ProperRequests
    BY <1>0, Advanced
  <2>2. RequestsInOrder'
    BY <1>4, <2>1, <1>0, <1>a, GoesOn DEF Login
  <2> QED
    BY <1>4, <2>2, NothingWritten DEF Login
<1>5. CASE Register(t)
  <2>1. [req[t] EXCEPT !.step = "session"] \in ProperRequests
    BY <1>0, Advanced
  <2>2. RequestsInOrder'
    BY <1>5, <2>1, <1>0, <1>a, GoesOn DEF Register
  <2>3. CASE UNCHANGED <<users, passwords>>
    BY <1>5, <2>2, <2>3, NothingWritten DEF Register, server
  <2>4. CASE users' = users \cup {req[t].user} /\ passwords' = passwords \cup {req[t].user}
    <3>1. req[t].user \in Accounts
      BY <1>5, <1>0 DEF Register, At, ProperRequests, Proper
    <3>2. UNCHANGED <<now, identity, sessions, issued, used>> /\ ServerOnly
      BY <1>5 DEF Register, ServerOnly
    <3>3. ServerTypes' /\ UsedInThePast' /\ TermFollowsUse'
      BY <2>4, <3>1, <3>2, <1>0
      DEF ServerTypes, ServerInOrder, UsedInThePast, TermFollowsUse, Alive
    <3>4. EveryAccountCanSignIn'
      BY <2>4, <3>2, <1>0 DEF EveryAccountCanSignIn, ServerInOrder
    <3> QED
      BY <3>2, <3>3, <3>4, <2>2, <1>b DEF ServerInOrder
  <2> QED
    BY <1>5, <2>3, <2>4 DEF Register
<1>6. CASE CreateSession(t)
  <2>1. issued + 1 \in Tokens /\ issued + 1 \in Nat /\ now \in Nat
    BY <1>6, <1>0 DEF CreateSession, ServerTypes, Tokens
  <2>2. Row(req[t].user) \in Rows /\ Row(req[t].user).expires = now + Life
    BY <1>0, <2>1 DEF Row, Rows
  <2>3. ServerInOrder'
    BY <1>6, <2>1, <2>2, <1>0, SessionUsed DEF CreateSession, ServerOnly
  <2>4. RequestsInOrder'
    BY <1>6, <2>1, <1>0, Answered DEF CreateSession
  <2> QED
    BY <1>6, <2>3, <2>4, <1>b DEF CreateSession
<1>7. CASE StartOauth(t)
  BY <1>7, <1>a, NothingWritten DEF StartOauth
<1>8. CASE StateMismatch(t)
  BY <1>8, <1>a, NothingWritten DEF StateMismatch
<1>9. CASE ReadIdentityToLink(t)
  <2>1. [req[t] EXCEPT !.step = "link"] \in ProperRequests
    BY <1>9, <1>0 DEF ReadIdentityToLink, ReturnIsValid, ProperRequests, Requests, Proper
  <2>2. RequestsInOrder'
    BY <1>9, <2>1, <1>0, <1>a, GoesOn DEF ReadIdentityToLink
  <2> QED
    BY <1>9, <2>2, NothingWritten DEF ReadIdentityToLink
<1>10. CASE LinkIdentity(t)
  <2>1. RequestsInOrder'
    BY <1>10, <1>a DEF LinkIdentity
  <2>2. CASE identity[req[t].discord] = NoOne
    <3>1. identity' = [identity EXCEPT ![req[t].discord] = req[t].user]
      BY <1>10, <2>2 DEF LinkIdentity
    <3>2. UNCHANGED <<now, users, passwords, sessions, issued, used>> /\ ServerOnly
      BY <1>10 DEF LinkIdentity, ServerOnly
    <3>3. ServerTypes' /\ UsedInThePast' /\ TermFollowsUse'
      BY <3>1, <3>2, <1>0
      DEF ServerTypes, ServerInOrder, UsedInThePast, TermFollowsUse, Alive
    <3>4. EveryAccountCanSignIn'
      BY <3>1, <3>2, <2>2, <1>0 DEF EveryAccountCanSignIn, ServerInOrder, ServerTypes
    <3> QED
      BY <3>2, <3>3, <3>4, <2>1, <1>b DEF ServerInOrder
  <2>3. CASE identity[req[t].discord] # NoOne
    BY <1>10, <2>1, <2>3, NothingWritten DEF LinkIdentity, server
  <2> QED
    BY <2>2, <2>3
<1>11. CASE ReadIdentityToSignIn(t)
  <2> DEFINE d == req[t].discord
  <2>1. d \in Discords /\ identity[d] \in Owners
    BY <1>11, <1>0
    DEF ReadIdentityToSignIn, ReturnIsValid, ProperRequests, Requests, ServerTypes
  <2>2. [req[t] EXCEPT !.step = "session", !.user = identity[d]] \in ProperRequests
    BY <2>1, <1>0, Advanced
  <2>3. EmailOf[d] # NoOne => [req[t] EXCEPT !.step = "create"] \in ProperRequests
    BY <2>1, <1>0 DEF ProperRequests, Requests, Proper
  <2>4. RequestsInOrder'
    BY <1>11, <2>2, <2>3, <1>0, <1>a, GoesOn DEF ReadIdentityToSignIn
  <2> QED
    BY <1>11, <2>4, NothingWritten DEF ReadIdentityToSignIn
<1>12. CASE CreateFromDiscord(t)
  <2> DEFINE d == req[t].discord
  <2>1. d \in Discords /\ EmailOf[d] \in Accounts
    BY <1>12, <1>0 DEF CreateFromDiscord, At, ProperRequests, Proper
  <2>2. [req[t] EXCEPT !.step = "session", !.user = EmailOf[d]] \in ProperRequests
    BY <2>1, <1>0, Advanced DEF Owners
  <2>3. RequestsInOrder'
    BY <1>12, <2>2, <1>0, <1>a, GoesOn DEF CreateFromDiscord
  <2>4. CASE EmailOf[d] \notin users /\ identity[d] = NoOne
    <3>1. users' = users \cup {EmailOf[d]} /\ identity' = [identity EXCEPT ![d] = EmailOf[d]]
      BY <1>12, <2>4 DEF CreateFromDiscord
    <3>2. UNCHANGED <<now, passwords, sessions, issued, used>> /\ ServerOnly
      BY <1>12 DEF CreateFromDiscord, ServerOnly
    <3>3. ServerTypes' /\ UsedInThePast' /\ TermFollowsUse'
      BY <3>1, <3>2, <2>1, <1>0
      DEF ServerTypes, ServerInOrder, UsedInThePast, TermFollowsUse, Alive, Owners
    <3>4. EveryAccountCanSignIn'
      BY <3>1, <3>2, <2>4, <2>1, <1>0 DEF EveryAccountCanSignIn, ServerInOrder, ServerTypes
    <3> QED
      BY <3>2, <3>3, <3>4, <2>3, <1>b DEF ServerInOrder
  <2>5. CASE ~(EmailOf[d] \notin users /\ identity[d] = NoOne)
    BY <1>12, <2>3, <2>5, NothingWritten DEF CreateFromDiscord, server
  <2> QED
    BY <2>4, <2>5
<1> QED
  BY <1>1, <1>2, <1>3, <1>4, <1>5, <1>6, <1>7, <1>8, <1>9, <1>10, <1>11, <1>12 DEF Serves

LEMMA AnswerStep ==
    ASSUME SiteInOrder, NEW t \in Tabs, Answer(t) \/ Lost(t)
    PROVE  SiteInOrder'
<1>1. /\ jar \in Nat /\ oauth \in States /\ starts \in Nat /\ tab \in [Tabs -> Sides]
      /\ req[t] \in Requests
  BY DEF SiteInOrder, BrowserTypes, RequestsInOrder, ProperRequests
<1>2. NoState \in States
  BY DEF NoState, States
<1>3. ServerInOrder' /\ RequestsInOrder' /\ starts' \in Nat
  BY <1>1, ServerKept, IdleIsProper DEF SiteInOrder, RequestsInOrder, Answer, Lost
<1>4. \A status \in {"loading", "authenticated", "anonymous", "discord", "offline"} :
        Shows(status) \in Sides /\ \A s \in States : [Shows(status) EXCEPT !.state = s] \in Sides
  BY <1>2 DEF Shows, Sides
<1>5. CASE Answer(t)
  <2>1. req[t].token \in Nat /\ req[t].state \in States /\ req[t].set \in {"keep", "clear", "token"}
    BY <1>1 DEF Requests
  <2>2. AfterAnswer(t, req[t]) \in Sides
    BY <1>1, <1>4, <2>1 DEF AfterAnswer
  <2>3. jar' \in Nat
    BY <1>5, <1>1, <2>1 DEF Answer, NoToken
  <2>4. oauth' \in States
    BY <1>5, <1>1, <1>2, <2>1 DEF Answer
  <2>5. tab' \in [Tabs -> Sides]
    BY <1>5, <1>1, <2>2 DEF Answer
  <2> QED
    BY <1>3, <2>3, <2>4, <2>5 DEF SiteInOrder, BrowserTypes
<1>6. CASE Lost(t)
  <2>1. PICK side \in Sides : tab' = [tab EXCEPT ![t] = side]
    BY <1>6, <1>1, <1>4 DEF Lost
  <2> QED
    BY <1>6, <1>1, <1>3, <2>1 DEF Lost, SiteInOrder, BrowserTypes
<1> QED
  BY <1>5, <1>6

LEMMA SiteStep == SiteInOrder /\ [Next]_vars => SiteInOrder'
<1> SUFFICES ASSUME SiteInOrder, [Next]_vars PROVE SiteInOrder'
  OBVIOUS
<1>1. CASE Tick
  BY <1>1, TickStep
<1>2. ASSUME NEW t \in Tabs, Asks(t) \/ Resolves(t) \/ Serves(t) \/ Answer(t) \/ Lost(t)
      PROVE  SiteInOrder'
  BY <1>2, AsksStep, ResolvesStep, ServesStep, AnswerStep
<1>3. CASE UNCHANGED vars
  BY <1>3, ServerKept, BrowserKept DEF SiteInOrder, RequestsInOrder, vars
<1> QED
  BY <1>1, <1>2, <1>3 DEF Next

LEMMA SiteIsInOrder == Spec => []SiteInOrder
BY SiteInit, SiteStep, PTL DEF Spec

\* No step of the site writes the row of a token that was drawn and has ended.
LEMMA EndedStaysEnded ==
    ASSUME SiteInOrder, [Next]_vars,
           NEW k \in Tokens, k <= issued, sessions[k] = NoSession
    PROVE  sessions'[k] = NoSession
<1>1. /\ issued \in Nat /\ k \in Nat /\ sessions \in [Tokens -> Rows] /\ ~Alive(k)
  BY DEF SiteInOrder, ServerInOrder, ServerTypes, Tokens, Alive
<1>2. CASE UNCHANGED sessions
  BY <1>2
<1>3. ASSUME NEW t \in Tabs, Purge(t) \/ SlideSession(t) \/ Logout(t) \/ CreateSession(t)
      PROVE  sessions'[k] = NoSession
  <2>1. CASE Purge(t) \/ Logout(t)
    BY <2>1, <1>1 DEF Purge, Logout
  <2>2. CASE SlideSession(t)
    BY <2>2, <1>1 DEF SlideSession
  <2>3. CASE CreateSession(t)
    BY <2>3, <1>1 DEF CreateSession
  <2> QED
    BY <1>3, <2>1, <2>2, <2>3
<1>4. \/ UNCHANGED sessions
      \/ \E t \in Tabs : Purge(t) \/ SlideSession(t) \/ Logout(t) \/ CreateSession(t)
  <2>1. CASE Tick \/ UNCHANGED vars
    BY <2>1 DEF Tick, vars, server
  <2>2. ASSUME NEW t \in Tabs, Asks(t) \/ Answer(t) \/ Lost(t) PROVE UNCHANGED sessions
    BY <2>2 DEF Asks, Probe, UseAccount, SignIn, GoToDiscord, ReturnFromDiscord, Reload, Ask,
                Answer, Lost, server
  <2>3. ASSUME NEW t \in Tabs, Resolves(t) PROVE UNCHANGED sessions \/ Purge(t) \/ SlideSession(t)
    BY <2>3 DEF Resolves, NoSessionFound, FindExpired, FindLive, server
  <2>4. ASSUME NEW t \in Tabs, Serves(t) PROVE UNCHANGED sessions \/ Logout(t) \/ CreateSession(t)
    BY <2>4 DEF Serves, ServeAccount, Unlink, Login, Register, StartOauth, StateMismatch,
                ReadIdentityToLink, LinkIdentity, ReadIdentityToSignIn, CreateFromDiscord, server
  <2> QED
    BY <2>1, <2>2, <2>3, <2>4 DEF Next
<1> QED
  BY <1>2, <1>3, <1>4

-----------------------------------------------------------------------------
(* The back office *)

USE BackofficeAssumption

LEMMA BackofficeInit == B!Init => BackofficeInOrder
<1> SUFFICES ASSUME B!Init PROVE BackofficeInOrder
  OBVIOUS
<1> USE DEF B!Init
<1>1. B!Idle \in AdminRequests /\ B!Idle.step = "none"
  BY DEF B!Idle, AdminRequests, Codes, B!NoToken, B!NoCode
<1>2. AdminTypes
  BY <1>1 DEF AdminTypes, B!NoRow, B!NoSession, B!NoToken
<1>3. RowRemembers
  BY DEF RowRemembers
<1>4. CodesInOrder
  BY <1>1 DEF CodesInOrder
<1>5. B!OneCodeOneSession
  BY DEF B!OneCodeOneSession, B!NoSession
<1> QED
  BY <1>2, <1>3, <1>4, <1>5 DEF BackofficeInOrder

\* A page that waits for no code, in a step that touches no code and no verified session.
LEMMA PageMovesOn ==
    ASSUME BackofficeInOrder, NEW b \in Browsers, NEW r \in AdminRequests,
           r.step \notin {"accept", "verified"},
           adminReq' = [adminReq EXCEPT ![b] = r],
           step' \in Nat, drawn' \in Nat, adminIssued' \in Nat, shown' \subseteq Nat,
           adminJar' \in [Browsers -> Nat],
           adminSessions' \in [B!Tokens -> [expires : Nat, verified : BOOLEAN]],
           \A k \in B!Tokens : adminSessions'[k].verified => adminSessions[k].verified,
           UNCHANGED <<totp, accepted>>
    PROVE  BackofficeInOrder'
<1>1. AdminTypes'
  BY DEF BackofficeInOrder, AdminTypes
<1>2. RowRemembers'
  BY DEF BackofficeInOrder, RowRemembers
<1>3. CodesInOrder'
  BY DEF BackofficeInOrder, CodesInOrder, AdminTypes
<1>4. B!OneCodeOneSession'
  BY DEF BackofficeInOrder, B!OneCodeOneSession
<1> QED
  BY <1>1, <1>2, <1>3, <1>4 DEF BackofficeInOrder

LEMMA PageOnly ==
    ASSUME BackofficeInOrder, NEW b \in Browsers, NEW r \in AdminRequests,
           r.step \notin {"accept", "verified"},
           adminReq' = [adminReq EXCEPT ![b] = r],
           UNCHANGED <<step, totp, adminSessions, adminIssued, shown, accepted, adminJar>>,
           drawn' \in Nat
    PROVE  BackofficeInOrder'
<1>1. /\ step' \in Nat /\ adminIssued' \in Nat /\ shown' \subseteq Nat
      /\ adminJar' \in [Browsers -> Nat]
      /\ adminSessions' \in [B!Tokens -> [expires : Nat, verified : BOOLEAN]]
      /\ \A k \in B!Tokens : adminSessions'[k].verified => adminSessions[k].verified
  BY DEF BackofficeInOrder, AdminTypes
<1> QED
  BY <1>1, PageMovesOn

\* The answer a page gives: the cookie, and the secret it displays.
LEMMA ReplyIsRequest ==
    ASSUME BackofficeInOrder, NEW b \in Browsers, NEW k \in Nat, NEW secret \in Nat,
           B!Reply(b, k, secret)
    PROVE  \E r \in AdminRequests :
             r.step \notin {"accept", "verified"} /\ adminReq' = [adminReq EXCEPT ![b] = r]
<1> DEFINE r == [B!Idle EXCEPT !.page = adminReq[b].page, !.step = "done",
                               !.token = k, !.secret = secret]
<1>1. adminReq[b] \in AdminRequests
  BY DEF BackofficeInOrder, AdminTypes
<1>2. adminReq[b].page \in {"none", "login", "totp", "logout", "view", "code"}
  BY <1>1 DEF AdminRequests
<1>3. r \in AdminRequests /\ r.step = "done"
  <2>1. B!Idle \in AdminRequests
    BY DEF B!Idle, AdminRequests, Codes, B!NoToken, B!NoCode
  <2> QED
    BY <1>2, <2>1 DEF AdminRequests
<1> QED
  BY <1>3 DEF B!Reply

LEMMA Answers ==
    ASSUME BackofficeInOrder, NEW b \in Browsers, NEW k \in Nat, NEW secret \in Nat,
           B!Reply(b, k, secret),
           UNCHANGED <<step, totp, drawn, adminSessions, adminIssued, shown, accepted, adminJar>>
    PROVE  BackofficeInOrder'
BY ReplyIsRequest, PageOnly DEF BackofficeInOrder, AdminTypes

LEMMA GoesTo ==
    ASSUME BackofficeInOrder, NEW b \in Browsers,
           NEW s \in {"sent", "in", "drop", "create", "prepare", "enrol", "done"},
           B!GoTo(b, s),
           UNCHANGED <<step, totp, drawn, adminSessions, adminIssued, shown, accepted, adminJar>>
    PROVE  BackofficeInOrder'
<1>1. adminReq[b] \in AdminRequests /\ drawn \in Nat
  BY DEF BackofficeInOrder, AdminTypes
<1>2. /\ [adminReq[b] EXCEPT !.step = s] \in AdminRequests
      /\ [adminReq[b] EXCEPT !.step = s].step = s
  BY <1>1 DEF AdminRequests
<1>3. adminReq' = [adminReq EXCEPT ![b] = [adminReq[b] EXCEPT !.step = s]]
  BY DEF B!GoTo
<1> QED
  BY <1>1, <1>2, <1>3, PageOnly

\* The rows of sessions when one is deleted, whatever token the request carries.
LEMMA Deleted ==
    ASSUME AdminTypes, NEW k, adminSessions' = [adminSessions EXCEPT ![k] = B!NoSession]
    PROVE  /\ adminSessions' \in [B!Tokens -> [expires : Nat, verified : BOOLEAN]]
           /\ \A j \in B!Tokens : adminSessions'[j].verified => adminSessions[j].verified
BY DEF AdminTypes, B!NoSession

\* The UPDATE lets a code pass only above every code accepted before it.
LEMMA AcceptStep ==
    ASSUME BackofficeInOrder, NEW b \in Browsers, B!Accept(b)
    PROVE  BackofficeInOrder'
<1> DEFINE r == adminReq[b]
           c == [token |-> r.token, secret |-> r.code.secret, at |-> r.code.at]
<1>1. /\ r \in AdminRequests /\ r.token \in Nat /\ r.code.secret \in Nat /\ r.code.at \in Int
      /\ r.first \in BOOLEAN /\ r.step = "accept" /\ totp.confirmed \in BOOLEAN
      /\ totp.last \in Int /\ adminReq \in [Browsers -> AdminRequests]
      /\ totp \in [secret : Nat, confirmed : BOOLEAN, last : Int]
      /\ accepted \subseteq [token : Nat, secret : Nat, at : Int]
  BY DEF BackofficeInOrder, AdminTypes, AdminRequests, Codes, B!Accept, B!At
<1>2. CASE totp.last < r.code.at
  <2>1. /\ totp' = [totp EXCEPT !.last = r.code.at, !.confirmed = totp.confirmed \/ r.first]
        /\ accepted' = accepted \cup {c}
        /\ adminReq' = [adminReq EXCEPT ![b] = [r EXCEPT !.step = "verified"]]
        /\ UNCHANGED <<step, drawn, adminSessions, adminIssued, shown, adminJar>>
    BY <1>1, <1>2 DEF B!Accept, B!GoTo
  <2>2. r.first \/ totp.confirmed
    BY <1>1 DEF BackofficeInOrder, CodesInOrder
  <2>3. /\ totp' \in [secret : Nat, confirmed : BOOLEAN, last : Int]
        /\ totp'.confirmed = TRUE /\ totp'.last = r.code.at
    BY <1>1, <2>1, <2>2
  <2>4. c \in [token : Nat, secret : Nat, at : Int] /\ c.at = r.code.at /\ c.token = r.token
    BY <1>1
  <2>5. /\ [r EXCEPT !.step = "verified"] \in AdminRequests
        /\ [r EXCEPT !.step = "verified"].step = "verified"
        /\ [r EXCEPT !.step = "verified"].token = r.token
    BY <1>1 DEF AdminRequests
  <2> HIDE DEF r, c
  <2>6. AdminTypes'
    BY <1>1, <2>1, <2>3, <2>4, <2>5 DEF BackofficeInOrder, AdminTypes
  <2>7. \A d \in accepted : d.at \in Int /\ d.at <= totp.last
    BY <1>1 DEF BackofficeInOrder, RowRemembers
  <2>8. RowRemembers'
    BY <1>1, <1>2, <2>1, <2>3, <2>4, <2>7 DEF RowRemembers
  <2>9. CodesInOrder'
    <3>1. ASSUME NEW e \in Browsers, e # b
          PROVE  /\ adminReq'[e].step = "accept" => adminReq'[e].first \/ totp'.confirmed
                 /\ adminReq'[e].step = "verified" =>
                      \E d \in accepted' : d.token = adminReq'[e].token
      <4>1. adminReq'[e] = adminReq[e]
        BY <1>1, <2>1, <3>1
      <4> QED
        BY <4>1, <2>1, <2>3 DEF BackofficeInOrder, CodesInOrder
    <3>2. adminReq'[b].step = "verified" /\ \E d \in accepted' : d.token = adminReq'[b].token
      BY <1>1, <2>1, <2>4, <2>5
    <3> QED
      BY <3>1, <3>2 DEF CodesInOrder
  <2>10. B!OneCodeOneSession'
    <3>1. \A d, e \in accepted' : d.at = e.at => d = e
      BY <1>1, <1>2, <2>1, <2>4, <2>7 DEF BackofficeInOrder, B!OneCodeOneSession
    <3>2. \A k \in B!Tokens : adminSessions'[k].verified => \E d \in accepted' : d.token = k
      BY <2>1 DEF BackofficeInOrder, B!OneCodeOneSession
    <3> QED
      BY <3>1, <3>2 DEF B!OneCodeOneSession
  <2> QED
    BY <2>6, <2>8, <2>9, <2>10 DEF BackofficeInOrder
<1>3. CASE ~(totp.last < r.code.at)
  BY <1>3, GoesTo DEF B!Accept
<1> QED
  BY <1>2, <1>3

LEMMA MarkStep ==
    ASSUME BackofficeInOrder, NEW b \in Browsers, B!MarkTotpVerified(b)
    PROVE  BackofficeInOrder'
<1> DEFINE k == adminReq[b].token
<1>1. /\ adminReq[b] \in AdminRequests /\ k \in Nat /\ adminReq \in [Browsers -> AdminRequests]
      /\ adminSessions \in [B!Tokens -> [expires : Nat, verified : BOOLEAN]]
  BY DEF BackofficeInOrder, AdminTypes, AdminRequests
<1>2. \E c \in accepted : c.token = k
  BY DEF B!MarkTotpVerified, B!At, BackofficeInOrder, CodesInOrder
<1>3. UNCHANGED <<step, totp, drawn, adminIssued, shown, accepted, adminJar>>
  BY DEF B!MarkTotpVerified
<1>4. PICK r \in AdminRequests :
        r.step \notin {"accept", "verified"} /\ adminReq' = [adminReq EXCEPT ![b] = r]
  BY <1>1, ReplyIsRequest DEF B!MarkTotpVerified, B!Redirect
<1> HIDE DEF k
<1>5. /\ adminSessions' \in [B!Tokens -> [expires : Nat, verified : BOOLEAN]]
      /\ \A j \in B!Tokens : j # k => adminSessions'[j] = adminSessions[j]
  BY <1>1 DEF B!MarkTotpVerified, k, B!Alive
<1>6. AdminTypes'
  BY <1>1, <1>3, <1>4, <1>5 DEF BackofficeInOrder, AdminTypes
<1>7. RowRemembers'
  BY <1>3 DEF BackofficeInOrder, RowRemembers
<1>8. CodesInOrder'
  BY <1>1, <1>3, <1>4 DEF BackofficeInOrder, CodesInOrder
<1>9. B!OneCodeOneSession'
  BY <1>2, <1>3, <1>5 DEF BackofficeInOrder, B!OneCodeOneSession
<1> QED
  BY <1>6, <1>7, <1>8, <1>9 DEF BackofficeInOrder

\* A new secret is written only while no code was ever accepted.
LEMMA EnrolStep ==
    ASSUME BackofficeInOrder, NEW b \in Browsers, B!BeginEnrolment(b)
    PROVE  BackofficeInOrder'
<1>1. /\ adminReq[b] \in AdminRequests /\ adminReq[b].token \in Nat /\ adminReq[b].secret \in Nat
      /\ adminReq \in [Browsers -> AdminRequests]
      /\ totp \in [secret : Nat, confirmed : BOOLEAN, last : Int]
  BY DEF BackofficeInOrder, AdminTypes, AdminRequests
<1>2. CASE totp.confirmed
  BY <1>1, <1>2, Answers DEF B!BeginEnrolment
<1>3. CASE ~totp.confirmed
  <2>1. accepted = {}
    BY <1>3 DEF BackofficeInOrder, RowRemembers
  <2>2. UNCHANGED <<step, drawn, adminSessions, adminIssued, shown, accepted, adminJar>>
    BY DEF B!BeginEnrolment
  <2>3. totp' \in [secret : Nat, confirmed : BOOLEAN, last : Int] /\ ~totp'.confirmed
    BY <1>1, <1>3 DEF B!BeginEnrolment
  <2>4. PICK r \in AdminRequests :
          r.step \notin {"accept", "verified"} /\ adminReq' = [adminReq EXCEPT ![b] = r]
    BY <1>1, ReplyIsRequest DEF B!BeginEnrolment
  <2>5. AdminTypes'
    BY <2>2, <2>3, <2>4 DEF BackofficeInOrder, AdminTypes
  <2>6. RowRemembers' /\ B!OneCodeOneSession'
    BY <2>1, <2>2 DEF BackofficeInOrder, RowRemembers, B!OneCodeOneSession
  <2>7. CodesInOrder'
    BY <1>1, <1>3, <2>2, <2>4 DEF BackofficeInOrder, CodesInOrder
  <2> QED
    BY <2>5, <2>6, <2>7 DEF BackofficeInOrder
<1> QED
  BY <1>2, <1>3

LEMMA AsksAndAnswers ==
    ASSUME BackofficeInOrder, NEW b \in Browsers, B!Ask(b) \/ B!Answer(b) \/ B!Lost(b)
    PROVE  BackofficeInOrder'
<1>1. /\ step \in Nat /\ drawn \in Nat /\ adminIssued \in Nat /\ shown \subseteq Nat
      /\ adminJar \in [Browsers -> Nat] /\ adminReq[b] \in AdminRequests
      /\ adminSessions \in [B!Tokens -> [expires : Nat, verified : BOOLEAN]]
  BY DEF BackofficeInOrder, AdminTypes
<1>2. B!Idle \in AdminRequests /\ B!Idle.step = "none"
  BY DEF B!Idle, AdminRequests, Codes, B!NoToken, B!NoCode
<1>3. CASE B!Ask(b)
  <2>1. \A page \in {"login", "totp", "logout", "view"} :
          LET r == [B!Idle EXCEPT !.page = page, !.step = "sent", !.token = adminJar[b]]
          IN  r \in AdminRequests /\ r.step = "sent"
    BY <1>1, <1>2 DEF AdminRequests
  <2>2. \A s \in shown :
          LET r == [B!Idle EXCEPT !.page = "code", !.step = "sent", !.token = adminJar[b],
                                  !.code = [secret |-> s, at |-> step]]
          IN  r \in AdminRequests /\ r.step = "sent"
    <3>1. \A s \in shown : [secret |-> s, at |-> step] \in Codes
      BY <1>1 DEF Codes
    <3> QED
      BY <1>1, <1>2, <3>1 DEF AdminRequests
  <2>3. PICK r \in AdminRequests : r.step = "sent" /\ adminReq' = [adminReq EXCEPT ![b] = r]
    <3>1. \/ \E page \in {"login", "totp", "logout", "view"} :
               adminReq' = [adminReq EXCEPT ![b] = [B!Idle EXCEPT
                              !.page = page, !.step = "sent", !.token = adminJar[b]]]
          \/ \E s \in shown :
               adminReq' = [adminReq EXCEPT ![b] = [B!Idle EXCEPT
                              !.page = "code", !.step = "sent", !.token = adminJar[b],
                              !.code = [secret |-> s, at |-> step]]]
      BY <1>3 DEF B!Ask
    <3> QED
      BY <3>1, <2>1, <2>2
  <2> QED
    BY <1>1, <1>3, <2>3, PageOnly DEF B!Ask
<1>4. CASE B!Lost(b)
  BY <1>1, <1>2, <1>4, PageOnly DEF B!Lost
<1>5. CASE B!Answer(b)
  <2>1. adminReq[b].token \in Nat /\ adminReq[b].secret \in Nat
    BY <1>1 DEF AdminRequests
  <2>2. adminJar' \in [Browsers -> Nat] /\ shown' \subseteq Nat
    BY <1>1, <1>5, <2>1 DEF B!Answer
  <2>3. /\ adminReq' = [adminReq EXCEPT ![b] = B!Idle]
        /\ UNCHANGED <<step, totp, drawn, adminSessions, adminIssued, accepted>>
    BY <1>5 DEF B!Answer
  <2> QED
    BY <1>1, <1>2, <2>2, <2>3, PageMovesOn
<1> QED
  BY <1>3, <1>4, <1>5

LEMMA GuardStep ==
    ASSUME BackofficeInOrder, NEW b \in Browsers, B!Guard(b) \/ B!DropSession(b)
    PROVE  BackofficeInOrder'
<1>1. /\ adminReq[b] \in AdminRequests /\ adminReq[b].token \in Nat
      /\ AdminTypes /\ step \in Nat /\ drawn \in Nat /\ adminIssued \in Nat /\ shown \subseteq Nat
      /\ adminJar \in [Browsers -> Nat]
  BY DEF BackofficeInOrder, AdminTypes, AdminRequests
<1>2. CASE B!Guard(b)
  <2>1. \/ B!GoTo(b, "drop") \/ B!GoTo(b, "in")
        \/ B!Reply(b, adminReq[b].token, 0) \/ B!Reply(b, 0, 0)
    BY <1>2 DEF B!Guard, B!Redirect, B!NoToken
  <2> QED
    BY <1>1, <1>2, <2>1, GoesTo, Answers DEF B!Guard
<1>3. CASE B!DropSession(b)
  <2>1. PICK r \in AdminRequests :
          r.step \notin {"accept", "verified"} /\ adminReq' = [adminReq EXCEPT ![b] = r]
    <3>1. CASE adminReq[b].page = "login"
      <4> DEFINE r == [adminReq[b] EXCEPT !.step = "in", !.token = 0]
      <4>1. r \in AdminRequests /\ r.step = "in"
        BY <1>1 DEF AdminRequests
      <4>2. adminReq' = [adminReq EXCEPT ![b] = r]
        BY <1>1, <1>3, <3>1 DEF B!DropSession, B!NoToken, AdminTypes
      <4> QED
        BY <4>1, <4>2
    <3>2. CASE adminReq[b].page # "login"
      BY <1>3, <3>2, ReplyIsRequest DEF B!DropSession, B!NoToken
    <3> QED
      BY <3>1, <3>2
  <2> QED
    BY <1>1, <1>3, <2>1, Deleted, PageMovesOn DEF B!DropSession
<1> QED
  BY <1>2, <1>3

LEMMA PagesStep ==
    ASSUME BackofficeInOrder, NEW b \in Browsers, B!Pages(b)
    PROVE  BackofficeInOrder'
<1>1. /\ adminReq[b] \in AdminRequests /\ adminReq[b].token \in Nat
      /\ adminReq[b].secret \in Nat /\ adminReq[b].code \in Codes /\ adminReq[b].first \in BOOLEAN
      /\ AdminTypes /\ step \in Nat /\ drawn \in Nat /\ adminIssued \in Nat /\ shown \subseteq Nat
      /\ adminJar \in [Browsers -> Nat]
      /\ adminSessions \in [B!Tokens -> [expires : Nat, verified : BOOLEAN]]
      /\ totp \in [secret : Nat, confirmed : BOOLEAN, last : Int]
      /\ accepted \subseteq [token : Nat, secret : Nat, at : Int]
      /\ adminReq \in [Browsers -> AdminRequests]
  BY DEF BackofficeInOrder, AdminTypes, AdminRequests
<1>2. CASE B!CheckPassword(b)
  BY <1>1, <1>2, Answers, GoesTo DEF B!CheckPassword, B!NoToken
<1>3. CASE B!CreateSession(b)
  <2>1. adminIssued + 1 \in Nat /\ step + Lifetime \in Nat
    BY <1>1
  <2>2. /\ adminSessions' \in [B!Tokens -> [expires : Nat, verified : BOOLEAN]]
        /\ \A k \in B!Tokens : adminSessions'[k].verified => adminSessions[k].verified
    <3>1. adminSessions' = [adminSessions EXCEPT ![adminIssued + 1] =
                              [expires |-> step + Lifetime, verified |-> FALSE]]
      BY <1>3 DEF B!CreateSession
    <3> QED
      BY <1>1, <2>1, <3>1
  <2>3. PICK r \in AdminRequests :
          r.step \notin {"accept", "verified"} /\ adminReq' = [adminReq EXCEPT ![b] = r]
    BY <1>3, <2>1, ReplyIsRequest DEF B!CreateSession
  <2> QED
    BY <1>1, <1>3, <2>1, <2>2, <2>3, PageMovesOn DEF B!CreateSession
<1>4. CASE B!Logout(b)
  <2>1. PICK r \in AdminRequests :
          r.step \notin {"accept", "verified"} /\ adminReq' = [adminReq EXCEPT ![b] = r]
    BY <1>4, ReplyIsRequest DEF B!Logout, B!NoToken
  <2> QED
    BY <1>1, <1>4, <2>1, Deleted, PageMovesOn DEF B!Logout
<1>5. CASE B!View(b)
  BY <1>1, <1>5, Answers DEF B!View, B!Redirect
<1>6. CASE B!ReadRow(b)
  <2>1. CASE B!GoTo(b, "prepare")
    BY <1>6, <2>1, GoesTo DEF B!ReadRow
  <2>2. CASE adminReq' = [adminReq EXCEPT ![b].step = "accept", ![b].first = ~totp.confirmed]
    <3> DEFINE r == [adminReq[b] EXCEPT !.step = "accept", !.first = ~totp.confirmed]
    <3>1. totp.confirmed \in BOOLEAN
      BY <1>1
    <3>2. r \in AdminRequests /\ r.step = "accept" /\ r.first = ~totp.confirmed
      BY <1>1, <3>1 DEF AdminRequests
    <3>3. adminReq' = [adminReq EXCEPT ![b] = r]
      BY <1>1, <2>2
    <3>4. UNCHANGED <<step, totp, drawn, adminSessions, adminIssued, shown, accepted, adminJar>>
      BY <1>6 DEF B!ReadRow
    <3> HIDE DEF r
    <3>5. AdminTypes'
      BY <1>1, <3>2, <3>3, <3>4 DEF AdminTypes
    <3>6. CodesInOrder'
      BY <1>1, <3>2, <3>3, <3>4 DEF BackofficeInOrder, CodesInOrder
    <3>7. RowRemembers' /\ B!OneCodeOneSession'
      BY <3>4 DEF BackofficeInOrder, RowRemembers, B!OneCodeOneSession
    <3> QED
      BY <3>5, <3>6, <3>7 DEF BackofficeInOrder
  <2> QED
    BY <1>6, <2>1, <2>2 DEF B!ReadRow
<1>7. CASE B!Accept(b)
  BY <1>7, AcceptStep
<1>8. CASE B!MarkTotpVerified(b)
  BY <1>8, MarkStep
<1>9. CASE B!Prepare(b)
  <2>1. CASE totp = B!NoRow
    <3> DEFINE r == [adminReq[b] EXCEPT !.step = "enrol", !.secret = drawn + 1]
    <3>1. r \in AdminRequests /\ r.step = "enrol"
      <4>1. drawn + 1 \in Nat
        BY <1>1
      <4> QED
        BY <1>1, <4>1 DEF AdminRequests
    <3>2. adminReq' = [adminReq EXCEPT ![b] = r] /\ drawn' = drawn + 1
      BY <1>1, <1>9, <2>1 DEF B!Prepare
    <3> HIDE DEF r
    <3>3. /\ UNCHANGED <<step, totp, adminSessions, adminIssued, shown, accepted, adminJar>>
          /\ drawn' \in Nat
      BY <1>1, <1>9, <3>2 DEF B!Prepare
    <3> QED
      BY <3>1, <3>2, <3>3, PageOnly
  <2>2. CASE totp # B!NoRow
    <3>1. (IF totp.confirmed THEN 0 ELSE totp.secret) \in Nat
      BY <1>1
    <3> QED
      BY <1>1, <1>9, <2>2, <3>1, Answers DEF B!Prepare
  <2> QED
    BY <2>1, <2>2
<1>10. CASE B!BeginEnrolment(b)
  BY <1>10, EnrolStep
<1> QED
  BY <1>2, <1>3, <1>4, <1>5, <1>6, <1>7, <1>8, <1>9, <1>10 DEF B!Pages

LEMMA BackofficeStep == BackofficeInOrder /\ [B!Next]_(B!vars) => BackofficeInOrder'
<1> SUFFICES ASSUME BackofficeInOrder, [B!Next]_(B!vars) PROVE BackofficeInOrder'
  OBVIOUS
<1>1. CASE B!Tick \/ B!ChangeRole \/ UNCHANGED B!vars
  <2>1. /\ UNCHANGED <<totp, drawn, adminSessions, adminIssued, shown, accepted, adminJar, adminReq>>
        /\ step' \in Nat
    BY <1>1 DEF B!Tick, B!ChangeRole, B!vars, BackofficeInOrder, AdminTypes
  <2> QED
    BY <2>1 DEF BackofficeInOrder, AdminTypes, RowRemembers, CodesInOrder, B!OneCodeOneSession
<1>2. ASSUME NEW b \in Browsers,
             B!Ask(b) \/ B!Guard(b) \/ B!DropSession(b) \/ B!Pages(b) \/ B!Answer(b) \/ B!Lost(b)
      PROVE  BackofficeInOrder'
  BY <1>2, AsksAndAnswers, GuardStep, PagesStep
<1> QED
  BY <1>1, <1>2 DEF B!Next

LEMMA BackofficeIsInOrder == B!Spec => []BackofficeInOrder
BY BackofficeInit, BackofficeStep, PTL DEF B!Spec

\* A confirmed enrolment keeps its secret, and its last step only grows.
LEMMA ConfirmedStays ==
    ASSUME BackofficeInOrder, [B!Next]_(B!vars), totp.confirmed
    PROVE  totp'.confirmed /\ totp'.secret = totp.secret /\ totp'.last >= totp.last
<1>1. totp \in [secret : Nat, confirmed : BOOLEAN, last : Int]
  BY DEF BackofficeInOrder, AdminTypes
<1>2. CASE UNCHANGED totp
  BY <1>1, <1>2
<1>3. ASSUME NEW b \in Browsers, B!Accept(b), ~UNCHANGED totp
      PROVE  totp'.confirmed /\ totp'.secret = totp.secret /\ totp'.last >= totp.last
  <2>1. adminReq[b].code.at \in Int
    BY <1>3 DEF BackofficeInOrder, AdminTypes, AdminRequests, Codes
  <2>2. totp.last < adminReq[b].code.at /\
        totp' = [totp EXCEPT !.last = adminReq[b].code.at,
                             !.confirmed = totp.confirmed \/ adminReq[b].first]
    BY <1>1, <1>3 DEF B!Accept
  <2> QED
    BY <1>1, <2>1, <2>2
<1>4. UNCHANGED totp \/ \E b \in Browsers : B!Accept(b)
  <2>1. CASE B!Tick \/ B!ChangeRole \/ UNCHANGED B!vars
    BY <2>1 DEF B!Tick, B!ChangeRole, B!vars
  <2>2. ASSUME NEW b \in Browsers,
               B!Ask(b) \/ B!Guard(b) \/ B!DropSession(b) \/ B!Answer(b) \/ B!Lost(b)
        PROVE  UNCHANGED totp
    BY <2>2 DEF B!Ask, B!Guard, B!DropSession, B!Answer, B!Lost
  <2>3. ASSUME NEW b \in Browsers, B!Pages(b)
        PROVE  UNCHANGED totp \/ B!Accept(b)
    BY <2>3 DEF B!Pages, B!CheckPassword, B!CreateSession, B!Logout, B!View, B!ReadRow,
                B!MarkTotpVerified, B!Prepare, B!BeginEnrolment
  <2> QED
    BY <2>1, <2>2, <2>3 DEF B!Next
<1> QED
  BY <1>2, <1>3, <1>4

-----------------------------------------------------------------------------
(* The two programs on one database *)

(* A behaviour of the two programs is one of the site and one of the back      *)
(* office: the visitors of one program change nothing the other keeps, so each *)
(* program meets its specification whatever the other does (the back office    *)
(* reads users and keeps its own cookies, sessions and second factor).         *)
THEOREM ProgramsKeepApart == AccountsSpec => Spec /\ B!Spec
<1>1. AccountsInit => Init /\ B!Init
  BY DEF AccountsInit
<1>2. [AccountsNext]_<<program, vars, backofficeVars>> => [Next]_vars /\ [B!Next]_(B!vars)
  <2>1. UNCHANGED backofficeVars => UNCHANGED B!vars
    BY DEF backofficeVars, B!vars
  <2> QED
    BY <2>1 DEF AccountsNext
<1> QED
  BY <1>1, <1>2, PTL DEF AccountsSpec, Spec, B!Spec

(* The term of a live session is between SLIDE_UNDER_DAYS and SESSION_DAYS     *)
(* after its last use, for any number of tabs, accounts and identities, and    *)
(* any interleaving of the reads of the row with the slides and the sign-outs. *)
THEOREM TermFollowsUseHolds == AccountsSpec => []TermFollowsUse
<1>1. SiteInOrder => TermFollowsUse
  BY DEF SiteInOrder, ServerInOrder
<1> QED
  BY <1>1, ProgramsKeepApart, SiteIsInOrder, PTL

(* Every account keeps a password or a Discord identity, whatever sign-ups,    *)
(* links, unlinks and returns from Discord interleave or are lost.             *)
THEOREM EveryAccountCanSignInHolds == AccountsSpec => []EveryAccountCanSignIn
<1>1. SiteInOrder => EveryAccountCanSignIn
  BY DEF SiteInOrder, ServerInOrder
<1> QED
  BY <1>1, ProgramsKeepApart, SiteIsInOrder, PTL

(* A step of the clock opens one session of the back office, from any number   *)
(* of browsers that post its code at once, across the enrolment and its        *)
(* confirmation.                                                               *)
THEOREM OneCodeOneSessionHolds == AccountsSpec => []OneCodeOneSession
<1>1. BackofficeInOrder => OneCodeOneSession
  BY DEF BackofficeInOrder, OneCodeOneSession
<1> QED
  BY <1>1, ProgramsKeepApart, BackofficeIsInOrder, PTL

(* No step revives a session that was signed out or purged, and none replaces  *)
(* or weakens an enrolment once it is confirmed.                               *)
THEOREM DoneStaysDoneHolds == AccountsSpec => DoneStaysDone
<1>1. SiteInOrder /\ [Next]_vars =>
        [\A k \in Tokens : k <= issued /\ sessions[k] = NoSession => sessions'[k] = NoSession]_vars
  BY EndedStaysEnded
<1>2. BackofficeInOrder /\ [B!Next]_(B!vars) =>
        [totp.confirmed => /\ totp'.confirmed /\ totp'.secret = totp.secret
                           /\ totp'.last >= totp.last]_(B!vars)
  BY ConfirmedStays
<1>3. Spec => DeadStaysDead
  BY <1>1, SiteIsInOrder, PTL DEF Spec, DeadStaysDead
<1>4. B!Spec => B!EnrolmentStands
  BY <1>2, BackofficeIsInOrder, PTL DEF B!Spec, B!EnrolmentStands
<1> QED
  BY <1>3, <1>4, ProgramsKeepApart, PTL DEF DoneStaysDone

-----------------------------------------------------------------------------
(***************************************************************************)
(* Releases, backups and restorations                                      *)
(***************************************************************************)

(* The invariant *)

SoundBases == {b \in Bases : Sound(b)}
MaybeBases == SoundBases \cup {None}
Archives ==
    [holds : SoundBases, began : MaybeBases, kept : BOOLEAN, here : BOOLEAN, sum : BOOLEAN,
     fingerprint : MaybeBases, moved : SUBSET Tables, crossed : BOOLEAN, judged : BOOLEAN]
Reports == [purged : SUBSET Lines, converted : {Absent} \cup SUBSET Lines]
FileNames == {"schema", "001", "002", "004", "005", "006"}

\* Where a script may be: in its backup, holding an archive that is not verified yet or before,
\* or in what the operator's scripts do besides.
Holding == {"sum", "verify", "read", "compare"}
BackingUp == {"before", "dump"} \cup Holding
Releasing == {"archive", "replay", "simulate", "accept", "apply", "check"}
Replacing == {"drop", "rename", "swap", "reread"}
OperatorPlaces == {"idle", "stop", "fingerprint", "start"} \cup BackingUp \cup Releasing \cup Replacing

Clusters == [served : MaybeBases, verify : MaybeBases, staging : MaybeBases, previous : MaybeBases]
Containers == [image : {"old", "new"}, running : BOOLEAN]
BackupNotes == [archive : Nat, before : MaybeBases]
RunNotes ==
    [op : {"none", "deploy", "restore"}, archive : Nat, early : BOOLEAN, before : MaybeBases,
     middle : MaybeBases, journal : SUBSET Migrations,
     counts : [chosen : BOOLEAN, profiled : BOOLEAN] \cup {None},
     todo : Seq(FileNames), report : Reports \cup {None}, code : Nat]

TypeOK ==
    /\ db \in Clusters /\ app \in Containers /\ archives \in Seq(Archives)
    /\ pc \in [Scripts -> OperatorPlaces] /\ pc.cron \in {"idle"} \cup BackingUp
    /\ bk \in [Scripts -> BackupNotes] /\ run \in RunNotes
    /\ owed \subseteq SoundBases /\ agreed \subseteq Lines /\ disturbed \in BOOLEAN
    /\ chosen \in {"true", "false", None}
    /\ events \in Nat /\ runs \in Nat

\* A backup under way has its own archive, not judged, and what it fingerprinted first; a kept
\* one has fingerprinted something. A script out of its backup holds no archive.
OwnedBy(p) == pc[p] \in Holding =>
    /\ bk[p].archive \in DOMAIN archives
    /\ LET a == archives[bk[p].archive] IN
       /\ a.kept = (p = "operator") /\ ~a.judged /\ a.began = bk[p].before
       /\ pc[p] # "compare" => a.fingerprint = None
       /\ pc[p] = "sum" => ~a.sum
       /\ pc[p] = "compare" => a.fingerprint # None /\ bk[p].before # None
       /\ p = "operator" /\ pc[p] # "sum" => bk[p].before # None
BackupsInOrder ==
    /\ \A p \in Scripts : OwnedBy(p)
    /\ \A p \in Scripts : pc[p] \notin Holding => bk[p].archive = 0
    /\ \A p \in Scripts : pc[p] \notin BackingUp \ {"before"} => bk[p].before = None
    /\ pc.cron \in Holding /\ pc.operator \in Holding => bk.cron.archive # bk.operator.archive

\* Nobody holds it any more.
Free(i) == \A p \in Scripts : bk[p].archive # i

\* A kept archive stays; a fingerprint is that of the archive, unless the disk has spoilt it or
\* another's scratch database was read; one judged good agrees with what its backup began with.
Coherent(a) ==
    /\ a.kept => a.here
    /\ a.fingerprint # None => a.holds = a.fingerprint \/ ~a.sum \/ a.crossed
    /\ a.judged /\ a.fingerprint # None =>
           a.began # None /\ Differ(a.began, a.fingerprint) \subseteq a.moved
ArchivesInOrder == \A i \in DOMAIN archives : Coherent(archives[i])

\* A verified copy of a base, that no script will touch again.
CopyAt(i, base) == i \in DOMAIN archives /\ archives[i].kept /\ Free(i) /\ archives[i].fingerprint = base
Copied(base) == \E i \in DOMAIN archives : CopyAt(i, base)
OwedIsCopied == \A base \in owed : Copied(base)

\* Which script is where; the application is down, and there is a base to serve, while it works.
OperatorInOrder ==
    LET at == pc.operator IN
    /\ at \in Releasing \cup {"fingerprint"} => run.op = "deploy"
    /\ at \in Replacing => run.op = "restore"
    /\ at # "idle" => run.op # "none"
    /\ at \notin {"idle", "stop"} => ~app.running
    /\ at \in Holding \cup Releasing \cup {"drop", "rename"} => db.served # None
    /\ at = "swap" => db.served = None /\ db.previous # None

\* Between two commands nobody else moves the base, or somebody disturbs: it is as it was when it
\* was fingerprinted, then as it was copied, then as the files replayed make of it.
Marked(old, b) == "006/c" \in Journal(b) /\ "006/c" \notin Journal(old)
FlagsFollow(old, b) ==
    /\ Whole(b)
    /\ Journal(old) \subseteq Journal(b)
    /\ b.flags.profile = old.flags.profile
    /\ b.flags.hopt = IF Marked(old, b) /\ old.flags.hopt = "false" THEN "null" ELSE old.flags.hopt
Unmoved ==
    LET at == pc.operator IN
    /\ run.op = "deploy" /\ at \in BackingUp \cup Releasing => run.before # None
    /\ run.op = "deploy" /\ at \in BackingUp \cup {"archive"} /\ ~disturbed => db.served = run.before
    /\ at \in Holding \cup {"dump"} /\ bk.operator.before # None /\ ~disturbed =>
           db.served = bk.operator.before
CopyNoted ==
    LET at == pc.operator IN
    /\ at = "archive" => /\ run.archive \in DOMAIN archives /\ archives[run.archive].fingerprint # None
                         /\ archives[run.archive].kept /\ Free(run.archive)
    /\ at = "replay" => CopyAt(run.archive, run.before)
    /\ at \in {"drop", "rename"} /\ ~disturbed => Copied(db.served)
ReplayedSoFar ==
    LET at == pc.operator IN
    /\ at = "replay" /\ run.todo # <<>> /\ Head(run.todo) # "schema" => Whole(db.served)
    /\ at \in Releasing \ {"archive"} /\ ~disturbed /\ run.before # Empty =>
           run.journal = Journal(run.before) /\ FlagsFollow(run.before, db.served)
ReportShown ==
    /\ pc.operator \in {"accept", "apply"} => run.report \in Reports
    /\ pc.operator = "apply" => run.report.purged \subseteq agreed
BaseInOrder == Unmoved /\ CopyNoted /\ ReplayedSoFar /\ ReportShown

\* What is being restored agrees with what its backup began with.
RestorationInOrder ==
    run.op = "restore" /\ ~OperatorAt("idle") /\ ~run.early =>
        /\ run.archive \in DOMAIN archives /\ run.before # None
        /\ LET a == archives[run.archive] IN
           a.judged /\ a.began # None /\ Differ(run.before, a.began) \subseteq a.moved

\* A choice was made in a base 006 had migrated, and is still there, in the served base or in the
\* one a restoration is about to replace.
HoldsChoice(b) == "006/c" \in Journal(b) /\ b.flags.hopt = chosen
ChoiceInOrder ==
    chosen # None =>
        /\ db.served # None => HoldsChoice(db.served)
        /\ OperatorAt("swap") => HoldsChoice(db.previous)

IInv ==
    /\ TypeOK /\ BackupsInOrder /\ ArchivesInOrder /\ OwedIsCopied
    /\ OperatorInOrder /\ BaseInOrder /\ RestorationInOrder /\ ChoiceInOrder

-----------------------------------------------------------------------------
(* Bases *)

LEMMA BaseConstants ==
    /\ None \notin SoundBases /\ Empty \in SoundBases
    /\ Absent \notin Nat /\ Absent \notin Users /\ Absent \notin FlagRows
    /\ \A ids \in SUBSET Migrations : Absent # ids
    /\ \A s \in Starts : s.base \in SoundBases /\ s.events \in Nat
    /\ Absent \notin {"stale", "current", "lost"}
<1>1. Empty \in Bases
  BY DEF Empty, Bases, Tables
<1>2. \A s \in Starts : s.base \in Bases
  BY DeploymentAssumption DEF Sound
<1> QED
  BY <1>1, <1>2, DeploymentAssumption DEF SoundBases, Sound

LEMMA BaseFields ==
    ASSUME NEW b \in SoundBases
    PROVE  /\ b \in Bases
           /\ b.kept \in Nat \cup {Absent} /\ b.users \in Users \cup {Absent}
           /\ b.flags \in FlagRows \cup {Absent} /\ b.decks \in {"stale", "current", "lost", Absent}
           /\ b.groups \in {"plain", "builtin", Absent}
           /\ b.legacy \in {Absent} \cup SUBSET Lines /\ b.requirements \in {Absent} \cup SUBSET Lines
           /\ b.journal \in {Absent} \cup SUBSET Migrations
           /\ Journal(b) \subseteq Migrations /\ LegacyRows(b) \subseteq Lines
           /\ b = Empty => b.kept = Absent /\ Journal(b) = {} /\ b.flags = Absent
           /\ b # Empty => Whole(b)
           /\ Whole(b) => b.kept \in Nat /\ b.users \in Users /\ b.flags \in FlagRows
                           /\ b.decks \in {"stale", "current", "lost"}
           /\ Whole(b) <=> b.kept # Absent
<1>1. b \in Bases /\ (b = Empty \/ Whole(b))
  BY DEF SoundBases, Sound
<1>2. /\ b.kept \in Nat \cup {Absent} /\ b.users \in Users \cup {Absent}
      /\ b.flags \in FlagRows \cup {Absent} /\ b.decks \in {"stale", "current", "lost", Absent}
      /\ b.groups \in {"plain", "builtin", Absent}
      /\ b.legacy \in {Absent} \cup SUBSET Lines /\ b.requirements \in {Absent} \cup SUBSET Lines
      /\ b.journal \in {Absent} \cup SUBSET Migrations
  BY <1>1 DEF Bases
<1>3. Journal(b) \subseteq Migrations /\ LegacyRows(b) \subseteq Lines
  BY <1>2 DEF Journal, LegacyRows
<1>4. b = Empty => b.kept = Absent /\ Journal(b) = {} /\ b.flags = Absent
  BY DEF Empty, Tables, Journal
<1>5. Whole(b) => b.kept # Absent /\ b.users # Absent /\ b.flags # Absent /\ b.decks # Absent
  BY DEF Whole
<1> QED
  BY <1>1, <1>2, <1>3, <1>4, <1>5

\* A base with the same tables, but for what is set, is a base.
LEMMA WrongSound ==
    ASSUME NEW b \in SoundBases
    PROVE  Wrong(b) \in SoundBases
<1>1. Wrong(b) \in Bases
  BY BaseFields DEF Wrong, Bases
<1>2. CASE b = Empty
  <2>1. Wrong(b) = b
    BY <1>2 DEF Wrong, Empty, Tables
  <2> QED
    BY <2>1
<1>3. CASE b # Empty
  <2>1. Whole(Wrong(b))
    BY <1>3, BaseFields, BaseConstants DEF Whole, Wrong, Bases
  <2> QED
    BY <1>1, <2>1 DEF SoundBases, Sound
<1> QED
  BY <1>2, <1>3

LEMMA DifferNone ==
    ASSUME NEW a \in SoundBases, NEW b \in SoundBases, Differ(a, b) = {}
    PROVE  a = b
<1>1. a \in Bases /\ b \in Bases
  BY DEF SoundBases
<1>2. \A t \in Tables : a[t] = b[t]
  BY DEF Differ
<1>3. /\ a.kept = b.kept /\ a.users = b.users /\ a.flags = b.flags /\ a.decks = b.decks
      /\ a.groups = b.groups /\ a.legacy = b.legacy /\ a.requirements = b.requirements
      /\ a.journal = b.journal
  BY <1>2 DEF Tables
<1> QED
  BY <1>1, <1>3 DEF Bases


LEMMA JournaledBase ==
    ASSUME NEW b \in Bases, Whole(b), NEW id \in Migrations
    PROVE  LET r == Journaled(b, id) IN
           /\ r \in Bases /\ Whole(r) /\ Journal(r) = Journal(b) \cup {id}
           /\ r.flags = b.flags
<1> DEFINE r == Journaled(b, id)
<1>0. Journal(b) \subseteq Migrations
  BY DEF Bases, Journal
<1>1. r \in Bases /\ r.flags = b.flags /\ r.journal = Journal(b) \cup {id}
  BY <1>0 DEF Journaled, Bases
<1>2. Whole(r)
  BY DEF Journaled, Whole, Bases
<1>3. Journal(r) = Journal(b) \cup {id}
  BY <1>0, <1>1, BaseConstants DEF Journal
<1> QED
  BY <1>1, <1>2, <1>3

LEMMA FlagsFollowOn ==
    ASSUME NEW a, NEW b, NEW c, FlagsFollow(a, b), FlagsFollow(b, c)
    PROVE  FlagsFollow(a, c)
BY DEF FlagsFollow, Marked

LEMMA FlagsFollowThemselves ==
    ASSUME NEW b, Whole(b)
    PROVE  FlagsFollow(b, b)
BY DEF FlagsFollow, Marked

LEMMA SchemaBase ==
    ASSUME NEW b \in SoundBases
    PROVE  /\ Schema(b) \in Bases /\ Whole(Schema(b))
           /\ Whole(b) => FlagsFollow(b, Schema(b))
<1> DEFINE r == Schema(b)
<1>1. r \in Bases
  <2>1. /\ Created(b, "kept", 0) \in Nat
        /\ Created(b, "users", [rows |-> 0, role |-> "plain"]) \in Users
        /\ Created(b, "flags", [hopt |-> "null", profile |-> FALSE, choice |-> "plain"]) \in FlagRows
        /\ Created(b, "decks", "stale") \in {"stale", "current", "lost"}
        /\ (IF "003" \in Journal(b) THEN b.legacy ELSE Created(b, "legacy", {})) \in {Absent} \cup SUBSET Lines
    BY BaseFields DEF Created, Users, FlagRows
  <2> QED
    BY ZenonT(30), <2>1, BaseFields DEF Schema, Bases
<1>2. /\ r.kept = Created(b, "kept", 0)
      /\ r.users = Created(b, "users", [rows |-> 0, role |-> "plain"])
      /\ r.flags = Created(b, "flags", [hopt |-> "null", profile |-> FALSE, choice |-> "plain"])
      /\ r.decks = Created(b, "decks", "stale")
      /\ r.journal = b.journal
  BY BaseFields DEF Schema, Bases
<1>3. r.kept # Absent /\ r.users # Absent /\ r.flags # Absent /\ r.decks # Absent
  <2>1. 0 # Absent /\ "stale" # Absent
    BY BaseConstants
  <2>2. [rows |-> 0, role |-> "plain"] # Absent
    <3>1. [rows |-> 0, role |-> "plain"] \in Users
      BY DEF Users
    <3> QED
      BY <3>1, BaseConstants
  <2>3. [hopt |-> "null", profile |-> FALSE, choice |-> "plain"] # Absent
    <3>1. [hopt |-> "null", profile |-> FALSE, choice |-> "plain"] \in FlagRows
      BY DEF FlagRows
    <3> QED
      BY <3>1, BaseConstants
  <2> QED
    BY <1>2, <2>1, <2>2, <2>3 DEF Created
<1>4. Whole(r)
  BY <1>3 DEF Whole
<1>5. ASSUME Whole(b)
      PROVE  FlagsFollow(b, r)
  <2>1. r.flags = b.flags
    BY <1>2, <1>5 DEF Created, Whole
  <2>2. Journal(r) = Journal(b)
    BY <1>2 DEF Journal
  <2> QED
    BY <1>4, <2>1, <2>2 DEF FlagsFollow, Marked
<1> QED
  BY <1>1, <1>4, <1>5

\* Tables that are neither the account's flags nor the journal may be rewritten freely.
LEMMA Rewritten ==
    ASSUME NEW b \in Bases, Whole(b), NEW r \in Bases, Whole(r), r.flags = b.flags, r.journal = b.journal
    PROVE  /\ FlagsFollow(b, r) /\ Journal(r) = Journal(b)
           /\ \A id \in Migrations :
                 id # "006/c" => /\ Journaled(r, id) \in Bases /\ Whole(Journaled(r, id))
                                 /\ FlagsFollow(b, Journaled(r, id))
<1>1. Journal(r) = Journal(b)
  BY DEF Journal
<1>2. FlagsFollow(b, r)
  BY <1>1 DEF FlagsFollow, Marked
<1>3. ASSUME NEW id \in Migrations, id # "006/c"
      PROVE  /\ Journaled(r, id) \in Bases /\ Whole(Journaled(r, id))
             /\ FlagsFollow(b, Journaled(r, id))
  <2>1. /\ Journaled(r, id) \in Bases /\ Whole(Journaled(r, id))
        /\ Journal(Journaled(r, id)) = Journal(r) \cup {id} /\ Journaled(r, id).flags = r.flags
    BY JournaledBase
  <2> QED
    BY <1>1, <1>3, <2>1 DEF FlagsFollow, Marked
<1> QED
  BY <1>1, <1>2, <1>3

LEMMA Migrate001Base ==
    ASSUME NEW b \in Bases, Whole(b)
    PROVE  Migrate001(b) \in Bases /\ Whole(Migrate001(b)) /\ FlagsFollow(b, Migrate001(b))
<1> DEFINE made == [b EXCEPT !.requirements = Created(b, "requirements", {})]
           moved == [made EXCEPT !.requirements = LegacyRows(b) \cap CardRows, !.decks = "stale"]
<1>1. made \in Bases /\ Whole(made) /\ made.flags = b.flags /\ made.journal = b.journal
  <2>1. Created(b, "requirements", {}) \in {Absent} \cup SUBSET Lines
    BY DEF Created, Bases
  <2> QED
    BY <2>1 DEF Bases, Whole
<1>2. moved \in Bases /\ Whole(moved) /\ moved.flags = b.flags /\ moved.journal = b.journal
  <2>1. LegacyRows(b) \cap CardRows \in {Absent} \cup SUBSET Lines /\ "stale" # Absent
    BY BaseConstants DEF Lines
  <2> HIDE DEF made
  <2> QED
    BY <1>1, <2>1 DEF Bases, Whole
<1>3. CASE "001" \in Journal(b)
  <2>1. Migrate001(b) = made
    BY <1>3 DEF Migrate001
  <2> HIDE DEF made
  <2> QED
    BY <1>1, <2>1, Rewritten
<1>4. CASE "001" \notin Journal(b)
  <2>1. Migrate001(b) = Journaled(moved, "001")
    BY <1>4 DEF Migrate001
  <2> HIDE DEF made, moved
  <2> QED
    BY <1>2, <2>1, Rewritten DEF Migrations
<1> QED
  BY <1>3, <1>4

LEMMA Migrate002Base ==
    ASSUME NEW b \in Bases, Whole(b)
    PROVE  Migrate002(b) \in Bases /\ Whole(Migrate002(b)) /\ FlagsFollow(b, Migrate002(b))
<1> DEFINE made == [b EXCEPT !.groups = Created(b, "groups", "plain")]
           moved == [made EXCEPT !.decks = "stale"]
<1>1. made \in Bases /\ Whole(made) /\ made.flags = b.flags /\ made.journal = b.journal
  <2>1. Created(b, "groups", "plain") \in {"plain", "builtin", Absent}
    BY DEF Created, Bases
  <2> QED
    BY <2>1 DEF Bases, Whole
<1>2. moved \in Bases /\ Whole(moved) /\ moved.flags = b.flags /\ moved.journal = b.journal
  <2>1. "stale" # Absent
    BY BaseConstants
  <2> HIDE DEF made
  <2> QED
    BY <1>1, <2>1 DEF Bases, Whole
<1>3. CASE "002" \in Journal(b)
  <2>1. Migrate002(b) = made
    BY <1>3 DEF Migrate002
  <2> HIDE DEF made
  <2> QED
    BY <1>1, <2>1, Rewritten
<1>4. CASE "002" \notin Journal(b)
  <2>1. Migrate002(b) = Journaled(moved, "002")
    BY <1>4 DEF Migrate002
  <2> HIDE DEF made, moved
  <2> QED
    BY <1>2, <2>1, Rewritten DEF Migrations
<1> QED
  BY <1>3, <1>4

LEMMA Migrate005Base ==
    ASSUME NEW b \in Bases, Whole(b)
    PROVE  Migrate005(b) \in Bases /\ Whole(Migrate005(b)) /\ FlagsFollow(b, Migrate005(b))
<1> DEFINE moved == [b EXCEPT !.users.role = IF @ = "plain" THEN "user" ELSE @]
<1>0. b.users \in Users
  BY DEF Bases, Whole
<1>1. moved \in Bases /\ Whole(moved) /\ moved.flags = b.flags /\ moved.journal = b.journal
  <2> DEFINE u == [b.users EXCEPT !.role = IF @ = "plain" THEN "user" ELSE @]
  <2>1. u \in Users /\ u # Absent
    <3>1. u \in Users
      BY <1>0 DEF Users
    <3> QED
      BY <3>1, BaseConstants
  <2>2. moved = [b EXCEPT !.users = u]
    BY DEF Bases
  <2> HIDE DEF u, moved
  <2> QED
    BY <2>1, <2>2 DEF Bases, Whole
<1>2. Migrate005(b) = Journaled(moved, "005")
  BY DEF Migrate005
<1> HIDE DEF moved
<1> QED
  BY <1>1, <1>2, Rewritten DEF Migrations

LEMMA Migrate006Base ==
    ASSUME NEW b \in Bases, Whole(b)
    PROVE  Migrate006(b) \in Bases /\ Whole(Migrate006(b)) /\ FlagsFollow(b, Migrate006(b))
<1> DEFINE f == [b.flags EXCEPT !.choice = IF @ = "plain" THEN "no" ELSE @]
           made == [b EXCEPT !.flags = f]
           g == [made.flags EXCEPT !.hopt = IF @ = "false" THEN "null" ELSE @,
                                   !.choice = IF made.flags.profile THEN "yes" ELSE "no"]
           moved == [made EXCEPT !.flags = g, !.groups = "builtin", !.decks = "stale"]
           migrated == Journaled(moved, "006/c")
<1>0. b.flags \in FlagRows
  BY DEF Bases, Whole
<1>1. /\ f \in FlagRows /\ f # Absent
      /\ f.profile = b.flags.profile /\ f.hopt = b.flags.hopt
  <2>1. f \in FlagRows /\ f.profile = b.flags.profile /\ f.hopt = b.flags.hopt
    BY <1>0 DEF FlagRows
  <2> QED
    BY <2>1, BaseConstants
<1>2. Choices(b) = made
  BY DEF Choices, Bases
<1>3. made \in Bases /\ Whole(made) /\ made.flags = f /\ made.journal = b.journal
  <2> HIDE DEF f
  <2> QED
    BY <1>1 DEF Bases, Whole
<1>4. Journal(made) = Journal(b)
  BY <1>3 DEF Journal
<1>5. ASSUME "006/c" \in Journal(b)
      PROVE  Migrate006(b) \in Bases /\ Whole(Migrate006(b)) /\ FlagsFollow(b, Migrate006(b))
  <2>1. Migrate006(b) = Journaled(made, "006")
    BY <1>2, <1>4, <1>5 DEF Migrate006
  <2> HIDE DEF made, f
  <2>2. /\ Migrate006(b) \in Bases /\ Whole(Migrate006(b))
        /\ Journal(Migrate006(b)) = Journal(b) \cup {"006"}
        /\ Migrate006(b).flags = f
    BY <1>3, <1>4, <2>1, JournaledBase DEF Migrations
  <2> QED
    BY <1>1, <1>5, <2>2 DEF FlagsFollow, Marked
<1>6. ASSUME "006/c" \notin Journal(b)
      PROVE  Migrate006(b) \in Bases /\ Whole(Migrate006(b)) /\ FlagsFollow(b, Migrate006(b))
  <2>1. /\ g \in FlagRows /\ g # Absent /\ g.profile = b.flags.profile
        /\ g.hopt = IF b.flags.hopt = "false" THEN "null" ELSE b.flags.hopt
    <3> HIDE DEF made, f
    <3>1. /\ g \in FlagRows /\ g.profile = b.flags.profile
          /\ g.hopt = IF b.flags.hopt = "false" THEN "null" ELSE b.flags.hopt
      BY <1>1, <1>3 DEF FlagRows
    <3> QED
      BY <3>1, BaseConstants
  <2>2. MigrateData(made) = migrated
    <3> HIDE DEF made, f
    <3> QED
      BY ZenonT(30), <1>3 DEF MigrateData, Bases
  <2>3. Migrate006(b) = Journaled(migrated, "006")
    <3> HIDE DEF made, migrated
    <3> QED
      BY <1>2, <1>4, <1>6, <2>2 DEF Migrate006
  <2>4. moved \in Bases /\ Whole(moved) /\ moved.flags = g /\ moved.journal = b.journal
    <3>1. "stale" # Absent
      BY BaseConstants
    <3> HIDE DEF made, g
    <3> QED
      BY <1>3, <2>1, <3>1 DEF Bases, Whole
  <2> HIDE DEF made, moved, f, g
  <2>5. Journal(moved) = Journal(b)
    BY <2>4 DEF Journal
  <2>6. /\ migrated \in Bases /\ Whole(migrated)
        /\ Journal(migrated) = Journal(b) \cup {"006/c"} /\ migrated.flags = g
    BY <2>4, <2>5, JournaledBase DEF Migrations
  <2> HIDE DEF migrated
  <2>7. /\ Migrate006(b) \in Bases /\ Whole(Migrate006(b))
        /\ Journal(Migrate006(b)) = Journal(b) \cup {"006", "006/c"}
        /\ Migrate006(b).flags = g
    BY <2>3, <2>6, JournaledBase DEF Migrations
  <2> QED
    BY <1>6, <2>1, <2>7 DEF FlagsFollow, Marked
<1> QED
  BY <1>5, <1>6

\* One file replayed: the base is whole afterwards, and the flags are as 006 says.
LEMMA ReplayedBase ==
    ASSUME NEW b \in SoundBases, NEW file \in FileNames, file # "schema" => Whole(b)
    PROVE  /\ Replayed(b, file) \in SoundBases /\ Whole(Replayed(b, file))
           /\ Whole(b) => FlagsFollow(b, Replayed(b, file))
<1>0. b \in Bases
  BY DEF SoundBases
<1> DEFINE r == Replayed(b, file)
<1>1. CASE file = "schema"
  <2>1. r = Schema(b)
    BY <1>1 DEF Replayed
  <2> QED
    BY <2>1, SchemaBase DEF SoundBases, Sound
<1>2. ASSUME file # "schema"
      PROVE  r \in Bases /\ Whole(r) /\ FlagsFollow(b, r)
  <2>0. Whole(b)
    BY <1>2
  <2>1. CASE file = "001"
    <3>1. r = Migrate001(b)
      BY <2>1 DEF Replayed
    <3> QED
      BY <1>0, <2>0, <3>1, Migrate001Base
  <2>2. CASE file = "002"
    <3>1. r = Migrate002(b)
      BY <2>2 DEF Replayed
    <3> QED
      BY <1>0, <2>0, <3>1, Migrate002Base
  <2>3. CASE file = "004"
    <3>1. r = Journaled(b, "004")
      BY <2>3 DEF Replayed
    <3> QED
      BY <1>0, <2>0, <3>1, Rewritten DEF Migrations
  <2>4. CASE file = "005"
    <3>1. r = Migrate005(b)
      BY <2>4 DEF Replayed
    <3> QED
      BY <1>0, <2>0, <3>1, Migrate005Base
  <2>5. CASE file = "006"
    <3>1. r = Migrate006(b)
      BY <2>5 DEF Replayed
    <3> QED
      BY <1>0, <2>0, <3>1, Migrate006Base
  <2> QED
    BY <1>2, <2>1, <2>2, <2>3, <2>4, <2>5 DEF FileNames
<1> QED
  BY <1>1, <1>2 DEF SoundBases, Sound

LEMMA PurgedBase ==
    ASSUME NEW b \in SoundBases, Whole(b)
    PROVE  Purged(b) \in SoundBases /\ Whole(Purged(b)) /\ FlagsFollow(b, Purged(b))
<1> DEFINE r == [b EXCEPT !.legacy = Absent, !.requirements = Absent]
<1>1. b \in Bases
  BY DEF SoundBases
<1>2. r \in Bases /\ Whole(r) /\ r.flags = b.flags /\ r.journal = b.journal
  BY <1>1 DEF Bases, Whole
<1>3. Purged(b) = Journaled(r, "003")
  BY DEF Purged
<1> HIDE DEF r
<1> QED
  BY <1>1, <1>2, <1>3, Rewritten DEF Migrations, SoundBases, Sound

-----------------------------------------------------------------------------
(* Types *)

LEMMA IdleRun == \A code \in Nat : [NoRun EXCEPT !.code = code] \in RunNotes /\ NoRun \in RunNotes
<1>1. <<>> \in Seq(FileNames)
  BY EmptySeq
<1> QED
  BY <1>1 DEF NoRun, RunNotes, MaybeBases

LEMMA FilesAreNamed == Files \in Seq(FileNames) /\ AfterPurge \in Seq(FileNames)
  BY DEF Files, AfterPurge, FileNames

LEMMA InitTypes == DeploymentInit => TypeOK
<1> SUFFICES ASSUME DeploymentInit
             PROVE  TypeOK
  OBVIOUS
<1>1. /\ db \in Clusters /\ events \in Nat
  <2>1. PICK s \in Starts : /\ db = [served |-> s.base, verify |-> None, staging |-> None, previous |-> None]
                            /\ events = s.events
    BY DEF DeploymentInit
  <2>2. s.base \in SoundBases /\ s.events \in Nat
    BY BaseConstants
  <2> QED
    BY <2>1, <2>2 DEF Clusters, MaybeBases
<1>2. archives \in Seq(Archives)
  BY EmptySeq DEF DeploymentInit
<1>3. run \in RunNotes
  BY IdleRun DEF DeploymentInit
<1>4. bk \in [Scripts -> BackupNotes]
  BY DEF DeploymentInit, NoBackup, BackupNotes, MaybeBases
<1>5. pc \in [Scripts -> OperatorPlaces] /\ pc.cron \in {"idle"} \cup BackingUp
  BY DEF DeploymentInit, OperatorPlaces, Scripts
<1>6. app \in Containers
  BY DEF DeploymentInit, Containers
<1> QED
  BY <1>1, <1>2, <1>3, <1>4, <1>5, <1>6 DEF DeploymentInit, TypeOK

\* The archives change in four ways only.
LEMMA OneNoted ==
    ASSUME TypeOK, BackupsInOrder, NEW p \in Scripts, pc[p] \in Holding, NEW a \in Archives, Noted(p, a)
    PROVE  /\ archives' \in Seq(Archives) /\ DOMAIN archives' = DOMAIN archives
           /\ bk[p].archive \in DOMAIN archives /\ archives'[bk[p].archive] = a
           /\ \A i \in DOMAIN archives : i # bk[p].archive => archives'[i] = archives[i]
<1>1. bk[p].archive \in DOMAIN archives /\ archives \in Seq(Archives)
  BY DEF TypeOK, BackupsInOrder, OwnedBy
<1> QED
  BY <1>1, ExceptSeq DEF Noted

LEMMA OneAdded ==
    ASSUME TypeOK, NEW a \in Archives, archives' = Append(archives, a)
    PROVE  /\ archives' \in Seq(Archives) /\ DOMAIN archives' = 1..(Len(archives) + 1)
           /\ DOMAIN archives = 1..Len(archives) /\ Len(archives) \in Nat
           /\ archives'[Len(archives) + 1] = a
           /\ \A i \in DOMAIN archives : archives'[i] = archives[i]
BY AppendProperties DEF TypeOK

LEMMA SomeExpired ==
    ASSUME TypeOK, BackupsInOrder, NEW p \in Scripts, Sum(p)
    PROVE  /\ archives' \in Seq(Archives) /\ DOMAIN archives' = DOMAIN archives
           /\ bk[p].archive \in DOMAIN archives
           /\ archives'[bk[p].archive] = [archives[bk[p].archive] EXCEPT !.sum = TRUE]
           /\ \A i \in DOMAIN archives : i # bk[p].archive =>
                 \/ archives'[i] = archives[i]
                 \/ /\ archives'[i] = [archives[i] EXCEPT !.here = FALSE]
                    /\ ~archives[i].kept
<1>1. bk[p].archive \in DOMAIN archives /\ archives \in Seq(Archives)
  BY DEF TypeOK, BackupsInOrder, OwnedBy, Sum, Holding
<1>2. PICK old \in SUBSET {i \in DOMAIN archives : ~archives[i].kept /\ i # bk[p].archive} :
         archives' = [i \in DOMAIN archives |->
                         CASE i = bk[p].archive -> [archives[i] EXCEPT !.sum = TRUE]
                           [] i \in old -> [archives[i] EXCEPT !.here = FALSE]
                           [] OTHER -> archives[i]]
  <2>1. PICK old \in IF p = "cron" THEN Expired(p) ELSE {{}} :
         archives' = [i \in DOMAIN archives |->
                         CASE i = bk[p].archive -> [archives[i] EXCEPT !.sum = TRUE]
                           [] i \in old -> [archives[i] EXCEPT !.here = FALSE]
                           [] OTHER -> archives[i]]
    BY DEF Sum
  <2> QED
    BY <2>1 DEF Expired
<1>3. DOMAIN archives' = DOMAIN archives
  BY <1>2
<1>4. \A i \in DOMAIN archives :
         /\ i = bk[p].archive => archives'[i] = [archives[i] EXCEPT !.sum = TRUE]
         /\ i # bk[p].archive /\ i \in old =>
               archives'[i] = [archives[i] EXCEPT !.here = FALSE] /\ ~archives[i].kept
         /\ i # bk[p].archive /\ i \notin old => archives'[i] = archives[i]
  BY <1>2
<1>5. \A i \in DOMAIN archives : archives'[i] \in Archives
  <2> TAKE i \in DOMAIN archives
  <2>1. archives[i] \in Archives
    BY <1>1, ElementOfSeq
  <2>2. CASE i = bk[p].archive
    BY ZenonT(30), <1>4, <2>1, <2>2 DEF Archives
  <2>3. CASE i # bk[p].archive /\ i \in old
    BY <1>4, <2>1, <2>3 DEF Archives
  <2>4. CASE i # bk[p].archive /\ i \notin old
    BY <1>4, <2>1, <2>4
  <2> QED
    BY <2>2, <2>3, <2>4
<1>6. archives' \in Seq(Archives)
  <2>1. DOMAIN archives = 1..Len(archives) /\ Len(archives) \in Nat
    BY <1>1, LenProperties
  <2>2. archives' \in [1..Len(archives) -> Archives]
    BY <1>2, <1>5, <2>1
  <2> QED
    BY <2>1, <2>2, SeqDef
<1>7. \A i \in DOMAIN archives : i # bk[p].archive =>
         \/ archives'[i] = archives[i]
         \/ /\ archives'[i] = [archives[i] EXCEPT !.here = FALSE]
            /\ ~archives[i].kept
  <2> TAKE i \in DOMAIN archives
  <2> QED
    BY <1>4
<1>8. archives'[bk[p].archive] = [archives[bk[p].archive] EXCEPT !.sum = TRUE]
  BY <1>1, <1>4
<1> QED
  BY <1>1, <1>3, <1>6, <1>7, <1>8

LEMMA OneSpoilt ==
    ASSUME TypeOK, Spoil
    PROVE  /\ archives' \in Seq(Archives) /\ DOMAIN archives' = DOMAIN archives
           /\ \A i \in DOMAIN archives :
                 \/ archives'[i] = archives[i]
                 \/ archives'[i] = [archives[i] EXCEPT !.holds = Wrong(@), !.sum = FALSE]
<1>1. PICK i \in DOMAIN archives : archives' = [archives EXCEPT ![i].holds = Wrong(@), ![i].sum = FALSE]
  BY DEF Spoil
<1> DEFINE a == [archives[i] EXCEPT !.holds = Wrong(@), !.sum = FALSE]
<1>2. archives \in Seq(Archives) /\ archives[i] \in Archives /\ i \in 1..Len(archives)
  BY ElementOfSeq DEF TypeOK
<1>3. a \in Archives
  BY <1>2, WrongSound DEF Archives
<1>4. archives' = [archives EXCEPT ![i] = a]
  BY <1>1, <1>2
<1>5. archives' \in Seq(Archives) /\ Len(archives') = Len(archives)
      /\ \A j \in 1..Len(archives) : archives'[j] = IF j = i THEN a ELSE archives[j]
  <2> HIDE DEF a
  <2> QED
    BY <1>2, <1>3, <1>4, ExceptSeq
<1>6. DOMAIN archives' = DOMAIN archives
  BY <1>2, <1>5, LenProperties
<1>7. ASSUME NEW j \in DOMAIN archives
      PROVE  \/ archives'[j] = archives[j]
             \/ archives'[j] = [archives[j] EXCEPT !.holds = Wrong(@), !.sum = FALSE]
  <2>1. j \in 1..Len(archives)
    BY <1>2, LenProperties
  <2>2. CASE j = i
    BY <1>5, <2>1, <2>2
  <2>3. CASE j # i
    <3> HIDE DEF a
    <3> QED
      BY <1>5, <2>1, <2>3
  <2> QED
    BY <2>2, <2>3
<1> QED
  BY <1>5, <1>6, <1>7

LEMMA BudgetTypes == TypeOK /\ (Works \/ Happens) => events' \in Nat /\ runs' \in Nat
BY DEF TypeOK, Works, Happens, budget

LEMMA HistoryTypes ==
    TypeOK /\ UNCHANGED history =>
        /\ owed' \subseteq SoundBases /\ agreed' \subseteq Lines /\ disturbed' \in BOOLEAN
        /\ chosen' \in {"true", "false", None}
BY DEF TypeOK, history

LEMMA GoesTypes ==
    ASSUME TypeOK, NEW p \in Scripts, NEW place, Goes(p, place),
           place \in IF p = "cron" THEN {"idle"} \cup BackingUp ELSE OperatorPlaces
    PROVE  pc' \in [Scripts -> OperatorPlaces] /\ pc'.cron \in {"idle"} \cup BackingUp
BY DEF TypeOK, Goes, Scripts, OperatorPlaces

LEMMA ExitTypes ==
    ASSUME TypeOK, NEW code \in Nat, Exit(code)
    PROVE  /\ pc' \in [Scripts -> OperatorPlaces] /\ pc'.cron \in {"idle"} \cup BackingUp
           /\ run' \in RunNotes
<1>1. "operator" \in Scripts /\ "idle" \in OperatorPlaces
  BY DEF Scripts, OperatorPlaces
<1>2. run' \in RunNotes
  BY IdleRun DEF Exit
<1> QED
  BY <1>1, <1>2, GoesTypes DEF Exit

LEMMA StartTypes ==
    TypeOK /\ (StartContainer \/ StartNewApp) => app' \in Containers
<1>1. TypeOK /\ StartContainer => app' \in Containers
  BY DEF TypeOK, StartContainer, Containers
<1>2. StartNewApp => app' \in Containers
  BY DEF StartNewApp, Containers
<1> QED
  BY <1>1, <1>2

LEMMA BackupEndsTypes ==
    ASSUME TypeOK, NEW p \in Scripts, NEW verified, NEW base \in Clusters, BackupEnds(p, verified, base)
    PROVE  /\ pc' \in [Scripts -> OperatorPlaces] /\ pc'.cron \in {"idle"} \cup BackingUp
           /\ db' \in Clusters /\ app' \in Containers /\ run' \in RunNotes
           /\ bk' \in [Scripts -> BackupNotes]
<1>1. bk' \in [Scripts -> BackupNotes]
  <2>1. NoBackup \in BackupNotes
    BY DEF NoBackup, BackupNotes, MaybeBases
  <2> QED
    BY <2>1 DEF BackupEnds, TypeOK
<1>2. db' \in Clusters
  BY DEF BackupEnds, Clusters, MaybeBases
<1>3. app' \in Containers
  BY StartTypes DEF BackupEnds, TypeOK
<1>4. run' \in RunNotes
  <2>1. CASE Exit(1)
    BY <2>1, ExitTypes
  <2>2. CASE run' = run
    BY <2>2 DEF TypeOK
  <2>3. CASE run' = [run EXCEPT !.archive = bk[p].archive]
    <3>1. bk[p].archive \in Nat
      BY DEF TypeOK, BackupNotes
    <3> QED
      BY <2>3, <3>1 DEF TypeOK, RunNotes
  <2> QED
    BY <2>1, <2>2, <2>3 DEF BackupEnds
<1>5. pc' \in [Scripts -> OperatorPlaces] /\ pc'.cron \in {"idle"} \cup BackingUp
  BY GoesTypes, ExitTypes DEF BackupEnds, OperatorPlaces, BackingUp, Releasing, Replacing
<1> QED
  BY <1>1, <1>2, <1>3, <1>4, <1>5

LEMMA BackupTypes ==
    ASSUME TypeOK, BackupsInOrder, NEW p \in Scripts, Backup(p)
    PROVE  TypeOK'
<1> USE DEF Fails
<1>0. db \in Clusters /\ bk[p] \in BackupNotes /\ bk \in [Scripts -> BackupNotes] /\ run \in RunNotes /\ app \in Containers
      /\ archives \in Seq(Archives)
  BY DEF TypeOK
<1>1. events' \in Nat /\ runs' \in Nat
  BY BudgetTypes DEF Backup, Before, Dump, Sum, Verify, Read, Compare
<1>2. /\ owed' \subseteq SoundBases /\ agreed' \subseteq Lines /\ disturbed' \in BOOLEAN
      /\ chosen' \in {"true", "false", None}
  BY HistoryTypes DEF Backup, Before, Dump, Sum, Verify, Read, Compare
<1>3. pc[p] \in Holding => bk[p].archive \in DOMAIN archives /\ Own(p) \in Archives
  BY <1>0, ElementOfSeq DEF BackupsInOrder, OwnedBy, Own
<1> DEFINE Others ==
        /\ pc' \in [Scripts -> OperatorPlaces] /\ pc'.cron \in {"idle"} \cup BackingUp
        /\ db' \in Clusters /\ app' \in Containers /\ run' \in RunNotes
        /\ bk' \in [Scripts -> BackupNotes]
<1>4. ASSUME Before(p)
      PROVE  Others /\ archives' \in Seq(Archives)
  <2>1. bk' \in [Scripts -> BackupNotes]
    <3>1. db.served \in MaybeBases
      BY <1>0 DEF Clusters
    <3>2. [bk[p] EXCEPT !.before = db.served] \in BackupNotes
      BY <1>0, <3>1 DEF BackupNotes
    <3>3. bk' = bk \/ bk' = [bk EXCEPT ![p] = [bk[p] EXCEPT !.before = db.served]]
      BY <1>0, <1>4 DEF Before
    <3> QED
      BY <1>0, <3>2, <3>3
  <2>2. pc' \in [Scripts -> OperatorPlaces] /\ pc'.cron \in {"idle"} \cup BackingUp
    BY <1>4, GoesTypes DEF Before, OperatorPlaces, BackingUp
  <2> QED
    BY <1>0, <1>4, <2>1, <2>2 DEF Before
<1>5. ASSUME Dump(p)
      PROVE  Others /\ archives' \in Seq(Archives)
  <2>1. CASE BackupEnds(p, FALSE, db) /\ UNCHANGED archives
    BY <1>0, <2>1, BackupEndsTypes
  <2>2. ASSUME NEW good \in BOOLEAN, db.served # None,
               archives' = Append(archives,
                     [holds |-> IF good THEN db.served ELSE Wrong(db.served), began |-> bk[p].before,
                      kept |-> p = "operator", here |-> TRUE, sum |-> FALSE, fingerprint |-> None,
                      moved |-> {}, crossed |-> FALSE, judged |-> FALSE]),
               bk' = [bk EXCEPT ![p].archive = Len(archives) + 1],
               Goes(p, "sum"), UNCHANGED <<db, app, run>>
        PROVE  Others /\ archives' \in Seq(Archives)
    <3> DEFINE a == [holds |-> IF good THEN db.served ELSE Wrong(db.served), began |-> bk[p].before,
                      kept |-> p = "operator", here |-> TRUE, sum |-> FALSE, fingerprint |-> None,
                      moved |-> {}, crossed |-> FALSE, judged |-> FALSE]
    <3>1. db.served \in SoundBases /\ Wrong(db.served) \in SoundBases /\ bk[p].before \in MaybeBases
      BY <1>0, <2>2, WrongSound DEF Clusters, MaybeBases, BackupNotes
    <3>2. a \in Archives
      BY <3>1 DEF Archives, MaybeBases
    <3>3. archives' \in Seq(Archives)
      <4> HIDE DEF a
      <4> QED
        BY <2>2, <3>2, OneAdded DEF a
    <3>4. bk' \in [Scripts -> BackupNotes]
      <4>1. Len(archives) + 1 \in Nat
        BY <1>0, LenProperties
      <4> QED
        BY <1>0, <2>2, <4>1 DEF BackupNotes
    <3>5. pc' \in [Scripts -> OperatorPlaces] /\ pc'.cron \in {"idle"} \cup BackingUp
      BY <2>2, GoesTypes DEF OperatorPlaces, BackingUp, Holding
    <3> QED
      BY <1>0, <2>2, <3>3, <3>4, <3>5
  <2> QED
    BY <1>5, <2>1, <2>2 DEF Dump
<1>6. ASSUME Sum(p)
      PROVE  Others /\ archives' \in Seq(Archives)
  <2>1. archives' \in Seq(Archives)
    BY <1>6, SomeExpired
  <2>2. CASE BackupEnds(p, FALSE, db)
    BY <1>0, <2>1, <2>2, BackupEndsTypes
  <2>3. CASE Goes(p, "verify") /\ UNCHANGED <<db, app, bk, run>>
    <3>1. pc' \in [Scripts -> OperatorPlaces] /\ pc'.cron \in {"idle"} \cup BackingUp
      BY <2>3, GoesTypes DEF OperatorPlaces, BackingUp, Holding
    <3> QED
      BY <1>0, <2>1, <2>3, <3>1
  <2> QED
    BY <1>6, <2>2, <2>3 DEF Sum
<1>7. ASSUME Verify(p)
      PROVE  Others /\ archives' \in Seq(Archives)
  <2>1. CASE BackupEnds(p, FALSE, [db EXCEPT !.verify = None])
    <3>1. [db EXCEPT !.verify = None] \in Clusters
      BY <1>0 DEF Clusters, MaybeBases
    <3> QED
      BY <1>0, <1>7, <2>1, <3>1, BackupEndsTypes DEF Verify
  <2>2. CASE db' = [db EXCEPT !.verify = Own(p).holds] /\ Goes(p, "read") /\ UNCHANGED <<app, bk, run>>
    <3>1. pc' \in [Scripts -> OperatorPlaces] /\ pc'.cron \in {"idle"} \cup BackingUp
      BY <2>2, GoesTypes DEF OperatorPlaces, BackingUp, Holding
    <3>2. Own(p) \in Archives
      BY <1>3, <1>7 DEF Verify, Holding
    <3>3. db' \in Clusters
      BY <1>0, <2>2, <3>2 DEF Clusters, MaybeBases, Archives
    <3> QED
      BY <1>0, <1>7, <2>2, <3>1, <3>3 DEF Verify
  <2> QED
    BY <1>7, <2>1, <2>2 DEF Verify
<1>8. ASSUME Read(p)
      PROVE  Others /\ archives' \in Seq(Archives)
  <2>0. Own(p) \in Archives /\ pc[p] \in Holding
    BY <1>3, <1>8 DEF Read, Holding
  <2> DEFINE dropped == [db EXCEPT !.verify = None]
             a == [Own(p) EXCEPT !.fingerprint = db.verify, !.crossed = db.verify # Own(p).holds]
  <2>1. dropped \in Clusters
    BY <1>0 DEF Clusters, MaybeBases
  <2>2. archives' \in Seq(Archives)
    <3>1. a \in Archives
      BY <1>0, <2>0 DEF Archives, Clusters, MaybeBases
    <3>2. CASE Noted(p, a)
      <4> HIDE DEF a
      <4> QED
        BY <2>0, <3>1, <3>2, OneNoted
    <3> QED
      BY <1>0, <1>8, <3>2 DEF Read
  <2>3. CASE BackupEnds(p, TRUE, dropped) \/ BackupEnds(p, FALSE, dropped)
    <3> HIDE DEF dropped
    <3> QED
      BY <2>1, <2>2, <2>3, BackupEndsTypes
  <2>4. CASE Goes(p, "compare") /\ db' = dropped /\ UNCHANGED <<app, bk, run>>
    <3> HIDE DEF dropped
    <3>1. pc' \in [Scripts -> OperatorPlaces] /\ pc'.cron \in {"idle"} \cup BackingUp
      BY <2>4, GoesTypes DEF OperatorPlaces, BackingUp, Holding
    <3> QED
      BY <1>0, <2>1, <2>2, <2>4, <3>1
  <2> QED
    BY <1>8, <2>3, <2>4 DEF Read
<1>9. ASSUME Compare(p)
      PROVE  Others /\ archives' \in Seq(Archives)
  <2>0. Own(p) \in Archives /\ pc[p] \in Holding
    BY <1>3, <1>9 DEF Compare, Holding
  <2>1. ASSUME NEW good \in BOOLEAN, NEW moved \in SUBSET Tables,
               Noted(p, Judged(p, moved, good)), BackupEnds(p, good, db)
        PROVE  Others /\ archives' \in Seq(Archives)
    <3>1. Judged(p, moved, good) \in Archives
      BY <2>0 DEF Judged, Archives, MaybeBases
    <3> QED
      BY <1>0, <2>0, <2>1, <3>1, OneNoted, BackupEndsTypes
  <2>2. CASE Noted(p, [Own(p) EXCEPT !.fingerprint = None]) /\ BackupEnds(p, FALSE, db)
    <3>1. [Own(p) EXCEPT !.fingerprint = None] \in Archives
      BY <2>0 DEF Archives, MaybeBases
    <3> QED
      BY <1>0, <2>0, <2>2, <3>1, OneNoted, BackupEndsTypes
  <2>3. Differ(bk[p].before, db.served) \in SUBSET Tables
    BY DEF Differ
  <2> QED
    BY <1>9, <2>1, <2>2, <2>3 DEF Compare
<1> QED
  BY <1>1, <1>2, <1>4, <1>5, <1>6, <1>7, <1>8, <1>9 DEF Backup, TypeOK

\* A container started or not, and the script ended.
LEMMA AbortTypes ==
    ASSUME TypeOK, NEW code \in Nat, StartContainer \/ StartNewApp, Exit(code),
           UNCHANGED <<db, archives, bk, history>>, Works \/ Happens
    PROVE  TypeOK'
<1>1. events' \in Nat /\ runs' \in Nat
  BY BudgetTypes
<1>2. /\ owed' \subseteq SoundBases /\ agreed' \subseteq Lines /\ disturbed' \in BOOLEAN
      /\ chosen' \in {"true", "false", None}
  BY HistoryTypes
<1> QED
  BY <1>1, <1>2, ExitTypes, StartTypes DEF TypeOK

\* The script goes on, and notes something.
LEMMA StepTypes ==
    ASSUME TypeOK, NEW place \in OperatorPlaces, Goes("operator", place), run' \in RunNotes, db' \in Clusters,
           app' \in Containers, UNCHANGED <<archives, bk, history>>, Works \/ Happens
    PROVE  TypeOK'
<1>1. events' \in Nat /\ runs' \in Nat
  BY BudgetTypes
<1>2. /\ owed' \subseteq SoundBases /\ agreed' \subseteq Lines /\ disturbed' \in BOOLEAN
      /\ chosen' \in {"true", "false", None}
  BY HistoryTypes
<1>3. pc' \in [Scripts -> OperatorPlaces] /\ pc'.cron \in {"idle"} \cup BackingUp
  BY GoesTypes DEF Scripts
<1> QED
  BY <1>1, <1>2, <1>3 DEF TypeOK

LEMMA DeployTypes ==
    TypeOK /\ (Deploy \/ Restore) => TypeOK'
<1> SUFFICES ASSUME TypeOK, Deploy \/ Restore
             PROVE  TypeOK'
  OBVIOUS
<1>0. db \in Clusters /\ archives \in Seq(Archives)
  BY DEF TypeOK
<1>1. pc' \in [Scripts -> OperatorPlaces] /\ pc'.cron \in {"idle"} \cup BackingUp
  <2>1. "stop" \in OperatorPlaces /\ "operator" \in Scripts
    BY DEF OperatorPlaces, Scripts
  <2> QED
    BY <2>1, GoesTypes DEF Deploy, Restore
<1>2. CASE Deploy
  <2>1. run' \in RunNotes
    <3>1. NoRun \in RunNotes
      BY IdleRun
    <3> QED
      BY <1>2, <3>1 DEF Deploy, RunNotes
  <2>2. runs' \in Nat /\ events' \in Nat
    BY <1>2 DEF Deploy, TypeOK
  <2>3. agreed' \subseteq Lines /\ disturbed' \in BOOLEAN
    BY <1>2 DEF Deploy
  <2> QED
    BY <1>1, <1>2, <2>1, <2>2, <2>3 DEF Deploy, TypeOK
<1>3. CASE Restore
  <2>1. PICK i \in DOMAIN archives, blind \in BOOLEAN :
          /\ db' = [db EXCEPT !.staging = archives[i].holds]
          /\ run' = [NoRun EXCEPT !.op = "restore", !.archive = i, !.early = blind \/ ~archives[i].judged,
                              !.before = archives[i].holds]
    BY <1>3 DEF Restore
  <2>2. archives[i] \in Archives /\ i \in Nat
    BY <1>0, ElementOfSeq, LenProperties
  <2>3. archives[i].holds \in SoundBases /\ archives[i].judged \in BOOLEAN
    BY <2>2 DEF Archives
  <2>4. run' \in RunNotes
    <3>1. NoRun \in RunNotes
      BY IdleRun
    <3> QED
      BY <2>1, <2>2, <2>3, <3>1 DEF RunNotes, MaybeBases
  <2>5. db' \in Clusters
    BY <1>0, <2>1, <2>3 DEF Clusters, MaybeBases
  <2>6. runs' \in Nat /\ events' \in Nat
    <3>1. runs' = runs + 1 /\ events' = events
      BY <1>3 DEF Restore
    <3> QED
      BY <3>1 DEF TypeOK
  <2>7. agreed' \subseteq Lines /\ disturbed' \in BOOLEAN
    BY <1>3 DEF Restore
  <2> QED
    BY <1>1, <1>3, <2>4, <2>5, <2>6, <2>7 DEF Restore, TypeOK
<1> QED
  BY <1>2, <1>3

LEMMA ReleaseTypes ==
    ASSUME TypeOK, OperatorInOrder,
           Stop \/ Fingerprint \/ Inventory \/ ReplayEnds \/ Simulate \/ Decline \/ Check \/ Start
    PROVE  TypeOK'
<1> USE DEF Fails
<1>0. db \in Clusters /\ run \in RunNotes /\ app \in Containers /\ db.served \in MaybeBases
  BY DEF TypeOK, Clusters
<1>a. db.served \in SoundBases \/ ~(OperatorAt("archive") \/ OperatorAt("simulate"))
  BY <1>0 DEF OperatorInOrder, OperatorAt, Releasing, MaybeBases
<1>1. {"fingerprint", "before", "replay", "simulate", "check", "apply", "accept", "start"} \subseteq OperatorPlaces
  BY DEF OperatorPlaces, BackingUp, Releasing
<1>2. ASSUME Abort, Works \/ Happens
      PROVE  TypeOK'
  BY <1>2, AbortTypes DEF Abort
<1>3. ASSUME NEW code \in {1, 3}, WithoutPurge(code), Works \/ Happens
      PROVE  TypeOK'
  BY <1>3, AbortTypes DEF WithoutPurge
<1>4. ASSUME NEW code \in Nat, Exit(code), UNCHANGED <<db, app, archives, bk, history>>, Works \/ Happens
      PROVE  TypeOK'
  <2>1. events' \in Nat /\ runs' \in Nat
    BY <1>4, BudgetTypes
  <2>2. /\ owed' \subseteq SoundBases /\ agreed' \subseteq Lines /\ disturbed' \in BOOLEAN
        /\ chosen' \in {"true", "false", None}
    BY <1>4, HistoryTypes
  <2> QED
    BY <1>4, <2>1, <2>2, ExitTypes DEF TypeOK
<1>5. ASSUME Stop
      PROVE  TypeOK'
  <2>1. CASE Works /\ app' = [app EXCEPT !.running = FALSE] /\ UNCHANGED <<db, archives, bk, run, history>>
             /\ Goes("operator", IF run.op = "deploy" THEN "fingerprint" ELSE "before")
    <3>1. app' \in Containers
      BY <1>0, <2>1 DEF Containers
    <3> QED
      BY <1>0, <1>1, <2>1, <3>1, StepTypes
  <2> QED
    BY <1>2, <1>4, <1>5, <2>1 DEF Stop
<1>6. ASSUME Fingerprint
      PROVE  TypeOK'
  <2>1. CASE Works /\ run' = [run EXCEPT !.before = db.served] /\ Goes("operator", "before")
             /\ UNCHANGED <<db, app, archives, bk, history>>
    <3>1. run' \in RunNotes
      BY <1>0, <2>1 DEF RunNotes
    <3> QED
      BY <1>0, <1>1, <2>1, <3>1, StepTypes
  <2> QED
    BY <1>2, <1>6, <2>1 DEF Fingerprint
<1>7. ASSUME Inventory
      PROVE  TypeOK'
  <2>1. ASSUME Works,
            run' = [run EXCEPT !.journal = Journal(db.served),
                               !.counts = IF "006/c" \in Journal(db.served) THEN None ELSE Counts(db.served),
                               !.todo = IF "003" \in Journal(db.served) THEN AfterPurge ELSE Files],
            Goes("operator", "replay"), UNCHANGED <<db, app, archives, bk, history>>
        PROVE  TypeOK'
    <3>0. Journal(db.served) \subseteq Migrations /\ db.served \in SoundBases
      BY <1>a, <1>7, BaseFields DEF Inventory
    <3>1. (IF "003" \in Journal(db.served) THEN AfterPurge ELSE Files) \in Seq(FileNames)
      BY FilesAreNamed
    <3>2. Counts(db.served) \in [chosen : BOOLEAN, profiled : BOOLEAN]
      BY <3>0, BaseFields DEF Counts, FlagRows
    <3>3. run' \in RunNotes
      BY <1>0, <2>1, <3>0, <3>1, <3>2 DEF RunNotes
    <3> QED
      BY <1>0, <1>1, <2>1, <3>3, StepTypes
  <2> QED
    BY <1>2, <1>7, <2>1 DEF Inventory
<1>8. ASSUME ReplayEnds
      PROVE  TypeOK'
  <2>1. CASE Works /\ run' = [run EXCEPT !.middle = db.served] /\ Goes("operator", "simulate")
             /\ UNCHANGED <<db, app, archives, bk, history>>
    <3>1. run' \in RunNotes
      BY <1>0, <2>1 DEF RunNotes
    <3> QED
      BY <1>0, <1>1, <2>1, <3>1, StepTypes
  <2> QED
    BY <1>2, <1>8, <2>1 DEF ReplayEnds
<1>9. ASSUME Simulate
      PROVE  TypeOK'
  <2>1. ASSUME NEW place \in {"check", "apply", "accept"}, Works,
               run' = [run EXCEPT !.report = Report(db.served)],
               Goes("operator", place), UNCHANGED <<db, app, archives, bk, history>>
        PROVE  TypeOK'
    <3>0. LegacyRows(db.served) \subseteq Lines /\ db.served.requirements \in {Absent} \cup SUBSET Lines
      BY <1>a, <1>9, BaseFields DEF Simulate
    <3>1. Report(db.served) \in Reports
      BY <3>0 DEF Report, Reports
    <3>2. run' \in RunNotes
      BY <1>0, <2>1, <3>1 DEF RunNotes
    <3> QED
      BY <1>0, <1>1, <2>1, <3>2, StepTypes
  <2> QED
    BY <1>3, <1>9, <2>1 DEF Simulate
<1>10. ASSUME Decline
       PROVE  TypeOK'
  BY <1>3, <1>10 DEF Decline
<1>11. ASSUME Check
       PROVE  TypeOK'
  BY <1>0, <1>1, <1>4, <1>11, StepTypes DEF Check
<1>12. ASSUME Start
       PROVE  TypeOK'
  <2>1. CASE Exit(1) /\ UNCHANGED app
    BY <1>4, <1>12, <2>1 DEF Start
  <2>2. CASE Exit(0) /\ (StartNewApp \/ StartContainer)
    BY <1>12, <2>2, AbortTypes DEF Start
  <2> QED
    BY <1>12, <2>1, <2>2 DEF Start
<1> QED
  BY <1>5, <1>6, <1>7, <1>8, <1>9, <1>10, <1>11, <1>12

LEMMA AlterTypes ==
    ASSUME TypeOK, OperatorInOrder, BaseInOrder, Replay \/ Accept \/ Apply
    PROVE  TypeOK'
<1> USE DEF Fails
<1>0. db \in Clusters /\ run \in RunNotes /\ app \in Containers /\ db.served \in MaybeBases
      /\ events \in Nat /\ runs \in Nat
  BY DEF TypeOK, Clusters
<1>a. db.served \in SoundBases
  BY <1>0 DEF OperatorInOrder, Releasing, MaybeBases, OperatorAt, Replay, Accept, Apply
<1>1. {"check", "apply"} \subseteq OperatorPlaces
  BY DEF OperatorPlaces, Releasing
<1>2. CASE Replay
  <2>1. CASE Abort /\ (Works \/ Happens)
    BY <2>1, AbortTypes DEF Abort
  <2>2. CASE /\ Works /\ ~Refused(db.served, Head(run.todo))
             /\ db' = [db EXCEPT !.served = Replayed(@, Head(run.todo))]
             /\ run' = [run EXCEPT !.todo = Tail(@)]
             /\ owed' = IF disturbed THEN owed ELSE owed \cup {run.before}
             /\ UNCHANGED <<app, archives, pc, bk, agreed, disturbed, chosen>>
    <3>1. run.todo \in Seq(FileNames) /\ run.todo # <<>>
      BY <1>0, <1>2 DEF RunNotes, Replay
    <3>2. Head(run.todo) \in FileNames /\ Tail(run.todo) \in Seq(FileNames)
      BY <3>1, HeadTailProperties
    <3>3. Replayed(db.served, Head(run.todo)) \in SoundBases
      <4>1. Head(run.todo) # "schema" => Whole(db.served)
        BY <1>2, <3>1 DEF BaseInOrder, ReplayedSoFar, Replay, OperatorAt
      <4> QED
        BY <1>a, <3>2, <4>1, ReplayedBase
    <3>4. db' \in Clusters
      BY <1>0, <2>2, <3>3 DEF Clusters, MaybeBases
    <3>5. run' \in RunNotes
      BY <1>0, <2>2, <3>2 DEF RunNotes
    <3>6. run.before \in SoundBases
      <4>1. run.before # None
        BY <1>2 DEF Replay, OperatorAt, BaseInOrder, Unmoved, OperatorInOrder, Releasing
      <4> QED
        BY <1>0, <4>1 DEF RunNotes, MaybeBases
    <3>7. events' \in Nat /\ runs' \in Nat
      BY <2>2, BudgetTypes
    <3> QED
      BY <2>2, <3>4, <3>5, <3>6, <3>7 DEF TypeOK
  <2> QED
    BY <1>2, <2>1, <2>2 DEF Replay
<1>3. CASE Accept
  <2>1. run.report.purged \subseteq Lines
    <3>1. run.report \in Reports
      BY <1>0, <1>3 DEF Accept, OperatorAt, BaseInOrder, ReportShown
    <3> QED
      BY <3>1 DEF Reports
  <2>2. pc' \in [Scripts -> OperatorPlaces] /\ pc'.cron \in {"idle"} \cup BackingUp
    BY <1>1, <1>3, GoesTypes DEF Accept, Scripts
  <2>3. events' \in Nat /\ runs' \in Nat
    BY <1>3, BudgetTypes DEF Accept
  <2> QED
    BY <1>3, <2>1, <2>2, <2>3 DEF Accept, TypeOK
<1>4. CASE Apply
  <2>1. CASE WithoutPurge(1) /\ (Works \/ Happens)
    BY <2>1, AbortTypes DEF WithoutPurge
  <2>2. CASE /\ Works /\ ~Refuses003(db.served)
             /\ db' = [db EXCEPT !.served = IF Already(@) THEN @ ELSE Purged(@)]
             /\ Goes("operator", "check")
             /\ UNCHANGED <<app, archives, bk, run, history>>
    <3>1. ~Already(db.served) => Whole(db.served)
      <4>1. ASSUME db.served = Empty
            PROVE  Refuses003(db.served)
        BY <1>a, <4>1, BaseFields DEF Refuses003
      <4> QED
        BY <1>a, <2>2, <4>1, BaseFields
    <3>2. (IF Already(db.served) THEN db.served ELSE Purged(db.served)) \in SoundBases
      BY <1>a, <3>1, PurgedBase
    <3>3. db' \in Clusters
      BY <1>0, <2>2, <3>2 DEF Clusters, MaybeBases
    <3> QED
      BY <1>0, <1>1, <2>2, <3>3, StepTypes
  <2>3. \/ WithoutPurge(1) /\ (Works \/ Happens)
        \/ /\ Works /\ ~Refuses003(db.served)
           /\ db' = [db EXCEPT !.served = IF Already(@) THEN @ ELSE Purged(@)]
           /\ Goes("operator", "check")
           /\ UNCHANGED <<app, archives, bk, run, history>>
    BY <1>0, <1>4 DEF Apply, Clusters
  <2> QED
    BY <2>1, <2>2, <2>3
<1> QED
  BY <1>2, <1>3, <1>4

LEMMA ReplaceTypes ==
    ASSUME TypeOK, OperatorInOrder, DropPrevious \/ Rename \/ Swap \/ Reread
    PROVE  TypeOK'
<1> USE DEF Fails
<1>0. db \in Clusters /\ run \in RunNotes /\ app \in Containers /\ events \in Nat /\ runs \in Nat
  BY DEF TypeOK
<1>1. {"rename", "swap", "reread", "start"} \subseteq OperatorPlaces
  BY DEF OperatorPlaces, Replacing
<1>2. ASSUME NEW base \in Clusters, GiveUp(base), Works \/ Happens
      PROVE  TypeOK'
  <2>1. [base EXCEPT !.staging = None] \in Clusters
    BY DEF Clusters, MaybeBases
  <2>2. events' \in Nat /\ runs' \in Nat
    BY <1>2, BudgetTypes
  <2>3. /\ owed' \subseteq SoundBases /\ agreed' \subseteq Lines /\ disturbed' \in BOOLEAN
        /\ chosen' \in {"true", "false", None}
    BY <1>2, HistoryTypes DEF GiveUp
  <2> QED
    BY <1>2, <2>1, <2>2, <2>3, ExitTypes, StartTypes DEF GiveUp, TypeOK
<1>3. /\ [db EXCEPT !.previous = None] \in Clusters
      /\ [db EXCEPT !.previous = db.served, !.served = None] \in Clusters
      /\ [db EXCEPT !.served = db.staging, !.staging = None] \in Clusters
      /\ [db EXCEPT !.served = db.previous, !.previous = None] \in Clusters
  BY <1>0 DEF Clusters, MaybeBases
<1>4. CASE DropPrevious
  BY <1>0, <1>1, <1>2, <1>3, <1>4, StepTypes DEF DropPrevious
<1>5. CASE Rename
  <2>1. CASE GiveUp(db) /\ Fails
    BY <1>0, <1>2, <2>1
  <2>2. CASE /\ Works /\ db' = [db EXCEPT !.previous = db.served, !.served = None]
             /\ owed' = IF disturbed THEN owed ELSE owed \cup {db.served}
             /\ Goes("operator", "swap")
             /\ UNCHANGED <<app, archives, bk, run, agreed, disturbed, chosen>>
    <3>1. db.served \in SoundBases
      BY <1>0, <1>5 DEF Rename, OperatorAt, OperatorInOrder, Clusters, MaybeBases
    <3>2. pc' \in [Scripts -> OperatorPlaces] /\ pc'.cron \in {"idle"} \cup BackingUp
      BY <1>1, <2>2, GoesTypes DEF Scripts
    <3>3. events' \in Nat /\ runs' \in Nat
      BY <2>2, BudgetTypes
    <3> QED
      BY <1>3, <2>2, <3>1, <3>2, <3>3 DEF TypeOK
  <2> QED
    BY <1>5, <2>1, <2>2 DEF Rename
<1>6. CASE Swap
  <2>1. CASE GiveUp([db EXCEPT !.served = db.previous, !.previous = None]) /\ Fails
    BY <1>2, <1>3, <2>1
  <2>2. CASE /\ Works /\ db' = [db EXCEPT !.served = db.staging, !.staging = None]
             /\ chosen' = None
             /\ Goes("operator", "reread")
             /\ UNCHANGED <<app, archives, bk, run, owed, agreed, disturbed>>
    <3>1. pc' \in [Scripts -> OperatorPlaces] /\ pc'.cron \in {"idle"} \cup BackingUp
      BY <1>1, <2>2, GoesTypes DEF Scripts
    <3>2. events' \in Nat /\ runs' \in Nat
      BY <2>2, BudgetTypes
    <3> QED
      BY <1>3, <2>2, <3>1, <3>2 DEF TypeOK
  <2> QED
    BY <1>6, <2>1, <2>2 DEF Swap
<1>7. CASE Reread
  <2>1. CASE Works /\ Goes("operator", "start") /\ UNCHANGED <<db, app, run, archives, bk, history>>
    BY <1>0, <1>1, <2>1, StepTypes
  <2>2. CASE (Works \/ Happens) /\ Exit(1) /\ UNCHANGED <<db, app, archives, bk, history>>
    <3>1. events' \in Nat /\ runs' \in Nat
      BY <2>2, BudgetTypes
    <3>2. /\ owed' \subseteq SoundBases /\ agreed' \subseteq Lines /\ disturbed' \in BOOLEAN
          /\ chosen' \in {"true", "false", None}
      BY <2>2, HistoryTypes
    <3> QED
      BY <2>2, <3>1, <3>2, ExitTypes DEF TypeOK
  <2> QED
    BY <1>7, <2>1, <2>2 DEF Reread
<1> QED
  BY <1>4, <1>5, <1>6, <1>7

\* What the users, or somebody at a terminal, do to the served base.
LEMMA WrittenBase ==
    ASSUME TypeOK, Write \/ Stray
    PROVE  /\ db.served \in SoundBases /\ Whole(db.served)
           /\ \E b \in SoundBases :
                 /\ Whole(b) /\ db' = [db EXCEPT !.served = b] /\ b.journal = db.served.journal
                 /\ \/ b.flags = db.served.flags /\ chosen' = chosen
                    \/ chosen' = None
                    \/ b.flags.hopt = chosen' /\ chosen' \in {"true", "false"} /\ "006/c" \in Journal(db.served)
<1> DEFINE base == db.served
           Goal(b) == /\ b \in SoundBases /\ Whole(b) /\ db' = [db EXCEPT !.served = b]
                      /\ b.journal = base.journal
                      /\ \/ b.flags = base.flags /\ chosen' = chosen
                         \/ chosen' = None
                         \/ b.flags.hopt = chosen' /\ chosen' \in {"true", "false"} /\ "006/c" \in Journal(base)
<1>0. Serving /\ db \in Clusters
  BY DEF Write, Stray, TypeOK
<1>1. /\ base \in Bases /\ Whole(base) /\ base.kept \in Nat /\ base \in SoundBases
      /\ base.users \in Users /\ base.flags \in FlagRows
  <2>1. base \in SoundBases
    BY <1>0 DEF Serving, MaybeBases, Clusters
  <2> QED
    BY <1>0, <2>1, BaseFields DEF Serving
<1>2. ASSUME db' = [db EXCEPT !.served.kept = @ + 1], UNCHANGED chosen
      PROVE  \E b : Goal(b)
  <2> DEFINE b == [base EXCEPT !.kept = @ + 1]
  <2>1. b \in Bases /\ Whole(b) /\ b.flags = base.flags /\ b.journal = base.journal
    BY <1>1, BaseConstants DEF Bases, Whole
  <2>2. db' = [db EXCEPT !.served = b]
    BY <1>0, <1>2 DEF Clusters
  <2> HIDE DEF b
  <2>3. Goal(b)
    BY <1>2, <2>1, <2>2 DEF SoundBases, Sound
  <2> QED
    BY <2>3
<1>3. ASSUME db' = [db EXCEPT !.served.decks = "current"], UNCHANGED chosen
      PROVE  \E b : Goal(b)
  <2> DEFINE b == [base EXCEPT !.decks = "current"]
  <2>1. b \in Bases /\ Whole(b) /\ b.flags = base.flags /\ b.journal = base.journal
    BY <1>1, BaseConstants DEF Bases, Whole
  <2>2. db' = [db EXCEPT !.served = b]
    BY <1>0, <1>3 DEF Clusters
  <2> HIDE DEF b
  <2>3. Goal(b)
    BY <1>3, <2>1, <2>2 DEF SoundBases, Sound
  <2> QED
    BY <2>3
<1>4. ASSUME NEW hopt \in {"true", "false"}, db' = [db EXCEPT !.served.flags.hopt = hopt],
             chosen' = None \/ (chosen' = hopt /\ "006/c" \in Journal(base))
      PROVE  \E b : Goal(b)
  <2> DEFINE f == [base.flags EXCEPT !.hopt = hopt]
             b == [base EXCEPT !.flags = f]
  <2>1. f \in FlagRows /\ f.hopt = hopt
    BY <1>1, <1>4 DEF FlagRows
  <2>2. f # Absent
    BY <2>1, BaseConstants
  <2>3. db' = [db EXCEPT !.served = b]
    BY <1>0, <1>1, <1>4 DEF Clusters, Bases
  <2> HIDE DEF f
  <2>4. b \in Bases /\ Whole(b) /\ b.flags = f /\ b.journal = base.journal
    BY <1>1, <2>1, <2>2 DEF Bases, Whole
  <2> HIDE DEF b
  <2>5. Goal(b)
    BY <1>4, <2>1, <2>3, <2>4 DEF SoundBases, Sound
  <2> QED
    BY <2>5
<1>5. ASSUME db' = [db EXCEPT !.served.users.role = "admin"], UNCHANGED chosen
      PROVE  \E b : Goal(b)
  <2> DEFINE u == [base.users EXCEPT !.role = "admin"]
             b == [base EXCEPT !.users = u]
  <2>1. u \in Users
    BY <1>1 DEF Users
  <2>2. u # Absent
    BY <2>1, BaseConstants
  <2>3. db' = [db EXCEPT !.served = b]
    BY <1>0, <1>1, <1>5 DEF Clusters, Bases
  <2> HIDE DEF u
  <2>4. b \in Bases /\ Whole(b) /\ b.flags = base.flags /\ b.journal = base.journal
    BY <1>1, <2>1, <2>2 DEF Bases, Whole
  <2> HIDE DEF b
  <2>5. Goal(b)
    BY <1>5, <2>3, <2>4 DEF SoundBases, Sound
  <2> QED
    BY <2>5
<1>6. ASSUME NEW r \in PairRows \cup CardRows, db' = [db EXCEPT !.served.legacy = LegacyRows(base) \cup {r}],
             UNCHANGED chosen
      PROVE  \E b : Goal(b)
  <2> DEFINE b == [base EXCEPT !.legacy = LegacyRows(base) \cup {r}]
  <2>1. LegacyRows(base) \cup {r} \in {Absent} \cup SUBSET Lines
    BY <1>1, <1>6 DEF LegacyRows, Lines, Bases
  <2>2. b \in Bases /\ Whole(b) /\ b.flags = base.flags /\ b.journal = base.journal
    <3> HIDE DEF LegacyRows
    <3> QED
      BY <1>1, <2>1 DEF Bases, Whole
  <2>3. db' = [db EXCEPT !.served = b]
    BY <1>0, <1>6 DEF Clusters
  <2> HIDE DEF b
  <2>4. Goal(b)
    BY <1>6, <2>2, <2>3 DEF SoundBases, Sound
  <2> QED
    BY <2>4
<1>7. \E b : Goal(b)
  <2>1. CASE Write
    <3>1. ASSUME NEW hopt \in {"true", "false"}, db' = [db EXCEPT !.served.flags.hopt = hopt],
                 chosen' = IF app.image = "new" /\ "006/c" \in Journal(db.served) THEN hopt ELSE None
          PROVE  \E b : Goal(b)
      <4> HIDE DEF Goal
      <4>1. CASE app.image = "new" /\ "006/c" \in Journal(base)
        BY <1>4, <3>1, <4>1
      <4>2. CASE ~(app.image = "new" /\ "006/c" \in Journal(base))
        BY <1>4, <3>1, <4>2
      <4> QED
        BY <4>1, <4>2
    <3> HIDE DEF Goal
    <3> QED
      BY <1>2, <1>3, <2>1, <3>1 DEF Write
  <2>2. CASE Stray
    <3>1. CASE db' = [db EXCEPT !.served.flags.hopt = "true"] /\ chosen' = None
      BY <1>4, <3>1
    <3> HIDE DEF Goal
    <3> QED
      BY <1>2, <1>5, <1>6, <2>2, <3>1 DEF Stray
  <2> QED
    BY <2>1, <2>2
<1> QED
  BY <1>1, <1>7

LEMMA OtherTypes ==
    ASSUME TypeOK, Cron \/ Write \/ Stray \/ Spoil \/ (\E p \in Scripts : Kill(p))
    PROVE  TypeOK'
<1> USE DEF Fails
<1>0. /\ db \in Clusters /\ run \in RunNotes /\ bk \in [Scripts -> BackupNotes] /\ db.served \in MaybeBases
      /\ pc \in [Scripts -> OperatorPlaces] /\ pc.cron \in {"idle"} \cup BackingUp
  BY DEF TypeOK, Clusters
<1>1. events' \in Nat /\ runs' \in Nat
  BY BudgetTypes DEF Cron, Write, Stray, Spoil, Kill
<1>2. ASSUME Write \/ Stray
      PROVE  db' \in Clusters
  <2>1. PICK b \in SoundBases : db' = [db EXCEPT !.served = b]
    BY <1>2, WrittenBase
  <2> QED
    BY <1>0, <2>1 DEF Clusters, MaybeBases
<1>3. CASE Cron
  <2>1. pc' \in [Scripts -> OperatorPlaces] /\ pc'.cron \in {"idle"} \cup BackingUp
    BY <1>3, GoesTypes DEF Cron, Scripts, BackingUp
  <2>2. /\ owed' \subseteq SoundBases /\ agreed' \subseteq Lines /\ disturbed' \in BOOLEAN
        /\ chosen' \in {"true", "false", None}
    BY <1>3, HistoryTypes DEF Cron
  <2> QED
    BY <1>1, <1>3, <2>1, <2>2 DEF Cron, TypeOK
<1>4. CASE Write
  <2>1. chosen' \in {"true", "false", None}
    BY <1>4 DEF Write, TypeOK
  <2> QED
    BY <1>1, <1>2, <1>4, <2>1 DEF Write, TypeOK
<1>5. CASE Stray
  <2>1. chosen' \in {"true", "false", None}
    BY <1>5 DEF Stray, TypeOK
  <2> QED
    BY <1>1, <1>2, <1>5, <2>1 DEF Stray, TypeOK
<1>6. CASE Spoil
  <2>1. /\ owed' \subseteq SoundBases /\ agreed' \subseteq Lines /\ disturbed' \in BOOLEAN
        /\ chosen' \in {"true", "false", None}
    BY <1>6, HistoryTypes DEF Spoil
  <2> QED
    BY <1>1, <1>6, <2>1, OneSpoilt DEF Spoil, TypeOK
<1>7. ASSUME NEW p \in Scripts, Kill(p)
       PROVE  TypeOK'
  <2>1. /\ owed' \subseteq SoundBases /\ agreed' \subseteq Lines /\ disturbed' \in BOOLEAN
        /\ chosen' \in {"true", "false", None}
    BY <1>7, HistoryTypes DEF Kill
  <2>2. run' \in RunNotes
    BY <1>0, <1>7, IdleRun DEF Kill
  <2>3. bk' \in [Scripts -> BackupNotes]
    <3>1. NoBackup \in BackupNotes
      BY DEF NoBackup, BackupNotes, MaybeBases
    <3> QED
      BY <1>0, <1>7, <3>1 DEF Kill
  <2>4. pc' \in [Scripts -> OperatorPlaces] /\ pc'.cron \in {"idle"} \cup BackingUp
    BY <1>7, GoesTypes DEF Kill, OperatorPlaces
  <2> QED
    BY <1>1, <1>7, <2>1, <2>2, <2>3, <2>4 DEF Kill, TypeOK
<1> QED
  BY <1>3, <1>4, <1>5, <1>6, <1>7

LEMMA TypesNext ==
    ASSUME TypeOK, BackupsInOrder, OperatorInOrder, BaseInOrder, [DeploymentNext]_deploymentVars
    PROVE  TypeOK'
<1>1. CASE UNCHANGED deploymentVars
  BY <1>1 DEF TypeOK, deploymentVars, history, budget
<1>2. CASE DeploymentNext
  <2>1. ASSUME NEW p \in Scripts, Backup(p)
        PROVE  TypeOK'
    BY <2>1, BackupTypes
  <2> QED
    BY <1>2, <2>1, OtherTypes, DeployTypes, ReleaseTypes, AlterTypes, ReplaceTypes DEF DeploymentNext
<1> QED
  BY <1>1, <1>2

-----------------------------------------------------------------------------
(* Backups and their archives *)

\* Of an archive nobody owns, a disk or the retention may take the file, nothing more.
Untouched(i) ==
    /\ archives'[i].fingerprint = archives[i].fingerprint
    /\ archives'[i].moved = archives[i].moved /\ archives'[i].judged = archives[i].judged
    /\ archives'[i].sum => archives[i].sum
Same(i) ==
    /\ i \in DOMAIN archives'
    /\ archives'[i].kept = archives[i].kept /\ archives'[i].began = archives[i].began

StaysFree(i) == \A p \in Scripts : bk'[p].archive # i
StillCopyAt(i, base) ==
    i \in DOMAIN archives' /\ archives'[i].kept /\ StaysFree(i) /\ archives'[i].fingerprint = base
StillCopied(base) == \E i \in DOMAIN archives' : StillCopyAt(i, base)

LEMMA ArchiveTypes ==
    ASSUME TypeOK, NEW i \in DOMAIN archives
    PROVE  /\ archives[i] \in Archives
           /\ archives[i].holds \in SoundBases /\ archives[i].fingerprint \in MaybeBases
           /\ archives[i].began \in MaybeBases /\ i \in Nat /\ i # 0 /\ i # Len(archives) + 1
<1>1. archives \in Seq(Archives)
  BY DEF TypeOK
<1>2. archives[i] \in Archives /\ i \in 1..Len(archives) /\ Len(archives) \in Nat
  BY <1>1, ElementOfSeq, LenProperties
<1> QED
  BY <1>2 DEF Archives

LEMMA BackupEndsMoves ==
    ASSUME TypeOK, NEW p \in Scripts, NEW verified, NEW base, BackupEnds(p, verified, base)
    PROVE  /\ bk'[p] = NoBackup /\ pc'[p] \in {"idle", "archive", "drop"}
           /\ \A q \in Scripts : q # p => bk'[q] = bk[q] /\ pc'[q] = pc[q]
BY DEF TypeOK, BackupEnds, Goes, Exit, Scripts

\* Where a script's step takes it and what its backup remembers.
LEMMA BackupMoves ==
    ASSUME TypeOK, BackupsInOrder, NEW p \in Scripts, Backup(p)
    PROVE  /\ \A q \in Scripts : q # p => bk'[q] = bk[q] /\ pc'[q] = pc[q]
           /\ bk'[p].archive \in {0, bk[p].archive, Len(archives) + 1}
<1>0. bk \in [Scripts -> BackupNotes] /\ pc \in [Scripts -> OperatorPlaces] /\ bk[p] \in BackupNotes
  BY DEF TypeOK
<1>1. CASE \E verified, base : BackupEnds(p, verified, base)
  BY <1>1, BackupEndsMoves DEF NoBackup
<1>2. ASSUME NEW place, Goes(p, place)
      PROVE  \A q \in Scripts : q # p => pc'[q] = pc[q]
  BY <1>0, <1>2 DEF Goes
<1>3. CASE Before(p)
  BY <1>0, <1>2, <1>3 DEF Before, BackupNotes
<1>4. CASE Dump(p)
  BY <1>0, <1>1, <1>2, <1>4 DEF Dump, BackupNotes
<1>5. CASE Sum(p)
  BY <1>0, <1>1, <1>2, <1>5 DEF Sum
<1>6. CASE Verify(p)
  BY <1>0, <1>1, <1>2, <1>6 DEF Verify
<1>7. CASE Read(p)
  BY <1>0, <1>1, <1>2, <1>7 DEF Read
<1>8. CASE Compare(p)
  BY <1>0, <1>1, <1>2, <1>8 DEF Compare
<1> QED
  BY <1>3, <1>4, <1>5, <1>6, <1>7, <1>8 DEF Backup

LEMMA BackupTouches ==
    ASSUME TypeOK, BackupsInOrder, NEW p \in Scripts, Backup(p), NEW i \in DOMAIN archives
    PROVE  Same(i) /\ (i # bk[p].archive => Untouched(i))
<1>0. archives[i] \in Archives
  BY ArchiveTypes
<1>1. CASE UNCHANGED archives
  BY <1>1 DEF Same, Untouched
<1>2. ASSUME NEW a \in Archives, pc[p] \in Holding, Noted(p, a), a.kept = Own(p).kept, a.began = Own(p).began
      PROVE  Same(i) /\ (i # bk[p].archive => Untouched(i))
  <2>1. /\ DOMAIN archives' = DOMAIN archives /\ archives'[bk[p].archive] = a
        /\ i # bk[p].archive => archives'[i] = archives[i]
    BY <1>2, OneNoted
  <2> QED
    BY <1>2, <2>1 DEF Same, Untouched, Own
<1>3. pc[p] \in Holding => Own(p) \in Archives
  BY ArchiveTypes DEF BackupsInOrder, OwnedBy, Own
<1>4. CASE Dump(p)
  <2>1. ASSUME NEW a \in Archives, archives' = Append(archives, a)
        PROVE  Same(i) /\ Untouched(i)
    <3>1. i \in DOMAIN archives' /\ archives'[i] = archives[i]
      <4>1. /\ DOMAIN archives' = 1..(Len(archives) + 1) /\ DOMAIN archives = 1..Len(archives)
            /\ Len(archives) \in Nat /\ archives'[i] = archives[i]
        BY <2>1, OneAdded
      <4> QED
        BY <4>1
    <3> QED
      BY <3>1 DEF Same, Untouched
  <2>2. ASSUME NEW good \in BOOLEAN, db.served # None
        PROVE  [holds |-> IF good THEN db.served ELSE Wrong(db.served), began |-> bk[p].before,
                kept |-> p = "operator", here |-> TRUE, sum |-> FALSE, fingerprint |-> None,
                moved |-> {}, crossed |-> FALSE, judged |-> FALSE] \in Archives
    <3>1. db.served \in SoundBases /\ Wrong(db.served) \in SoundBases /\ bk[p].before \in MaybeBases
      BY <2>2, WrongSound DEF TypeOK, Clusters, MaybeBases, BackupNotes
    <3> QED
      BY <3>1 DEF Archives, MaybeBases
  <2> QED
    BY <1>1, <1>4, <2>1, <2>2 DEF Dump
<1>5. CASE Sum(p)
  <2>1. DOMAIN archives' = DOMAIN archives /\ bk[p].archive \in DOMAIN archives
    BY <1>5, SomeExpired
  <2>2. CASE i = bk[p].archive
    <3>1. archives'[i] = [archives[i] EXCEPT !.sum = TRUE]
      BY <1>5, <2>2, SomeExpired
    <3> QED
      BY <1>0, <2>1, <2>2, <3>1 DEF Same, Archives
  <2>3. CASE i # bk[p].archive
    <3>1. archives'[i] = archives[i] \/ archives'[i] = [archives[i] EXCEPT !.here = FALSE]
      BY <1>5, <2>3, SomeExpired
    <3> QED
      BY <1>0, <2>1, <3>1 DEF Same, Untouched, Archives
  <2> QED
    BY <2>2, <2>3
<1>6. CASE Read(p)
  <2> DEFINE a == [Own(p) EXCEPT !.fingerprint = db.verify, !.crossed = db.verify # Own(p).holds]
  <2>0. Own(p) \in Archives /\ pc[p] \in Holding
    BY <1>3, <1>6 DEF Read, Holding
  <2>1. a \in Archives /\ a.kept = Own(p).kept /\ a.began = Own(p).began
    BY <2>0 DEF Archives, TypeOK, Clusters, MaybeBases
  <2>2. UNCHANGED archives \/ Noted(p, a)
    BY <1>6 DEF Read
  <2> HIDE DEF a
  <2> QED
    BY <1>1, <1>2, <2>0, <2>1, <2>2
<1>7. CASE Compare(p)
  <2>0. Own(p) \in Archives /\ pc[p] \in Holding
    BY <1>3, <1>7 DEF Compare, Holding
  <2>1. ASSUME NEW good \in BOOLEAN, NEW moved \in SUBSET Tables
        PROVE  LET a == Judged(p, moved, good)
               IN  a \in Archives /\ a.kept = Own(p).kept /\ a.began = Own(p).began
    BY <2>0 DEF Judged, Archives, MaybeBases
  <2>2. [Own(p) EXCEPT !.fingerprint = None] \in Archives
        /\ [Own(p) EXCEPT !.fingerprint = None].kept = Own(p).kept
        /\ [Own(p) EXCEPT !.fingerprint = None].began = Own(p).began
    BY <2>0 DEF Archives, MaybeBases
  <2>3. \/ Noted(p, [Own(p) EXCEPT !.fingerprint = None])
        \/ \E good \in BOOLEAN, moved \in SUBSET Tables : Noted(p, Judged(p, moved, good))
    <3>1. Differ(bk[p].before, db.served) \in SUBSET Tables
      BY DEF Differ
    <3> QED
      BY <1>7, <3>1 DEF Compare
  <2> QED
    BY <1>2, <2>0, <2>1, <2>2, <2>3
<1> QED
  BY <1>1, <1>4, <1>5, <1>6, <1>7 DEF Backup, Before, Verify

LEMMA OthersTouch ==
    ASSUME TypeOK, [DeploymentNext]_deploymentVars, ~(\E p \in Scripts : Backup(p)), NEW i \in DOMAIN archives
    PROVE  Same(i) /\ Untouched(i)
<1>0. archives[i] \in Archives
  BY ArchiveTypes
<1>1. CASE UNCHANGED archives
  BY <1>1 DEF Same, Untouched
<1>2. CASE Spoil
  <2>1. DOMAIN archives' = DOMAIN archives
    BY <1>2, OneSpoilt
  <2>2. \/ archives'[i] = archives[i]
        \/ archives'[i] = [archives[i] EXCEPT !.holds = Wrong(@), !.sum = FALSE]
    BY <1>2, OneSpoilt
  <2> QED
    BY <1>0, <2>1, <2>2 DEF Same, Untouched, Archives
<1>3. UNCHANGED archives \/ Spoil
  BY DEF DeploymentNext, deploymentVars, Cron, Kill, Deploy, Stop, Fingerprint, Inventory, Replay, ReplayEnds, Simulate, Accept,
         Decline, Apply, Check, Start, Restore, DropPrevious, Rename, Swap, Reread, Write, Stray, Abort,
         WithoutPurge, GiveUp
<1> QED
  BY <1>1, <1>2, <1>3

\* Every archive stays, as it was made; one that nobody owns stays as it was judged, and nobody's.
LEMMA FreeStays ==
    ASSUME TypeOK, BackupsInOrder, [DeploymentNext]_deploymentVars, NEW i \in DOMAIN archives
    PROVE  Same(i) /\ (Free(i) => Untouched(i) /\ StaysFree(i))
<1>0. i # 0 /\ i # Len(archives) + 1
  BY ArchiveTypes
<1>1. CASE \E p \in Scripts : Backup(p)
  <2>1. PICK p \in Scripts : Backup(p)
    BY <1>1
  <2>2. Same(i) /\ (i # bk[p].archive => Untouched(i))
    BY <2>1, BackupTouches
  <2>3. /\ \A q \in Scripts : q # p => bk'[q] = bk[q]
        /\ bk'[p].archive \in {0, bk[p].archive, Len(archives) + 1}
    BY <2>1, BackupMoves
  <2> QED
    BY <1>0, <2>2, <2>3 DEF Free, StaysFree
<1>2. CASE ~(\E p \in Scripts : Backup(p))
  <2>1. Same(i) /\ Untouched(i)
    BY <1>2, OthersTouch
  <2>2. UNCHANGED bk \/ \E p \in Scripts : bk' = [bk EXCEPT ![p] = NoBackup]
    BY <1>2 DEF DeploymentNext, deploymentVars, Cron, Kill, Deploy, Stop, Fingerprint, Inventory, Replay, ReplayEnds, Simulate, Accept,
         Decline, Apply, Check, Start, Restore, DropPrevious, Rename, Swap, Reread, Write, Stray, Spoil, Abort,
         WithoutPurge, GiveUp
  <2>3. Free(i) => StaysFree(i)
    <3>1. CASE UNCHANGED bk
      BY <3>1 DEF Free, StaysFree
    <3>2. ASSUME NEW p \in Scripts, bk' = [bk EXCEPT ![p] = NoBackup]
          PROVE  Free(i) => StaysFree(i)
      <4>1. \A q \in Scripts : bk'[q] = IF q = p THEN NoBackup ELSE bk[q]
        BY <3>2 DEF TypeOK
      <4>2. NoBackup.archive = 0
        BY DEF NoBackup
      <4> QED
        BY <1>0, <4>1, <4>2 DEF Free, StaysFree
    <3> QED
      BY <2>2, <3>1, <3>2
  <2> QED
    BY <2>1, <2>3
<1> QED
  BY <1>1, <1>2

LEMMA CopiedStays ==
    ASSUME TypeOK, BackupsInOrder, [DeploymentNext]_deploymentVars
    PROVE  /\ \A i, base : CopyAt(i, base) => StillCopyAt(i, base)
           /\ \A base : Copied(base) => StillCopied(base)
<1>1. ASSUME NEW i, NEW base, CopyAt(i, base)
      PROVE  StillCopyAt(i, base)
  <2>1. i \in DOMAIN archives /\ archives[i].kept /\ Free(i) /\ archives[i].fingerprint = base
    BY <1>1 DEF CopyAt
  <2>2. Same(i) /\ Untouched(i) /\ StaysFree(i)
    BY <2>1, FreeStays
  <2> QED
    BY <2>1, <2>2 DEF StillCopyAt, Same, Untouched
<1>2. ASSUME NEW base, Copied(base)
      PROVE  StillCopied(base)
  <2>1. PICK i \in DOMAIN archives : CopyAt(i, base)
    BY <1>2 DEF Copied
  <2>2. StillCopyAt(i, base)
    BY <1>1, <2>1
  <2>3. i \in DOMAIN archives'
    BY <2>2 DEF StillCopyAt
  <2> QED
    BY <2>2, <2>3 DEF StillCopied
<1> QED
  BY <1>1, <1>2

\* A judged archive is nobody's.
LEMMA JudgedIsFree ==
    ASSUME TypeOK, BackupsInOrder, NEW i \in DOMAIN archives, archives[i].judged
    PROVE  Free(i)
<1>1. ASSUME NEW p \in Scripts
      PROVE  bk[p].archive # i
  <2>1. CASE pc[p] \in Holding
    BY <2>1 DEF BackupsInOrder, OwnedBy
  <2>2. CASE pc[p] \notin Holding
    BY <2>2, ArchiveTypes DEF BackupsInOrder
  <2> QED
    BY <2>1, <2>2
<1> QED
  BY <1>1 DEF Free

\* One script moves; the other still owns its archive, whatever became of the file.
LEMMA OrderKept ==
    ASSUME TypeOK, BackupsInOrder, NEW p \in Scripts,
           \A q \in Scripts : q # p => bk'[q] = bk[q] /\ pc'[q] = pc[q],
           \A i \in DOMAIN archives : Same(i) /\ (i # bk[p].archive => Untouched(i)),
           OwnedBy(p)',
           pc'[p] \in Holding => \/ bk'[p].archive \notin DOMAIN archives
                                 \/ pc[p] \in Holding /\ bk'[p].archive = bk[p].archive,
           pc'[p] \notin Holding => bk'[p].archive = 0,
           pc'[p] \notin BackingUp \ {"before"} => bk'[p].before = None
    PROVE  BackupsInOrder'
<1>1. ASSUME NEW q \in Scripts, q # p, pc[q] \in Holding
      PROVE  /\ bk[q].archive \in DOMAIN archives
             /\ pc[p] \in Holding => bk[q].archive # bk[p].archive
             /\ pc[p] \notin Holding => bk[q].archive # bk[p].archive
  <2>1. bk[q].archive \in DOMAIN archives
    BY <1>1 DEF BackupsInOrder, OwnedBy
  <2>2. pc[p] \notin Holding => bk[p].archive = 0
    BY DEF BackupsInOrder
  <2>3. pc[p] \in Holding => bk[q].archive # bk[p].archive
    BY <1>1 DEF BackupsInOrder, Scripts
  <2>4. bk[q].archive # 0
    BY <2>1, ArchiveTypes
  <2> QED
    BY <2>1, <2>2, <2>3, <2>4
<1>2. ASSUME NEW q \in Scripts, q # p
      PROVE  OwnedBy(q)'
  <2>1. CASE pc[q] \in Holding
    <3> DEFINE i == bk[q].archive
    <3>1. Same(i) /\ Untouched(i)
      BY <1>1, <1>2, <2>1
    <3>2. OwnedBy(q)
      BY DEF BackupsInOrder
    <3>3. bk'[q] = bk[q] /\ pc'[q] = pc[q]
      BY <1>2
    <3> QED
      BY <2>1, <3>1, <3>2, <3>3 DEF OwnedBy, Same, Untouched
  <2>2. CASE pc[q] \notin Holding
    BY <1>2, <2>2 DEF OwnedBy
  <2> QED
    BY <2>1, <2>2
<1>3. \A q \in Scripts : OwnedBy(q)'
  BY <1>2
<1>4. \A q \in Scripts : pc'[q] \notin Holding => bk'[q].archive = 0
  BY DEF BackupsInOrder
<1>5. \A q \in Scripts : pc'[q] \notin BackingUp \ {"before"} => bk'[q].before = None
  BY DEF BackupsInOrder
<1>6. ASSUME NEW q \in Scripts, q # p, pc'[q] \in Holding, pc'[p] \in Holding
      PROVE  bk'[q].archive # bk'[p].archive
  BY <1>1, <1>6
<1>7. pc'.cron \in Holding /\ pc'.operator \in Holding => bk'.cron.archive # bk'.operator.archive
  BY <1>6 DEF Scripts
<1> QED
  BY <1>3, <1>4, <1>5, <1>7 DEF BackupsInOrder

LEMMA BackupOrder ==
    ASSUME TypeOK, BackupsInOrder, NEW p \in Scripts, Backup(p)
    PROVE  BackupsInOrder'
<1>0. bk \in [Scripts -> BackupNotes] /\ pc \in [Scripts -> OperatorPlaces] /\ bk[p] \in BackupNotes
  BY DEF TypeOK
<1>1. \A q \in Scripts : q # p => bk'[q] = bk[q] /\ pc'[q] = pc[q]
  BY BackupMoves
<1>2. \A i \in DOMAIN archives : Same(i) /\ (i # bk[p].archive => Untouched(i))
  BY BackupTouches
<1>3. ASSUME NEW verified, NEW base, BackupEnds(p, verified, base)
      PROVE  BackupsInOrder'
  <2>1. bk'[p] = NoBackup /\ pc'[p] \in {"idle", "archive", "drop"}
    BY <1>3, BackupEndsMoves
  <2>2. bk'[p].archive = 0 /\ bk'[p].before = None
    BY <2>1 DEF NoBackup
  <2>3. pc'[p] \notin Holding
    BY <2>1 DEF Holding
  <2>4. OwnedBy(p)'
    BY <2>3 DEF OwnedBy
  <2> QED
    BY <1>1, <1>2, <2>2, <2>3, <2>4, OrderKept
<1>4. ASSUME NEW place, Goes(p, place)
      PROVE  pc'[p] = place
  BY <1>0, <1>4 DEF Goes
<1>5. CASE Before(p)
  <2>1. pc[p] = "before" /\ pc'[p] = "dump" /\ bk'[p].archive = bk[p].archive
    BY <1>0, <1>4, <1>5 DEF Before, BackupNotes
  <2>2. bk'[p].archive = 0
    BY <2>1 DEF BackupsInOrder, Holding
  <2>3. OwnedBy(p)'
    BY <2>1 DEF OwnedBy, Holding
  <2>4. pc'[p] \notin Holding /\ pc'[p] \in BackingUp \ {"before"}
    BY <2>1 DEF Holding, BackingUp
  <2> QED
    BY <1>1, <1>2, <2>2, <2>3, <2>4, OrderKept
<1>6. CASE Dump(p)
  <2>1. ASSUME NEW good \in BOOLEAN, db.served # None,
               archives' = Append(archives,
                     [holds |-> IF good THEN db.served ELSE Wrong(db.served), began |-> bk[p].before,
                      kept |-> p = "operator", here |-> TRUE, sum |-> FALSE, fingerprint |-> None,
                      moved |-> {}, crossed |-> FALSE, judged |-> FALSE]),
               bk' = [bk EXCEPT ![p].archive = Len(archives) + 1], Goes(p, "sum")
        PROVE  BackupsInOrder'
    <3> DEFINE a == [holds |-> IF good THEN db.served ELSE Wrong(db.served), began |-> bk[p].before,
                     kept |-> p = "operator", here |-> TRUE, sum |-> FALSE, fingerprint |-> None,
                     moved |-> {}, crossed |-> FALSE, judged |-> FALSE]
    <3>1. db.served \in SoundBases /\ Wrong(db.served) \in SoundBases /\ bk[p].before \in MaybeBases
      BY <1>0, <2>1, WrongSound DEF TypeOK, Clusters, MaybeBases, BackupNotes
    <3>2. a \in Archives
      BY <3>1 DEF Archives, MaybeBases
    <3>3. /\ a.kept = (p = "operator") /\ ~a.judged /\ a.began = bk[p].before
          /\ a.fingerprint = None /\ ~a.sum
      OBVIOUS
    <3>4. archives' = Append(archives, a)
      BY <2>1
    <3> HIDE DEF a
    <3>5. /\ DOMAIN archives' = 1..(Len(archives) + 1) /\ DOMAIN archives = 1..Len(archives)
          /\ Len(archives) \in Nat /\ archives'[Len(archives) + 1] = a
      BY <3>2, <3>4, OneAdded
    <3>6. /\ bk'[p].archive = Len(archives) + 1 /\ bk'[p].before = bk[p].before /\ pc'[p] = "sum"
      BY <1>0, <1>4, <2>1 DEF BackupNotes
    <3>7. bk'[p].archive \notin DOMAIN archives /\ bk'[p].archive \in DOMAIN archives'
      BY <3>5, <3>6
    <3>8. OwnedBy(p)'
      BY <3>3, <3>5, <3>6, <3>7 DEF OwnedBy
    <3>9. pc'[p] \in Holding /\ pc'[p] \in BackingUp \ {"before"}
      BY <3>6 DEF Holding, BackingUp
    <3> QED
      BY <1>1, <1>2, <3>7, <3>8, <3>9, OrderKept
  <2> QED
    BY <1>3, <1>6, <2>1 DEF Dump
<1>7. CASE Sum(p)
  <2>1. CASE BackupEnds(p, FALSE, db)
    BY <1>3, <2>1
  <2>2. CASE ~(p = "operator" /\ bk[p].before = None) /\ Goes(p, "verify") /\ UNCHANGED <<db, app, bk, run>>
    <3>1. pc[p] = "sum" /\ pc'[p] = "verify" /\ bk'[p] = bk[p]
      BY <1>4, <1>7, <2>2 DEF Sum
    <3>2. OwnedBy(p) /\ pc[p] \in Holding /\ pc'[p] \in Holding /\ pc'[p] \in BackingUp \ {"before"}
      BY <3>1 DEF BackupsInOrder, Holding, BackingUp
    <3>3. /\ bk[p].archive \in DOMAIN archives' /\ archives[bk[p].archive] \in Archives
          /\ archives'[bk[p].archive] = [archives[bk[p].archive] EXCEPT !.sum = TRUE]
      BY <1>7, SomeExpired, ArchiveTypes
    <3>4. OwnedBy(p)'
      BY <2>2, <3>1, <3>2, <3>3 DEF OwnedBy, Archives
    <3> QED
      BY <1>1, <1>2, <3>1, <3>2, <3>4, OrderKept
  <2> QED
    BY <1>7, <2>1, <2>2 DEF Sum
<1>8. CASE Verify(p)
  <2>1. CASE BackupEnds(p, FALSE, [db EXCEPT !.verify = None])
    BY <1>3, <2>1
  <2>2. CASE Goes(p, "read") /\ UNCHANGED <<bk, archives>>
    <3>1. pc[p] = "verify" /\ pc'[p] = "read" /\ bk'[p] = bk[p] /\ archives' = archives
      BY <1>4, <1>8, <2>2 DEF Verify
    <3>2. OwnedBy(p) /\ pc[p] \in Holding /\ pc'[p] \in Holding /\ pc'[p] \in BackingUp \ {"before"}
      BY <3>1 DEF BackupsInOrder, Holding, BackingUp
    <3>3. OwnedBy(p)'
      BY <3>1, <3>2 DEF OwnedBy
    <3> QED
      BY <1>1, <1>2, <3>1, <3>2, <3>3, OrderKept
  <2> QED
    BY <1>8, <2>1, <2>2 DEF Verify
<1>9. CASE Read(p)
  <2> DEFINE a == [Own(p) EXCEPT !.fingerprint = db.verify, !.crossed = db.verify # Own(p).holds]
  <2>1. ASSUME db.verify # None, Noted(p, a), bk[p].before # None, Goes(p, "compare"), UNCHANGED bk
        PROVE  BackupsInOrder'
    <3>1. pc[p] = "read" /\ pc'[p] = "compare" /\ bk'[p] = bk[p]
      BY <1>4, <1>9, <2>1 DEF Read
    <3>2. OwnedBy(p) /\ pc[p] \in Holding /\ pc'[p] \in Holding /\ pc'[p] \in BackingUp \ {"before"}
      BY <3>1 DEF BackupsInOrder, Holding, BackingUp
    <3>3. Own(p) \in Archives
      BY <3>2, ArchiveTypes DEF OwnedBy, Own
    <3>4. a \in Archives /\ a.kept = Own(p).kept /\ a.began = Own(p).began /\ a.judged = Own(p).judged
          /\ a.fingerprint # None
      BY <2>1, <3>3 DEF Archives, TypeOK, Clusters, MaybeBases
    <3> HIDE DEF a
    <3>5. bk[p].archive \in DOMAIN archives' /\ archives'[bk[p].archive] = a
      BY <2>1, <3>2, <3>4, OneNoted
    <3>6. OwnedBy(p)'
      BY <2>1, <3>1, <3>2, <3>4, <3>5 DEF OwnedBy, Own
    <3> QED
      BY <1>1, <1>2, <3>1, <3>2, <3>6, OrderKept
  <2> QED
    BY <1>3, <1>9, <2>1 DEF Read
<1>10. CASE Compare(p)
  BY <1>3, <1>10 DEF Compare
<1> QED
  BY <1>5, <1>6, <1>7, <1>8, <1>9, <1>10 DEF Backup

LEMMA BackupsNext ==
    ASSUME TypeOK, BackupsInOrder, [DeploymentNext]_deploymentVars
    PROVE  BackupsInOrder'
<1>0. bk \in [Scripts -> BackupNotes] /\ pc \in [Scripts -> OperatorPlaces]
  BY DEF TypeOK
<1>1. CASE \E p \in Scripts : Backup(p)
  BY <1>1, BackupOrder
<1>2. CASE ~(\E p \in Scripts : Backup(p))
  <2>1. \A i \in DOMAIN archives : Same(i) /\ Untouched(i)
    BY <1>2, OthersTouch
  <2>2. CASE UNCHANGED <<pc, bk>>
    <3>1. \A q \in Scripts : bk'[q] = bk[q] /\ pc'[q] = pc[q]
      BY <2>2
    <3>2. "cron" \in Scripts /\ OwnedBy("cron")
      BY DEF Scripts, BackupsInOrder
    <3>3. OwnedBy("cron")'
      <4>1. CASE pc.cron \in Holding
        <5>1. bk.cron.archive \in DOMAIN archives
          BY <3>2, <4>1 DEF OwnedBy
        <5>2. Same(bk.cron.archive) /\ Untouched(bk.cron.archive)
          BY <2>1, <5>1
        <5> QED
          BY <2>2, <3>2, <4>1, <5>2 DEF OwnedBy, Same, Untouched
      <4>2. CASE pc.cron \notin Holding
        BY <2>2, <4>2 DEF OwnedBy
      <4> QED
        BY <4>1, <4>2
    <3>4. pc'["cron"] \notin Holding => bk'["cron"].archive = 0
      BY <3>1, <3>2 DEF BackupsInOrder
    <3>5. pc'["cron"] \notin BackingUp \ {"before"} => bk'["cron"].before = None
      BY <3>1, <3>2 DEF BackupsInOrder
    <3> QED
      BY <2>1, <3>1, <3>2, <3>3, <3>4, <3>5, OrderKept
  <2>3. ASSUME NEW p \in Scripts, NEW place, Goes(p, place), place \notin BackingUp \ {"before"},
               \/ bk' = bk /\ pc[p] \notin BackingUp \ {"before"}
               \/ bk' = [bk EXCEPT ![p] = NoBackup]
        PROVE  BackupsInOrder'
    <3>1. pc'[p] = place /\ \A q \in Scripts : q # p => bk'[q] = bk[q] /\ pc'[q] = pc[q]
      BY <1>0, <2>3 DEF Goes
    <3>2. pc'[p] \notin Holding
      BY <2>3, <3>1 DEF BackingUp, Holding
    <3>3. bk'[p].archive = 0 /\ bk'[p].before = None
      <4>1. CASE bk' = bk /\ pc[p] \notin BackingUp \ {"before"}
        <5>1. pc[p] \notin Holding
          BY <4>1 DEF BackingUp, Holding
        <5> QED
          BY <4>1, <5>1 DEF BackupsInOrder
      <4>2. CASE bk' = [bk EXCEPT ![p] = NoBackup]
        BY <1>0, <4>2 DEF NoBackup
      <4> QED
        BY <2>3, <4>1, <4>2
    <3>4. OwnedBy(p)'
      BY <3>2 DEF OwnedBy
    <3> QED
      BY <2>1, <3>1, <3>2, <3>3, <3>4, OrderKept
  <2> DEFINE Quiet == OperatorPlaces \ (BackingUp \ {"before"})
  <2>4. \/ UNCHANGED <<pc, bk>>
        \/ \E p \in Scripts, place \in Quiet :
              /\ Goes(p, place)
              /\ \/ bk' = bk /\ pc[p] \notin BackingUp \ {"before"}
                 \/ bk' = [bk EXCEPT ![p] = NoBackup]
    <3>1. "operator" \in Scripts /\ "cron" \in Scripts
      BY DEF Scripts
    <3>2. /\ {"idle", "before", "stop", "fingerprint", "archive", "replay", "simulate", "accept", "apply", "check",
              "start", "drop", "rename", "swap", "reread"} \subseteq Quiet
          /\ Quiet \cap (BackingUp \ {"before"}) = {}
      BY DEF OperatorPlaces, BackingUp, Holding, Releasing, Replacing
    <3> HIDE DEF Quiet
    <3>3. CASE Cron \/ \E p \in Scripts : Kill(p)
      BY <3>1, <3>2, <3>3 DEF Cron, Kill
    <3>4. CASE Deploy \/ Stop \/ Fingerprint \/ Restore
      BY <3>1, <3>2, <3>4 DEF Deploy, Stop, Fingerprint, Restore, Abort, Exit, OperatorAt
    <3>5. CASE Inventory \/ Replay \/ ReplayEnds
      BY <3>1, <3>2, <3>5 DEF Inventory, Replay, ReplayEnds, Abort, Exit, OperatorAt
    <3>6. CASE Simulate \/ Accept \/ Decline \/ Apply
      BY <3>1, <3>2, <3>6 DEF Simulate, Accept, Decline, Apply, WithoutPurge, Exit, OperatorAt
    <3>7. CASE Check \/ Start \/ DropPrevious \/ Rename \/ Swap \/ Reread
      BY <3>1, <3>2, <3>7 DEF Check, Start, DropPrevious, Rename, Swap, Reread, GiveUp, Exit, OperatorAt
    <3>8. CASE Write \/ Stray \/ Spoil \/ UNCHANGED deploymentVars
      BY <3>8 DEF Write, Stray, Spoil, deploymentVars
    <3> QED
      BY <1>2, <3>3, <3>4, <3>5, <3>6, <3>7, <3>8 DEF DeploymentNext
  <2> QED
    BY <2>2, <2>3, <2>4
<1> QED
  BY <1>1, <1>2

LEMMA ArchivesNext ==
    ASSUME TypeOK, BackupsInOrder, ArchivesInOrder, [DeploymentNext]_deploymentVars
    PROVE  ArchivesInOrder'
<1>0. bk \in [Scripts -> BackupNotes] /\ \A p \in Scripts : pc[p] \in Holding => OwnedBy(p) /\ Own(p) \in Archives
  <2>1. ASSUME NEW p \in Scripts, pc[p] \in Holding
        PROVE  OwnedBy(p) /\ Own(p) \in Archives
    <3>1. OwnedBy(p)
      BY DEF BackupsInOrder
    <3> QED
      BY <2>1, <3>1, ArchiveTypes DEF OwnedBy, Own
  <2> QED
    BY <2>1 DEF TypeOK
<1>1. CASE UNCHANGED archives
  BY <1>1 DEF ArchivesInOrder
<1>2. ASSUME NEW p \in Scripts, NEW a \in Archives, pc[p] \in Holding, Noted(p, a), Coherent(a)
      PROVE  ArchivesInOrder'
  <2>1. /\ DOMAIN archives' = DOMAIN archives /\ archives'[bk[p].archive] = a
        /\ \A i \in DOMAIN archives : i # bk[p].archive => archives'[i] = archives[i]
    BY <1>2, OneNoted
  <2>2. \A i \in DOMAIN archives' : Coherent(archives'[i])
    BY <1>2, <2>1 DEF ArchivesInOrder
  <2> QED
    BY <2>2 DEF ArchivesInOrder
<1>3. ASSUME NEW p \in Scripts, Dump(p)
      PROVE  ArchivesInOrder'
  <2>1. ASSUME NEW good \in BOOLEAN, db.served # None,
               archives' = Append(archives,
                     [holds |-> IF good THEN db.served ELSE Wrong(db.served), began |-> bk[p].before,
                      kept |-> p = "operator", here |-> TRUE, sum |-> FALSE, fingerprint |-> None,
                      moved |-> {}, crossed |-> FALSE, judged |-> FALSE])
        PROVE  ArchivesInOrder'
    <3> DEFINE a == [holds |-> IF good THEN db.served ELSE Wrong(db.served), began |-> bk[p].before,
                     kept |-> p = "operator", here |-> TRUE, sum |-> FALSE, fingerprint |-> None,
                     moved |-> {}, crossed |-> FALSE, judged |-> FALSE]
    <3>1. db.served \in SoundBases /\ Wrong(db.served) \in SoundBases /\ bk[p].before \in MaybeBases
      BY <1>0, <2>1, WrongSound DEF TypeOK, Clusters, MaybeBases, BackupNotes
    <3>2. a \in Archives /\ Coherent(a)
      BY <3>1 DEF Archives, MaybeBases, Coherent
    <3>3. archives' = Append(archives, a)
      BY <2>1
    <3> HIDE DEF a
    <3>4. /\ DOMAIN archives' = 1..(Len(archives) + 1) /\ DOMAIN archives = 1..Len(archives)
          /\ Len(archives) \in Nat /\ archives'[Len(archives) + 1] = a
          /\ \A i \in DOMAIN archives : archives'[i] = archives[i]
      BY <3>2, <3>3, OneAdded
    <3>5. \A i \in DOMAIN archives' : i \in DOMAIN archives \/ i = Len(archives) + 1
      BY <3>4
    <3>6. \A i \in DOMAIN archives' : Coherent(archives'[i])
      BY <3>2, <3>4, <3>5 DEF ArchivesInOrder
    <3> QED
      BY <3>6 DEF ArchivesInOrder
  <2> QED
    BY <1>1, <1>3, <2>1 DEF Dump
<1>4. ASSUME NEW p \in Scripts, Sum(p)
      PROVE  ArchivesInOrder'
  <2>1. pc[p] = "sum" /\ pc[p] \in Holding
    BY <1>4 DEF Sum, Holding
  <2>2. DOMAIN archives' = DOMAIN archives /\ bk[p].archive \in DOMAIN archives
    BY <1>4, SomeExpired
  <2>3. ASSUME NEW i \in DOMAIN archives
        PROVE  Coherent(archives'[i])
    <3>0. archives[i] \in Archives /\ Coherent(archives[i])
      BY ArchiveTypes DEF ArchivesInOrder
    <3>1. CASE i = bk[p].archive
      <4>1. archives'[i] = [archives[i] EXCEPT !.sum = TRUE]
        BY <1>4, <3>1, SomeExpired
      <4>2. archives[i].fingerprint = None /\ ~archives[i].judged
        BY <1>0, <2>1, <3>1 DEF OwnedBy
      <4> QED
        BY <3>0, <4>1, <4>2 DEF Archives, Coherent
    <3>2. CASE i # bk[p].archive /\ archives'[i] = archives[i]
      BY <3>0, <3>2
    <3>3. CASE archives'[i] = [archives[i] EXCEPT !.here = FALSE] /\ ~archives[i].kept
      BY <3>0, <3>3 DEF Archives, Coherent
    <3> QED
      BY <1>4, <3>1, <3>2, <3>3, SomeExpired
  <2> QED
    BY <2>2, <2>3 DEF ArchivesInOrder
<1>5. ASSUME NEW p \in Scripts, Read(p)
      PROVE  ArchivesInOrder'
  <2> DEFINE a == [Own(p) EXCEPT !.fingerprint = db.verify, !.crossed = db.verify # Own(p).holds]
  <2>0. pc[p] \in Holding /\ Own(p) \in Archives /\ ~Own(p).judged /\ Coherent(Own(p))
    BY <1>0, <1>5 DEF Read, Holding, OwnedBy, Own, ArchivesInOrder
  <2>1. a \in Archives /\ Coherent(a)
    BY <2>0 DEF Archives, TypeOK, Clusters, MaybeBases, Coherent
  <2>2. UNCHANGED archives \/ Noted(p, a)
    BY <1>5 DEF Read
  <2> HIDE DEF a
  <2> QED
    BY <1>1, <1>2, <2>0, <2>1, <2>2
<1>6. ASSUME NEW p \in Scripts, Compare(p)
      PROVE  ArchivesInOrder'
  <2>0. /\ pc[p] \in Holding /\ Own(p) \in Archives /\ Coherent(Own(p))
        /\ Own(p).began = bk[p].before /\ bk[p].before # None
    BY <1>0, <1>6 DEF Compare, Holding, OwnedBy, Own, ArchivesInOrder
  <2>1. ASSUME NEW good \in BOOLEAN, NEW moved \in SUBSET Tables, Noted(p, Judged(p, moved, good)),
               good => Differ(bk[p].before, Own(p).fingerprint) \subseteq moved
        PROVE  ArchivesInOrder'
    <3> DEFINE a == Judged(p, moved, good)
    <3>1. /\ a \in Archives /\ a.kept = Own(p).kept /\ a.here = Own(p).here /\ a.sum = Own(p).sum
          /\ a.holds = Own(p).holds /\ a.crossed = Own(p).crossed /\ a.began = Own(p).began
          /\ a.moved = moved /\ a.fingerprint = IF good THEN Own(p).fingerprint ELSE None
      BY <2>0 DEF Judged, Archives, MaybeBases
    <3> HIDE DEF a
    <3>2. Coherent(a)
      BY <2>0, <2>1, <3>1 DEF Coherent
    <3> QED
      BY <1>2, <2>0, <2>1, <3>1, <3>2 DEF a
  <2>2. CASE Noted(p, [Own(p) EXCEPT !.fingerprint = None])
    <3>1. [Own(p) EXCEPT !.fingerprint = None] \in Archives
          /\ Coherent([Own(p) EXCEPT !.fingerprint = None])
      BY <2>0 DEF Archives, MaybeBases, Coherent
    <3> QED
      BY <1>2, <2>0, <2>2, <3>1
  <2>3. Differ(bk[p].before, db.served) \in SUBSET Tables
    BY DEF Differ
  <2> DEFINE Moved == Differ(bk[p].before, db.served)
             Good == /\ p = "operator" => Moved = {}
                     /\ Differ(bk[p].before, Own(p).fingerprint) \subseteq Moved
  <2>4. \/ Noted(p, [Own(p) EXCEPT !.fingerprint = None])
        \/ Noted(p, Judged(p, Moved, Good))
    BY <1>6 DEF Compare
  <2>5. Good \in BOOLEAN /\ (Good => Differ(bk[p].before, Own(p).fingerprint) \subseteq Moved)
    OBVIOUS
  <2> HIDE DEF Moved, Good
  <2>6. Moved \in SUBSET Tables
    BY <2>3 DEF Moved
  <2> QED
    BY <2>1, <2>2, <2>4, <2>5, <2>6
<1>7. CASE Spoil
  <2>1. DOMAIN archives' = DOMAIN archives
    BY <1>7, OneSpoilt
  <2>2. ASSUME NEW i \in DOMAIN archives
        PROVE  Coherent(archives'[i])
    <3>0. archives[i] \in Archives /\ Coherent(archives[i])
      BY ArchiveTypes DEF ArchivesInOrder
    <3>1. CASE archives'[i] = archives[i]
      BY <3>0, <3>1
    <3>2. CASE archives'[i] = [archives[i] EXCEPT !.holds = Wrong(@), !.sum = FALSE]
      BY <3>0, <3>2 DEF Archives, Coherent
    <3> QED
      BY <1>7, <3>1, <3>2, OneSpoilt
  <2> QED
    BY <2>1, <2>2 DEF ArchivesInOrder
<1>8. UNCHANGED archives \/ Spoil \/ \E p \in Scripts : Dump(p) \/ Sum(p) \/ Read(p) \/ Compare(p)
  BY DEF DeploymentNext, deploymentVars, Backup, Before, Verify, Cron, Kill, Deploy, Stop, Fingerprint, Inventory, Replay, ReplayEnds,
         Simulate, Accept, Decline, Apply, Check, Start, Restore, DropPrevious, Rename, Swap, Reread, Write, Stray,
         Abort, WithoutPurge, GiveUp
<1> QED
  BY <1>1, <1>3, <1>4, <1>5, <1>6, <1>7, <1>8

-----------------------------------------------------------------------------
(* The operator's script *)

\* What the daily backup, and a disk, leave alone.
Aside ==
    /\ UNCHANGED <<app, run, history>>
    /\ db'.served = db.served /\ db'.previous = db.previous
    /\ pc'.operator = pc.operator /\ bk'.operator = bk.operator

LEMMA CronAside ==
    ASSUME TypeOK, Cron \/ Backup("cron") \/ Kill("cron") \/ Spoil \/ UNCHANGED deploymentVars
    PROVE  Aside
<1>0. /\ db \in Clusters /\ bk \in [Scripts -> BackupNotes] /\ pc \in [Scripts -> OperatorPlaces]
      /\ Scripts = {"cron", "operator"}
  BY DEF TypeOK, Scripts
<1>1. ASSUME NEW place, Goes("cron", place)
      PROVE  pc'.operator = pc.operator
  BY <1>0, <1>1 DEF Goes
<1>2. ASSUME NEW verified, NEW base \in Clusters, BackupEnds("cron", verified, base),
             base.served = db.served, base.previous = db.previous, UNCHANGED history
      PROVE  Aside
  BY <1>0, <1>1, <1>2 DEF BackupEnds, Aside
<1>3. CASE Cron
  BY <1>1, <1>3 DEF Cron, Aside
<1>4. CASE Before("cron")
  BY <1>0, <1>1, <1>4 DEF Before, Aside
<1>5. CASE Dump("cron")
  <2>1. CASE BackupEnds("cron", FALSE, db) /\ UNCHANGED history
    BY <1>0, <1>2, <2>1
  <2>2. CASE Goes("cron", "sum") /\ UNCHANGED <<db, app, run, history>>
             /\ bk' = [bk EXCEPT !["cron"].archive = Len(archives) + 1]
    BY <1>0, <1>1, <2>2 DEF Aside
  <2> QED
    BY <1>5, <2>1, <2>2 DEF Dump
<1>6. CASE Sum("cron")
  BY <1>0, <1>1, <1>2, <1>6 DEF Sum, Aside
<1>7. [db EXCEPT !.verify = None] \in Clusters
  BY <1>0 DEF Clusters, MaybeBases
<1>8. CASE Verify("cron")
  <2>1. CASE BackupEnds("cron", FALSE, [db EXCEPT !.verify = None]) /\ UNCHANGED history
    BY <1>0, <1>2, <1>7, <2>1 DEF Clusters
  <2>2. CASE db' = [db EXCEPT !.verify = Own("cron").holds] /\ Goes("cron", "read") /\ UNCHANGED <<app, bk, run, history>>
    BY <1>0, <1>1, <2>2 DEF Aside, Clusters
  <2> QED
    BY <1>8, <2>1, <2>2 DEF Verify
<1>9. CASE Read("cron")
  <2>1. ASSUME NEW verified, BackupEnds("cron", verified, [db EXCEPT !.verify = None]), UNCHANGED history
        PROVE  Aside
    BY <1>0, <1>2, <1>7, <2>1 DEF Clusters
  <2>2. CASE db' = [db EXCEPT !.verify = None] /\ Goes("cron", "compare") /\ UNCHANGED <<app, bk, run, history>>
    BY <1>0, <1>1, <2>2 DEF Aside, Clusters
  <2> QED
    BY <1>9, <2>1, <2>2 DEF Read
<1>10. CASE Compare("cron")
  BY <1>0, <1>2, <1>10 DEF Compare
<1>11. CASE Kill("cron")
  BY <1>0, <1>1, <1>11 DEF Kill, Aside
<1>12. CASE Spoil \/ UNCHANGED deploymentVars
  BY <1>12 DEF Spoil, deploymentVars, Aside, history
<1> QED
  BY <1>3, <1>4, <1>5, <1>6, <1>8, <1>9, <1>10, <1>11, <1>12 DEF Backup

LEMMA RestorationStays ==
    ASSUME TypeOK, BackupsInOrder, RestorationInOrder, [DeploymentNext]_deploymentVars,
           run'.op = "restore" /\ pc'.operator # "idle" =>
               /\ run.op = "restore" /\ ~OperatorAt("idle") /\ run'.archive = run.archive
               /\ run'.before = run.before /\ run'.early = run.early
    PROVE  RestorationInOrder'
<1> SUFFICES ASSUME run'.op = "restore", pc'.operator # "idle", ~run'.early
             PROVE  /\ run'.archive \in DOMAIN archives' /\ run'.before # None
                    /\ archives'[run'.archive].judged /\ archives'[run'.archive].began # None
                    /\ Differ(run'.before, archives'[run'.archive].began) \subseteq archives'[run'.archive].moved
  BY DEF RestorationInOrder, OperatorAt
<1> DEFINE i == run.archive
<1>1. /\ run'.archive = i /\ run'.before = run.before
      /\ i \in DOMAIN archives /\ run.before # None
      /\ archives[i].judged /\ archives[i].began # None
      /\ Differ(run.before, archives[i].began) \subseteq archives[i].moved
  BY DEF RestorationInOrder
<1> HIDE DEF i
<1>2. Same(i) /\ Untouched(i)
  BY <1>1, JudgedIsFree, FreeStays
<1> QED
  BY <1>1, <1>2 DEF Same, Untouched

LEMMA AsideKeeps ==
    ASSUME IInv, [DeploymentNext]_deploymentVars, Aside
    PROVE  /\ OperatorInOrder' /\ BaseInOrder' /\ RestorationInOrder' /\ ChoiceInOrder'
           /\ OwedIsCopied'
<1>0. TypeOK /\ BackupsInOrder
  BY DEF IInv
<1>1. OperatorInOrder'
  BY DEF IInv, OperatorInOrder, Aside
<1>2. RestorationInOrder'
  BY <1>0, RestorationStays DEF IInv, Aside, OperatorAt
<1>3. ChoiceInOrder'
  BY DEF IInv, ChoiceInOrder, HoldsChoice, Aside, history, OperatorAt
<1>4. OwedIsCopied'
  <2>1. \A base \in owed : StillCopied(base)
    BY <1>0, CopiedStays DEF IInv, OwedIsCopied
  <2> QED
    BY <2>1 DEF OwedIsCopied, Copied, CopyAt, Free, StillCopied, StillCopyAt, StaysFree, Aside, history
<1>5. BaseInOrder'
  <2>1. /\ run' = run /\ disturbed' = disturbed /\ agreed' = agreed /\ db'.served = db.served
        /\ pc'.operator = pc.operator /\ bk'.operator = bk.operator
    BY DEF Aside, history
  <2>2. Unmoved' /\ ReplayedSoFar' /\ ReportShown'
    BY <2>1 DEF IInv, BaseInOrder, Unmoved, ReplayedSoFar, ReportShown
  <2>3. CopyNoted'
    <3>1. CopyNoted
      BY DEF IInv, BaseInOrder
    <3>2. ASSUME pc'.operator = "archive"
          PROVE  (/\ run.archive \in DOMAIN archives /\ archives[run.archive].fingerprint # None
                  /\ archives[run.archive].kept /\ Free(run.archive))'
      <4>1. /\ run.archive \in DOMAIN archives /\ archives[run.archive].fingerprint # None
            /\ archives[run.archive].kept /\ Free(run.archive)
        BY <2>1, <3>1, <3>2 DEF CopyNoted
      <4>2. Same(run.archive) /\ Untouched(run.archive) /\ StaysFree(run.archive)
        BY <1>0, <4>1, FreeStays
      <4> QED
        BY <2>1, <4>1, <4>2 DEF Same, Untouched, Free, StaysFree
    <3>3. (pc.operator = "replay" => CopyAt(run.archive, run.before))'
      <4>1. pc.operator = "replay" => StillCopyAt(run.archive, run.before)
        BY <1>0, <3>1, CopiedStays DEF CopyNoted
      <4> QED
        BY <2>1, <4>1 DEF CopyAt, Free, StillCopyAt, StaysFree
    <3>4. (pc.operator \in {"drop", "rename"} /\ ~disturbed => Copied(db.served))'
      <4>1. pc.operator \in {"drop", "rename"} /\ ~disturbed => StillCopied(db.served)
        BY <1>0, <3>1, CopiedStays DEF CopyNoted
      <4> QED
        BY <2>1, <4>1 DEF Copied, CopyAt, Free, StillCopied, StillCopyAt, StaysFree
    <3> QED
      BY <3>2, <3>3, <3>4 DEF CopyNoted
  <2> QED
    BY <2>2, <2>3 DEF BaseInOrder
<1> QED
  BY <1>1, <1>2, <1>3, <1>4, <1>5

LEMMA QuietPlaces ==
    ASSUME pc'.operator \in {"idle", "stop", "fingerprint", "start", "swap", "reread"}
    PROVE  BaseInOrder'
BY DEF BaseInOrder, Unmoved, CopyNoted, ReplayedSoFar, ReportShown, BackingUp, Holding, Releasing

LEMMA OperatorEnds ==
    ASSUME pc'.operator = "idle"
    PROVE  OperatorInOrder' /\ BaseInOrder' /\ RestorationInOrder'
<1>1. OperatorInOrder'
  BY DEF OperatorInOrder, Holding, Releasing, Replacing
<1>2. RestorationInOrder'
  BY DEF RestorationInOrder, OperatorAt
<1> QED
  BY <1>1, <1>2, QuietPlaces

LEMMA OperatorGoes ==
    ASSUME TypeOK
    PROVE  /\ \A place : Goes("operator", place) => pc'.operator = place
           /\ \A code : Exit(code) => pc'.operator = "idle"
BY DEF TypeOK, Goes, Exit, Scripts

\* A kept backup goes on: the base stays as it was fingerprinted.
LEMMA BackupGoesOn ==
    ASSUME IInv, [DeploymentNext]_deploymentVars, UNCHANGED <<app, run, history>>, db'.served = db.served,
           pc.operator \in BackingUp, pc'.operator \in Holding \cup {"dump"},
           pc'.operator \in Holding => db.served # None,
           \/ pc.operator = "before" /\ bk'.operator.before \in {db.served, None}
           \/ pc.operator # "before" /\ bk'.operator.before = bk.operator.before
    PROVE  OperatorInOrder' /\ BaseInOrder' /\ RestorationInOrder'
<1>1. /\ pc.operator # "idle" /\ pc.operator # "stop"
      /\ pc'.operator \notin Releasing \cup Replacing \cup {"fingerprint", "idle", "stop", "start"}
      /\ pc.operator # "before" => pc.operator \in Holding \cup {"dump"}
      /\ pc'.operator \in BackingUp
  BY DEF BackingUp, Holding, Releasing, Replacing
<1>2. OperatorInOrder'
  <2>1. run.op # "none" /\ ~app.running
    BY <1>1 DEF IInv, OperatorInOrder
  <2>2. pc'.operator \notin {"drop", "rename", "swap"}
    BY <1>1 DEF Replacing
  <2> QED
    BY <1>1, <2>1, <2>2 DEF OperatorInOrder
<1>3. RestorationInOrder'
  BY <1>1, RestorationStays DEF IInv, OperatorAt
<1>4. Unmoved'
  <2>1. run' = run /\ disturbed' = disturbed
    BY DEF history
  <2>2. Unmoved
    BY DEF IInv, BaseInOrder
  <2>3. run'.op = "deploy" => run'.before # None /\ (~disturbed' => db'.served = run'.before)
    BY <2>1, <2>2 DEF Unmoved
  <2>4. bk'.operator.before # None /\ ~disturbed' => db'.served = bk'.operator.before
    BY <1>1, <2>1, <2>2 DEF Unmoved
  <2> QED
    BY <1>1, <2>3, <2>4 DEF Unmoved, Releasing
<1>5. CopyNoted' /\ ReplayedSoFar' /\ ReportShown'
  BY <1>1 DEF CopyNoted, ReplayedSoFar, ReportShown, Releasing, Replacing
<1> QED
  BY <1>2, <1>3, <1>4, <1>5 DEF BaseInOrder

\* The kept archive, found good: it is a copy of the base the backup began with.
LEMMA ComparedGood ==
    ASSUME IInv, [DeploymentNext]_deploymentVars, Compare("operator"),
           NEW moved, Noted("operator", Judged("operator", moved, TRUE)),
           moved = {}, Differ(bk.operator.before, Own("operator").fingerprint) \subseteq moved,
           bk' = [bk EXCEPT !["operator"] = NoBackup]
    PROVE  LET i == bk.operator.archive IN
           /\ StillCopyAt(i, bk.operator.before) /\ bk.operator.before # None
<1> DEFINE i == bk.operator.archive
<1>1. /\ pc.operator = "compare" /\ pc.operator \in Holding /\ "operator" \in Scripts /\ "cron" \in Scripts
  BY DEF Compare, Holding, Scripts
<1>2. OwnedBy("operator") /\ TypeOK /\ BackupsInOrder
  BY <1>1 DEF IInv, BackupsInOrder
<1>3. /\ i \in DOMAIN archives /\ archives[i].kept /\ archives[i].fingerprint # None
      /\ bk.operator.before # None
  BY <1>1, <1>2 DEF OwnedBy
<1>4. archives[i] \in Archives /\ archives[i].fingerprint \in SoundBases /\ i # 0
  BY <1>2, <1>3, ArchiveTypes DEF MaybeBases
<1>5. bk.operator.before \in SoundBases
  BY <1>1, <1>2, <1>3 DEF TypeOK, BackupNotes, MaybeBases
<1>6. archives[i].fingerprint = bk.operator.before
  BY <1>4, <1>5, DifferNone DEF Own
<1>7. Judged("operator", moved, TRUE) \in Archives
      /\ Judged("operator", moved, TRUE).kept = archives[i].kept
      /\ Judged("operator", moved, TRUE).fingerprint = archives[i].fingerprint
  BY <1>4 DEF Judged, Archives, Own
<1>8. i \in DOMAIN archives' /\ archives'[i] = Judged("operator", moved, TRUE)
  BY <1>1, <1>2, <1>3, <1>7, OneNoted
<1>9. StaysFree(i)
  <2>1. bk'["operator"].archive = 0 /\ bk'["cron"] = bk["cron"]
    BY <1>1, <1>2 DEF TypeOK, NoBackup, Scripts
  <2>2. bk.cron.archive # i
    <3>1. CASE pc.cron \in Holding
      BY <1>1, <1>2, <3>1 DEF BackupsInOrder
    <3>2. CASE pc.cron \notin Holding
      BY <1>1, <1>2, <1>4, <3>2 DEF BackupsInOrder
    <3> QED
      BY <3>1, <3>2
  <2> QED
    BY <1>4, <2>1, <2>2 DEF StaysFree, Scripts
<1> QED
  BY <1>3, <1>6, <1>7, <1>8, <1>9 DEF StillCopyAt

LEMMA BackupDone ==
    ASSUME IInv, [DeploymentNext]_deploymentVars, Compare("operator"),
           NEW moved, Noted("operator", Judged("operator", moved, TRUE)),
           moved = {}, Differ(bk.operator.before, Own("operator").fingerprint) \subseteq moved,
           BackupEnds("operator", TRUE, db), UNCHANGED history
    PROVE  OperatorInOrder' /\ BaseInOrder' /\ RestorationInOrder'
<1> DEFINE i == bk.operator.archive
<1>0. /\ pc.operator = "compare" /\ pc.operator \in Holding /\ pc.operator \in BackingUp
      /\ bk' = [bk EXCEPT !["operator"] = NoBackup]
      /\ TypeOK /\ BackupsInOrder /\ disturbed' = disturbed
  BY DEF Compare, Holding, BackingUp, BackupEnds, IInv, history
<1>1. StillCopyAt(i, bk.operator.before) /\ bk.operator.before # None
  BY <1>0, ComparedGood
<1>2. db.served # None /\ ~app.running /\ run.op # "none" /\ (~disturbed => db.served = bk.operator.before)
  BY <1>0, <1>1 DEF IInv, OperatorInOrder, BaseInOrder, Unmoved
<1>3. CASE run.op = "deploy" /\ Goes("operator", "archive") /\ run' = [run EXCEPT !.archive = bk["operator"].archive]
           /\ db' = db /\ UNCHANGED app
  <2>1. pc'.operator = "archive"
    BY <1>0, <1>3, OperatorGoes
  <2>2. run'.op = "deploy" /\ run'.archive = i /\ run'.before = run.before
    BY <1>0, <1>3 DEF TypeOK, RunNotes
  <2>3. OperatorInOrder'
    BY <1>2, <1>3, <2>1, <2>2 DEF OperatorInOrder, Replacing
  <2>4. RestorationInOrder'
    BY <2>2 DEF RestorationInOrder
  <2>5. Unmoved'
    <3>1. run.before # None /\ (~disturbed => db.served = run.before)
      BY <1>0, <1>3 DEF IInv, BaseInOrder, Unmoved
    <3> QED
      BY <1>0, <1>3, <2>1, <2>2, <3>1 DEF Unmoved, Holding
  <2>6. CopyNoted'
    <3>1. /\ run'.archive \in DOMAIN archives' /\ archives'[run'.archive].fingerprint # None
          /\ archives'[run'.archive].kept
      BY <1>1, <2>2 DEF StillCopyAt
    <3>2. Free(run.archive)'
      BY <1>1, <2>2 DEF StillCopyAt, StaysFree, Free
    <3> QED
      BY <2>1, <3>1, <3>2 DEF CopyNoted
  <2>7. ReplayedSoFar' /\ ReportShown'
    BY <2>1 DEF ReplayedSoFar, ReportShown
  <2> QED
    BY <2>3, <2>4, <2>5, <2>6, <2>7 DEF BaseInOrder
<1>4. CASE run.op = "restore" /\ Goes("operator", "drop") /\ db' = db /\ UNCHANGED <<app, run>>
  <2>1. pc'.operator = "drop"
    BY <1>0, <1>4, OperatorGoes
  <2>2. OperatorInOrder'
    BY <1>2, <1>4, <2>1 DEF OperatorInOrder, Releasing
  <2>3. RestorationInOrder'
    BY <1>0, <1>4, RestorationStays DEF IInv, OperatorAt
  <2>4. Unmoved' /\ ReplayedSoFar' /\ ReportShown'
    BY <2>1 DEF Unmoved, ReplayedSoFar, ReportShown, BackingUp, Holding, Releasing
  <2>5. CopyNoted'
    <3>1. ~disturbed' => StillCopied(db'.served)
      <4>1. StillCopied(bk.operator.before)
        BY <1>1 DEF StillCopied, StillCopyAt
      <4> QED
        BY <1>0, <1>2, <1>4, <4>1
    <3>2. (~disturbed => Copied(db.served))'
      BY <3>1 DEF Copied, CopyAt, Free, StillCopied, StillCopyAt, StaysFree
    <3> QED
      BY <2>1, <3>2 DEF CopyNoted
  <2> QED
    BY <2>2, <2>3, <2>4, <2>5 DEF BaseInOrder
<1> QED
  BY <1>3, <1>4 DEF BackupEnds

LEMMA KeptBackupOrder ==
    ASSUME IInv, [DeploymentNext]_deploymentVars, Backup("operator")
    PROVE  OperatorInOrder' /\ BaseInOrder' /\ RestorationInOrder'
<1>0. /\ TypeOK /\ BackupsInOrder /\ bk \in [Scripts -> BackupNotes] /\ "operator" \in Scripts
      /\ db \in Clusters /\ OwnedBy("operator")
  BY DEF IInv, TypeOK, Scripts, BackupsInOrder
<1>1. ASSUME NEW base, BackupEnds("operator", FALSE, base)
      PROVE  OperatorInOrder' /\ BaseInOrder' /\ RestorationInOrder'
  <2>1. pc'.operator = "idle"
    BY <1>0, <1>1, OperatorGoes DEF BackupEnds
  <2> QED
    BY <2>1, OperatorEnds
<1>2. {"sum", "verify", "read", "compare"} \subseteq Holding
  BY DEF Holding
<1>3. pc.operator \in Holding => db.served # None
  BY DEF IInv, OperatorInOrder
<1>4. CASE Before("operator")
  <2>1. pc.operator = "before" /\ pc'.operator = "dump" /\ UNCHANGED <<db, app, run, history>>
    BY <1>0, <1>4, OperatorGoes DEF Before
  <2>2. bk'.operator.before \in {db.served, bk.operator.before}
    BY <1>0, <1>4 DEF Before, BackupNotes
  <2>3. bk.operator.before = None
    BY <1>0, <2>1 DEF BackupsInOrder
  <2>4. "before" \in BackingUp /\ "dump" \notin Holding
    BY DEF BackingUp, Holding
  <2> QED
    BY <2>1, <2>2, <2>3, <2>4, BackupGoesOn
<1>5. CASE Dump("operator")
  <2>1. CASE /\ db.served # None /\ bk' = [bk EXCEPT !["operator"].archive = Len(archives) + 1]
             /\ Goes("operator", "sum") /\ UNCHANGED <<db, app, run, history>>
    <3>1. pc.operator = "dump" /\ pc'.operator = "sum" /\ bk'.operator.before = bk.operator.before
      BY <1>0, <1>5, <2>1, OperatorGoes DEF Dump, BackupNotes
    <3>2. "dump" \in BackingUp
      BY DEF BackingUp
    <3> QED
      BY <1>2, <2>1, <3>1, <3>2, BackupGoesOn
  <2> QED
    BY <1>1, <1>5, <2>1 DEF Dump
<1>6. ASSUME NEW place \in {"verify", "read", "compare"}, Goes("operator", place),
             UNCHANGED <<app, bk, run, history>>, db'.served = db.served, pc.operator \in Holding
      PROVE  OperatorInOrder' /\ BaseInOrder' /\ RestorationInOrder'
  <2>1. pc'.operator = place /\ pc.operator \in BackingUp /\ pc.operator # "before" /\ place \in Holding
    BY <1>0, <1>6, OperatorGoes DEF BackingUp, Holding
  <2> QED
    BY <1>3, <1>6, <2>1, BackupGoesOn
<1>7. CASE Sum("operator")
  BY <1>1, <1>2, <1>6, <1>7 DEF Sum
<1>8. CASE Verify("operator")
  <2>1. CASE Goes("operator", "read") /\ db' = [db EXCEPT !.verify = Own("operator").holds]
             /\ UNCHANGED <<app, bk, run, history>>
    <3>1. db'.served = db.served /\ pc.operator \in Holding
      BY <1>0, <1>2, <1>8, <2>1 DEF Clusters, Verify
    <3> QED
      BY <1>6, <2>1, <3>1
  <2> QED
    BY <1>1, <1>8, <2>1 DEF Verify
<1>9. CASE Read("operator")
  <2>1. pc.operator = "read" /\ pc.operator \in Holding /\ bk.operator.before # None
    BY <1>0, <1>2, <1>9 DEF Read, OwnedBy
  <2>2. CASE Goes("operator", "compare") /\ db' = [db EXCEPT !.verify = None] /\ UNCHANGED <<app, bk, run, history>>
    <3>1. db'.served = db.served
      BY <1>0, <2>2 DEF Clusters
    <3> QED
      BY <1>6, <2>1, <2>2, <3>1
  <2> QED
    BY <1>1, <1>9, <2>1, <2>2 DEF Read
<1>10. CASE Compare("operator")
  <2> DEFINE moved == Differ(bk["operator"].before, db.served)
             good == /\ moved = {}
                     /\ Differ(bk["operator"].before, Own("operator").fingerprint) \subseteq moved
  <2>1. \/ \E base : BackupEnds("operator", FALSE, base)
        \/ Noted("operator", Judged("operator", moved, good)) /\ BackupEnds("operator", good, db)
    BY <1>10 DEF Compare
  <2>2. CASE good /\ Noted("operator", Judged("operator", moved, good)) /\ BackupEnds("operator", good, db)
    <3>1. good = TRUE
      BY <2>2
    <3>2. Noted("operator", Judged("operator", moved, TRUE)) /\ BackupEnds("operator", TRUE, db)
      BY <2>2, <3>1
    <3>3. moved = {} /\ Differ(bk["operator"].before, Own("operator").fingerprint) \subseteq moved
      BY <2>2
    <3>4. UNCHANGED history
      BY <1>10 DEF Compare
    <3> HIDE DEF moved
    <3> QED
      BY <1>10, <3>2, <3>3, <3>4, BackupDone
  <2>3. CASE ~good /\ BackupEnds("operator", good, db)
    <3>1. good = FALSE
      BY <2>3
    <3> QED
      BY <1>1, <2>3, <3>1
  <2> QED
    BY <1>1, <2>1, <2>2, <2>3
<1> QED
  BY <1>4, <1>5, <1>7, <1>8, <1>9, <1>10 DEF Backup

\* A run begins: what is restored is a verified archive, unless the operator does without.
LEMMA BeginOrder ==
    ASSUME IInv, [DeploymentNext]_deploymentVars, Deploy \/ Restore
    PROVE  OperatorInOrder' /\ BaseInOrder' /\ RestorationInOrder'
<1>0. TypeOK /\ ArchivesInOrder
  BY DEF IInv
<1>1. pc'.operator = "stop"
  BY <1>0, OperatorGoes DEF Deploy, Restore
<1>2. BaseInOrder'
  BY <1>1, QuietPlaces
<1>3. OperatorInOrder'
  <2>1. run'.op # "none"
    <3>1. CASE Deploy
      BY <3>1 DEF Deploy, NoRun
    <3>2. CASE Restore
      <4>1. PICK i \in DOMAIN archives, blind \in BOOLEAN :
               run' = [NoRun EXCEPT !.op = "restore", !.archive = i, !.early = blind \/ ~archives[i].judged,
                                   !.before = archives[i].holds]
        BY <3>2 DEF Restore
      <4> QED
        BY <4>1 DEF NoRun
    <3> QED
      BY <3>1, <3>2
  <2> QED
    BY <1>1, <2>1 DEF OperatorInOrder, Holding, Releasing, Replacing
<1>4. RestorationInOrder'
  <2>1. CASE Deploy
    <3>1. run'.op # "restore"
      BY <2>1 DEF Deploy, NoRun
    <3> QED
      BY <3>1 DEF RestorationInOrder
  <2>2. CASE Restore
    <3>1. PICK i \in DOMAIN archives, blind \in BOOLEAN :
             /\ Restorable(archives[i], blind)
             /\ run' = [NoRun EXCEPT !.op = "restore", !.archive = i, !.early = blind \/ ~archives[i].judged,
                              !.before = archives[i].holds]
      BY <2>2 DEF Restore
    <3>2. /\ run'.archive = i /\ run'.early = (blind \/ ~archives[i].judged) /\ run'.before = archives[i].holds
          /\ archives' = archives
      BY <2>2, <3>1 DEF NoRun, Restore
    <3>3. ASSUME ~run'.early
          PROVE  /\ archives[i].judged /\ archives[i].began # None /\ archives[i].holds # None
                 /\ Differ(archives[i].holds, archives[i].began) \subseteq archives[i].moved
      <4>1. archives[i].judged /\ ~blind
        BY <3>2, <3>3
      <4>2. archives[i].fingerprint # None /\ archives[i].fingerprint = archives[i].holds
        BY <3>1, <4>1 DEF Restorable
      <4>3. archives[i].began # None /\ Differ(archives[i].began, archives[i].holds) \subseteq archives[i].moved
        BY <1>0, <4>1, <4>2 DEF ArchivesInOrder, Coherent
      <4>4. Differ(archives[i].holds, archives[i].began) = Differ(archives[i].began, archives[i].holds)
        BY DEF Differ
      <4> QED
        BY <4>1, <4>2, <4>3, <4>4
    <3> QED
      BY <3>2, <3>3 DEF RestorationInOrder
  <2> QED
    BY <2>1, <2>2
<1> QED
  BY <1>2, <1>3, <1>4

\* A release goes on: the places it passes, as long as the base is there and the application down.
LEMMA ReleaseGoesOn ==
    ASSUME IInv, [DeploymentNext]_deploymentVars, run.op = "deploy", run'.op = run.op, pc.operator \notin {"idle", "stop"},
           pc'.operator \in Releasing \cup {"before", "start"}, app' = app,
           pc'.operator \in Releasing => db'.served # None
    PROVE  OperatorInOrder' /\ RestorationInOrder'
<1>1. ~app.running
  BY DEF IInv, OperatorInOrder
<1>2. RestorationInOrder'
  BY DEF RestorationInOrder
<1>3. OperatorInOrder'
  BY <1>1 DEF OperatorInOrder, Holding, Releasing, Replacing
<1> QED
  BY <1>2, <1>3

LEMMA StopOrder ==
    ASSUME IInv, [DeploymentNext]_deploymentVars, Stop \/ Fingerprint
    PROVE  OperatorInOrder' /\ BaseInOrder' /\ RestorationInOrder'
<1>0. /\ TypeOK /\ run \in RunNotes /\ db \in Clusters /\ app \in Containers /\ pc \in [Scripts -> OperatorPlaces]
      /\ BackupsInOrder
  BY DEF IInv, TypeOK
<1>1. ASSUME NEW code, Exit(code)
      PROVE  OperatorInOrder' /\ BaseInOrder' /\ RestorationInOrder'
  BY <1>0, <1>1, OperatorGoes, OperatorEnds
<1>2. CASE Stop
  <2>1. CASE /\ app' = [app EXCEPT !.running = FALSE]
             /\ Goes("operator", IF run.op = "deploy" THEN "fingerprint" ELSE "before")
             /\ UNCHANGED <<db, archives, bk, run, history>>
    <3>1. pc.operator = "stop" /\ pc'.operator = IF run.op = "deploy" THEN "fingerprint" ELSE "before"
      BY <1>0, <1>2, <2>1, OperatorGoes DEF Stop, OperatorAt
    <3>2. ~app'.running /\ run.op # "none"
      BY <1>0, <2>1, <3>1 DEF Containers, IInv, OperatorInOrder
    <3>3. OperatorInOrder'
      BY <2>1, <3>1, <3>2 DEF OperatorInOrder, Holding, Releasing, Replacing
    <3>4. RestorationInOrder'
      BY <1>0, <2>1, <3>1, RestorationStays DEF IInv, OperatorAt
    <3>5. BaseInOrder'
      <4>1. pc'.operator = "before" => run'.op # "deploy"
        BY <2>1, <3>1
      <4> QED
        BY <3>1, <4>1 DEF BaseInOrder, Unmoved, CopyNoted, ReplayedSoFar, ReportShown, BackingUp, Holding, Releasing
    <3> QED
      BY <3>3, <3>4, <3>5
  <2> QED
    BY <1>1, <1>2, <2>1 DEF Stop, Abort
<1>3. CASE Fingerprint
  <2>1. CASE /\ db.served # None /\ run' = [run EXCEPT !.before = db.served] /\ Goes("operator", "before")
             /\ UNCHANGED <<db, app, archives, bk, history>>
    <3>1. pc.operator = "fingerprint" /\ pc'.operator = "before" /\ run'.op = run.op /\ run'.before = db.served
      BY <1>0, <1>3, <2>1, OperatorGoes DEF Fingerprint, OperatorAt, RunNotes
    <3>2. run.op = "deploy"
      BY <3>1 DEF IInv, OperatorInOrder
    <3>3. pc'.operator \notin Releasing /\ pc'.operator \notin Holding
      BY <3>1 DEF Releasing, Holding
    <3>4. OperatorInOrder' /\ RestorationInOrder'
      BY <2>1, <3>1, <3>2, <3>3, ReleaseGoesOn
    <3>5. BaseInOrder'
      BY <2>1, <3>1, <3>3 DEF BaseInOrder, Unmoved, CopyNoted, ReplayedSoFar, ReportShown
    <3> QED
      BY <3>4, <3>5
  <2> QED
    BY <1>1, <1>3, <2>1 DEF Fingerprint, Abort
<1> QED
  BY <1>2, <1>3

LEMMA InventoryOrder ==
    ASSUME IInv, [DeploymentNext]_deploymentVars, Inventory
    PROVE  OperatorInOrder' /\ BaseInOrder' /\ RestorationInOrder'
<1>0. /\ TypeOK /\ run \in RunNotes /\ db \in Clusters /\ BackupsInOrder
  BY DEF IInv, TypeOK
<1>1. ASSUME NEW code, Exit(code)
      PROVE  OperatorInOrder' /\ BaseInOrder' /\ RestorationInOrder'
  BY <1>0, <1>1, OperatorGoes, OperatorEnds
<1>2. CASE /\ Differ(run.before, archives[run.archive].fingerprint) = {}
           /\ run' = [run EXCEPT !.journal = Journal(db.served),
                                 !.counts = IF "006/c" \in Journal(db.served) THEN None ELSE Counts(db.served),
                                 !.todo = IF "003" \in Journal(db.served) THEN AfterPurge ELSE Files]
           /\ Goes("operator", "replay")
           /\ UNCHANGED <<db, app, archives, bk, history>>
  <2>1. pc.operator = "archive" /\ pc'.operator = "replay"
    BY <1>0, <1>2, OperatorGoes DEF Inventory, OperatorAt
  <2>2. /\ run'.op = run.op /\ run'.before = run.before /\ run'.archive = run.archive
        /\ run'.journal = Journal(db.served)
        /\ run'.todo = IF "003" \in Journal(db.served) THEN AfterPurge ELSE Files
    BY <1>0, <1>2 DEF RunNotes
  <2>3. run.op = "deploy" /\ db.served # None
    BY <2>1 DEF IInv, OperatorInOrder, Releasing
  <2>4. /\ run.before # None /\ (~disturbed => db.served = run.before)
        /\ run.archive \in DOMAIN archives /\ archives[run.archive].fingerprint # None
        /\ archives[run.archive].kept /\ Free(run.archive)
    BY <2>1, <2>3 DEF IInv, BaseInOrder, Unmoved, CopyNoted, Releasing
  <2>5. run.before \in SoundBases /\ archives[run.archive].fingerprint \in SoundBases
    BY <1>0, <2>4, ArchiveTypes DEF RunNotes, MaybeBases
  <2>6. archives[run.archive].fingerprint = run.before
    BY <1>2, <2>5, DifferNone
  <2>7. OperatorInOrder' /\ RestorationInOrder'
    <3>1. pc'.operator \in Releasing
      BY <2>1 DEF Releasing
    <3> QED
      BY <1>2, <2>1, <2>2, <2>3, <3>1, ReleaseGoesOn
  <2>8. Unmoved'
    BY <2>1, <2>2, <2>4 DEF Unmoved, BackingUp, Holding
  <2>9. CopyNoted'
    <3>1. CopyAt(run.archive, run.before)'
      BY <1>2, <2>2, <2>4, <2>6 DEF CopyAt, Free
    <3> QED
      BY <2>1, <3>1 DEF CopyNoted
  <2>10. ReplayedSoFar'
    <3>1. Head(run'.todo) = "schema"
      BY <2>2 DEF AfterPurge, Files
    <3>2. ASSUME ~disturbed', run'.before # Empty
          PROVE  run'.journal = Journal(run'.before) /\ FlagsFollow(run'.before, db'.served)
      <4>1. db.served = run.before /\ run.before # Empty /\ db' = db
        BY <1>2, <2>2, <2>4, <3>2 DEF history
      <4>2. Whole(run.before)
        BY <2>5, <4>1, BaseFields
      <4> QED
        BY <2>2, <4>1, <4>2, FlagsFollowThemselves
    <3> QED
      BY <2>1, <3>1, <3>2 DEF ReplayedSoFar
  <2>11. ReportShown'
    BY <2>1 DEF ReportShown
  <2> QED
    BY <2>7, <2>8, <2>9, <2>10, <2>11 DEF BaseInOrder
<1> QED
  BY <1>1, <1>2 DEF Inventory, Abort

\* What the places after the replay have in common.
LEMMA AfterReplay ==
    ASSUME IInv, [DeploymentNext]_deploymentVars, pc.operator \in Releasing \ {"archive"}, pc'.operator \in Releasing \ {"archive"},
           run'.op = run.op, run'.before = run.before, run'.journal = run.journal, app' = app,
           UNCHANGED disturbed, db'.served \in SoundBases,
           Whole(db.served) => FlagsFollow(db.served, db'.served)
    PROVE  /\ OperatorInOrder' /\ RestorationInOrder' /\ Unmoved'
           /\ ~disturbed' /\ run'.before # Empty =>
                 run'.journal = Journal(run'.before) /\ FlagsFollow(run'.before, db'.served)
<1>1. run.op = "deploy" /\ db'.served # None /\ pc.operator \notin {"idle", "stop"}
  BY BaseConstants DEF IInv, OperatorInOrder, Releasing
<1>2. OperatorInOrder' /\ RestorationInOrder'
  BY <1>1, ReleaseGoesOn
<1>3. Unmoved'
  BY <1>1 DEF IInv, BaseInOrder, Unmoved, Releasing, BackingUp, Holding
<1>4. ASSUME ~disturbed', run'.before # Empty
      PROVE  run'.journal = Journal(run'.before) /\ FlagsFollow(run'.before, db'.served)
  <2>1. run.journal = Journal(run.before) /\ FlagsFollow(run.before, db.served)
    BY <1>4 DEF IInv, BaseInOrder, ReplayedSoFar
  <2>2. FlagsFollow(db.served, db'.served)
    BY <2>1 DEF FlagsFollow
  <2>3. FlagsFollow(run.before, db'.served)
    BY <2>1, <2>2, FlagsFollowOn
  <2> QED
    BY <2>1, <2>3
<1> QED
  BY <1>2, <1>3, <1>4

LEMMA ReplayOrder ==
    ASSUME IInv, [DeploymentNext]_deploymentVars, Replay
    PROVE  OperatorInOrder' /\ BaseInOrder' /\ RestorationInOrder'
<1>0. /\ TypeOK /\ run \in RunNotes /\ db \in Clusters /\ BackupsInOrder
  BY DEF IInv, TypeOK
<1>1. ASSUME NEW code, Exit(code)
      PROVE  OperatorInOrder' /\ BaseInOrder' /\ RestorationInOrder'
  BY <1>0, <1>1, OperatorGoes, OperatorEnds
<1>2. CASE /\ db' = [db EXCEPT !.served = Replayed(@, Head(run.todo))]
           /\ run' = [run EXCEPT !.todo = Tail(@)]
           /\ UNCHANGED <<app, archives, pc, bk, agreed, disturbed, chosen>>
  <2>1. pc.operator = "replay" /\ pc'.operator = "replay" /\ "replay" \in Releasing \ {"archive"}
    BY <1>2 DEF Replay, OperatorAt, Releasing
  <2>2. /\ run'.op = run.op /\ run'.before = run.before /\ run'.journal = run.journal /\ run'.archive = run.archive
    BY <1>0, <1>2 DEF RunNotes
  <2>3. db.served \in SoundBases
    BY <1>0, <2>1 DEF IInv, OperatorInOrder, Clusters, MaybeBases
  <2>4. Head(run.todo) \in FileNames /\ (Head(run.todo) # "schema" => Whole(db.served))
    <3>1. run.todo \in Seq(FileNames) /\ run.todo # <<>>
      BY <1>0 DEF RunNotes, Replay
    <3>2. Head(run.todo) \in FileNames
      BY <3>1, HeadTailProperties
    <3> QED
      BY <2>1, <3>1, <3>2 DEF IInv, BaseInOrder, ReplayedSoFar
  <2>5. db'.served = Replayed(db.served, Head(run.todo))
    BY <1>0, <1>2 DEF Clusters
  <2>6. /\ db'.served \in SoundBases /\ Whole(db'.served)
        /\ Whole(db.served) => FlagsFollow(db.served, db'.served)
    BY <2>3, <2>4, <2>5, ReplayedBase
  <2>7. /\ OperatorInOrder' /\ RestorationInOrder' /\ Unmoved'
        /\ ~disturbed' /\ run'.before # Empty =>
                 run'.journal = Journal(run'.before) /\ FlagsFollow(run'.before, db'.served)
    BY <1>2, <2>1, <2>2, <2>6, AfterReplay
  <2>8. ReplayedSoFar'
    BY <2>1, <2>6, <2>7 DEF ReplayedSoFar
  <2>9. CopyNoted'
    <3>1. CopyAt(run.archive, run.before)
      BY <2>1 DEF IInv, BaseInOrder, CopyNoted
    <3>2. CopyAt(run.archive, run.before)'
      BY <1>2, <2>2, <3>1 DEF CopyAt, Free
    <3> QED
      BY <2>1, <3>2 DEF CopyNoted
  <2>10. ReportShown'
    BY <2>1 DEF ReportShown
  <2> QED
    BY <2>7, <2>8, <2>9, <2>10 DEF BaseInOrder
<1> QED
  BY <1>1, <1>2 DEF Replay, Abort

LEMMA PurgeOrder ==
    ASSUME IInv, [DeploymentNext]_deploymentVars, ReplayEnds \/ Simulate \/ Accept \/ Decline \/ Apply
    PROVE  OperatorInOrder' /\ BaseInOrder' /\ RestorationInOrder'
<1>0. /\ TypeOK /\ run \in RunNotes /\ db \in Clusters /\ BackupsInOrder
  BY DEF IInv, TypeOK
<1>1. ASSUME NEW code, Exit(code)
      PROVE  OperatorInOrder' /\ BaseInOrder' /\ RestorationInOrder'
  BY <1>0, <1>1, OperatorGoes, OperatorEnds
<1>2. pc.operator \in Releasing \ {"archive"} /\ db.served \in SoundBases
  BY <1>0 DEF ReplayEnds, Simulate, Accept, Decline, Apply, OperatorAt, Releasing, IInv, OperatorInOrder, Clusters, MaybeBases
<1>3. Whole(db.served) => FlagsFollow(db.served, db.served)
  BY FlagsFollowThemselves
<1>4. ASSUME pc'.operator \in {"simulate", "accept", "apply", "check"},
             run'.op = run.op, run'.before = run.before, run'.journal = run.journal, app' = app,
             UNCHANGED disturbed, db'.served \in SoundBases,
             Whole(db.served) => FlagsFollow(db.served, db'.served), ReportShown'
      PROVE  OperatorInOrder' /\ BaseInOrder' /\ RestorationInOrder'
  <2>1. pc'.operator \in Releasing \ {"archive"} /\ pc'.operator \notin {"replay", "archive", "drop", "rename"}
    BY <1>4 DEF Releasing
  <2>2. /\ OperatorInOrder' /\ RestorationInOrder' /\ Unmoved'
        /\ ~disturbed' /\ run'.before # Empty =>
                 run'.journal = Journal(run'.before) /\ FlagsFollow(run'.before, db'.served)
    BY <1>2, <1>4, <2>1, AfterReplay
  <2>3. ReplayedSoFar' /\ CopyNoted'
    BY <2>1, <2>2 DEF ReplayedSoFar, CopyNoted
  <2> QED
    BY <1>4, <2>2, <2>3 DEF BaseInOrder
<1>5. CASE ReplayEnds
  <2>1. CASE run' = [run EXCEPT !.middle = db.served] /\ Goes("operator", "simulate")
             /\ UNCHANGED <<db, app, archives, bk, history>>
    <3>1. pc'.operator = "simulate"
      BY <1>0, <2>1, OperatorGoes
    <3>2. run'.op = run.op /\ run'.before = run.before /\ run'.journal = run.journal
      BY <1>0, <2>1 DEF RunNotes
    <3>3. ReportShown'
      BY <3>1 DEF ReportShown
    <3>4. UNCHANGED disturbed /\ db' = db
      BY <2>1 DEF history
    <3> QED
      BY <1>2, <1>3, <1>4, <2>1, <3>1, <3>2, <3>3, <3>4
  <2> QED
    BY <1>1, <1>5, <2>1 DEF ReplayEnds, Abort
<1>6. CASE Simulate
  <2>1. CASE /\ run' = [run EXCEPT !.report = Report(db.served)]
             /\ Goes("operator", CASE Already(db.served) -> "check"
                                [] ~Already(db.served) /\ Report(db.served).purged = {} -> "apply"
                                [] OTHER -> "accept")
             /\ UNCHANGED <<db, app, archives, bk, history>>
    <3>1. /\ pc'.operator \in {"check", "apply", "accept"}
          /\ pc'.operator = "apply" => Report(db.served).purged = {}
      <4>1. pc'.operator = CASE Already(db.served) -> "check"
                                [] ~Already(db.served) /\ Report(db.served).purged = {} -> "apply"
                                [] OTHER -> "accept"
        BY <1>0, <2>1, OperatorGoes
      <4> QED
        BY <4>1
    <3>2. run'.op = run.op /\ run'.before = run.before /\ run'.journal = run.journal
          /\ run'.report = Report(db.served)
      BY <1>0, <2>1 DEF RunNotes
    <3>3. Report(db.served) \in Reports
      BY <1>2, BaseFields DEF Report, Reports
    <3>4. ReportShown'
      BY <3>1, <3>2, <3>3 DEF ReportShown
    <3>5. UNCHANGED disturbed /\ db' = db
      BY <2>1 DEF history
    <3> QED
      BY <1>2, <1>3, <1>4, <2>1, <3>1, <3>2, <3>4, <3>5
  <2> QED
    BY <1>1, <1>6, <2>1 DEF Simulate, WithoutPurge
<1>7. CASE Accept
  <2>1. pc.operator = "accept" /\ pc'.operator = "apply"
    BY <1>0, <1>7, OperatorGoes DEF Accept, OperatorAt
  <2>2. ReportShown'
    BY <1>7, <2>1 DEF ReportShown, Accept, IInv, BaseInOrder
  <2> QED
    BY <1>2, <1>3, <1>4, <1>7, <2>1, <2>2 DEF Accept
<1>8. CASE Decline
  BY <1>1, <1>8 DEF Decline, WithoutPurge
<1>9. CASE Apply
  <2>1. CASE /\ ~Refuses003(db.served)
             /\ db' = [db EXCEPT !.served = IF Already(db.served) THEN db.served ELSE Purged(db.served)]
             /\ Goes("operator", "check")
             /\ UNCHANGED <<app, archives, bk, run, history>>
    <3>1. pc'.operator = "check"
      BY <1>0, <2>1, OperatorGoes
    <3>2. ~Already(db.served) => Whole(db.served)
      <4>1. ASSUME db.served = Empty
            PROVE  Refuses003(db.served)
        BY <1>2, <4>1, BaseFields DEF Refuses003
      <4> QED
        BY <1>2, <2>1, <4>1, BaseFields
    <3>3. db'.served = IF Already(db.served) THEN db.served ELSE Purged(db.served)
      BY <1>0, <2>1 DEF Clusters
    <3>4. db'.served \in SoundBases /\ (Whole(db.served) => FlagsFollow(db.served, db'.served))
      BY <1>2, <1>3, <3>2, <3>3, PurgedBase
    <3>5. ReportShown' /\ UNCHANGED disturbed
      BY <2>1, <3>1 DEF ReportShown, history
    <3> QED
      BY <1>4, <2>1, <3>1, <3>4, <3>5
  <2>2. \/ WithoutPurge(1)
        \/ /\ ~Refuses003(db.served)
           /\ db' = [db EXCEPT !.served = IF Already(db.served) THEN db.served ELSE Purged(db.served)]
           /\ Goes("operator", "check")
           /\ UNCHANGED <<app, archives, bk, run, history>>
    BY <1>9 DEF Apply
  <2> QED
    BY <1>1, <2>1, <2>2 DEF WithoutPurge
<1> QED
  BY <1>5, <1>6, <1>7, <1>8, <1>9

LEMMA FinishOrder ==
    ASSUME IInv, [DeploymentNext]_deploymentVars, Check \/ Start \/ Reread
    PROVE  OperatorInOrder' /\ BaseInOrder' /\ RestorationInOrder'
<1>0. /\ TypeOK /\ BackupsInOrder
  BY DEF IInv
<1>1. ASSUME NEW code, Exit(code)
      PROVE  OperatorInOrder' /\ BaseInOrder' /\ RestorationInOrder'
  BY <1>0, <1>1, OperatorGoes, OperatorEnds
<1>2. CASE Goes("operator", "start") /\ UNCHANGED <<run, app>> /\ (Check \/ Reread)
  <2>1. pc'.operator = "start" /\ pc.operator \in {"check", "reread"}
    BY <1>0, <1>2, OperatorGoes DEF Check, Reread, OperatorAt
  <2>2. BaseInOrder'
    BY <2>1, QuietPlaces
  <2>3. RestorationInOrder'
    BY <1>0, <1>2, <2>1, RestorationStays DEF IInv, OperatorAt
  <2>4. run.op # "none" /\ ~app.running
    BY <2>1 DEF IInv, OperatorInOrder
  <2>5. OperatorInOrder'
    BY <1>2, <2>1, <2>4 DEF OperatorInOrder, Holding, Releasing, Replacing
  <2> QED
    BY <2>2, <2>3, <2>5
<1> QED
  BY <1>1, <1>2 DEF Check, Start, Reread

LEMMA ReplaceOrder ==
    ASSUME IInv, [DeploymentNext]_deploymentVars, DropPrevious \/ Rename \/ Swap
    PROVE  OperatorInOrder' /\ BaseInOrder' /\ RestorationInOrder'
<1>0. TypeOK /\ BackupsInOrder /\ db \in Clusters
  BY DEF IInv, TypeOK
<1>1. ASSUME NEW base, GiveUp(base)
      PROVE  OperatorInOrder' /\ BaseInOrder' /\ RestorationInOrder'
  BY <1>0, <1>1, OperatorGoes, OperatorEnds DEF GiveUp
<1>2. /\ pc.operator \in {"drop", "rename", "swap"}
      /\ run.op = "restore" /\ ~app.running
      /\ pc.operator # "swap" => db.served # None
  BY DEF DropPrevious, Rename, Swap, OperatorAt, IInv, OperatorInOrder, Replacing
<1>3. ASSUME UNCHANGED <<run, app>>, pc'.operator # "idle"
      PROVE  RestorationInOrder'
  BY <1>0, <1>2, <1>3, RestorationStays DEF IInv, OperatorAt
<1>4. CASE DropPrevious
  <2>1. CASE db' = [db EXCEPT !.previous = None] /\ Goes("operator", "rename")
             /\ UNCHANGED <<app, archives, bk, run, history>>
    <3>1. pc.operator = "drop" /\ pc'.operator = "rename" /\ db'.served = db.served
      BY <1>0, <1>4, <2>1, OperatorGoes DEF DropPrevious, OperatorAt, Clusters
    <3>2. OperatorInOrder'
      BY <1>2, <2>1, <3>1 DEF OperatorInOrder, Holding, Releasing
    <3>3. CopyNoted'
      <4>1. ~disturbed => Copied(db.served)
        BY <3>1 DEF IInv, BaseInOrder, CopyNoted
      <4>2. (~disturbed => Copied(db.served))'
        BY <2>1, <3>1, <4>1 DEF Copied, CopyAt, Free, history
      <4> QED
        BY <3>1, <4>2 DEF CopyNoted
    <3>4. BaseInOrder'
      BY <3>1, <3>3 DEF BaseInOrder, Unmoved, ReplayedSoFar, ReportShown, BackingUp, Holding, Releasing
    <3> QED
      BY <1>3, <2>1, <3>1, <3>2, <3>4
  <2> QED
    BY <1>1, <1>4, <2>1 DEF DropPrevious
<1>5. CASE Rename
  <2>1. CASE db' = [db EXCEPT !.previous = db.served, !.served = None] /\ Goes("operator", "swap")
             /\ UNCHANGED <<app, archives, bk, run, agreed, disturbed, chosen>>
    <3>1. pc.operator = "rename" /\ pc'.operator = "swap" /\ db'.served = None /\ db'.previous = db.served
      BY <1>0, <1>5, <2>1, OperatorGoes DEF Rename, OperatorAt, Clusters
    <3>2. OperatorInOrder'
      BY <1>2, <2>1, <3>1 DEF OperatorInOrder, Holding, Releasing
    <3> QED
      BY <1>3, <2>1, <3>1, <3>2, QuietPlaces
  <2> QED
    BY <1>1, <1>5, <2>1 DEF Rename
<1>6. CASE Swap
  <2>1. CASE Goes("operator", "reread") /\ UNCHANGED <<app, archives, bk, run, owed, agreed, disturbed>>
    <3>1. pc'.operator = "reread"
      BY <1>0, <2>1, OperatorGoes
    <3>2. OperatorInOrder'
      BY <1>2, <2>1, <3>1 DEF OperatorInOrder, Holding, Releasing
    <3> QED
      BY <1>3, <2>1, <3>1, <3>2, QuietPlaces
  <2> QED
    BY <1>1, <1>6, <2>1 DEF Swap
<1> QED
  BY <1>4, <1>5, <1>6

\* Users write as long as the application runs, that is before anything is copied; whoever writes
\* at a terminal is noted.
LEMMA WriteOrder ==
    ASSUME IInv, [DeploymentNext]_deploymentVars, Write \/ Stray
    PROVE  OperatorInOrder' /\ BaseInOrder' /\ RestorationInOrder'
<1>0. TypeOK /\ BackupsInOrder /\ db \in Clusters
  BY DEF IInv, TypeOK
<1>1. UNCHANGED <<app, archives, pc, bk, run, agreed>>
  BY DEF Write, Stray
<1>2. PICK b \in SoundBases : Whole(b) /\ db' = [db EXCEPT !.served = b]
  BY <1>0, WrittenBase
<1>3. db'.served = b /\ db'.served # None /\ db'.previous = db.previous /\ db.served # None
  BY <1>0, <1>2, BaseConstants, WrittenBase DEF Clusters
<1>4. OperatorInOrder'
  BY <1>1, <1>3 DEF IInv, OperatorInOrder
<1>5. RestorationInOrder'
  BY <1>0, <1>1, RestorationStays DEF IInv, OperatorAt
<1>6. BaseInOrder'
  <2>1. CASE Write
    <3>1. pc.operator \in {"idle", "stop"}
      BY <2>1 DEF Write, IInv, OperatorInOrder
    <3> QED
      BY <1>1, <3>1, QuietPlaces
  <2>2. CASE Stray
    <3>1. disturbed' = TRUE
      BY <2>2 DEF Stray
    <3>2. Unmoved'
      BY <1>1, <3>1 DEF IInv, BaseInOrder, Unmoved
    <3>3. CopyNoted'
      <4>1. pc'.operator = "archive" =>
               /\ run'.archive \in DOMAIN archives' /\ archives'[run'.archive].fingerprint # None
               /\ archives'[run'.archive].kept
        BY <1>1 DEF IInv, BaseInOrder, CopyNoted
      <4>2. (pc.operator = "archive" => Free(run.archive))'
        BY <1>1 DEF IInv, BaseInOrder, CopyNoted, Free
      <4>3. (pc.operator = "replay" => CopyAt(run.archive, run.before))'
        BY <1>1 DEF IInv, BaseInOrder, CopyNoted, CopyAt, Free
      <4> QED
        BY <3>1, <4>1, <4>2, <4>3 DEF CopyNoted
    <3>4. ReplayedSoFar'
      BY <1>2, <1>3, <3>1 DEF ReplayedSoFar
    <3>5. ReportShown'
      BY <1>1 DEF IInv, BaseInOrder, ReportShown
    <3> QED
      BY <3>2, <3>3, <3>4, <3>5 DEF BaseInOrder
  <2> QED
    BY <2>1, <2>2
<1> QED
  BY <1>4, <1>5, <1>6

LEMMA OperatorNext ==
    ASSUME IInv, [DeploymentNext]_deploymentVars
    PROVE  OperatorInOrder' /\ BaseInOrder' /\ RestorationInOrder'
<1>0. TypeOK
  BY DEF IInv
<1>1. CASE Cron \/ Backup("cron") \/ Kill("cron") \/ Spoil \/ UNCHANGED deploymentVars
  <2>1. Aside
    BY <1>0, <1>1, CronAside
  <2> QED
    BY <2>1, AsideKeeps
<1>2. CASE Backup("operator")
  BY <1>2, KeptBackupOrder
<1>3. CASE Kill("operator")
  <2>1. pc'.operator = "idle"
    BY <1>0, <1>3, OperatorGoes DEF Kill
  <2> QED
    BY <2>1, OperatorEnds
<1>4. CASE Deploy \/ Restore
  BY <1>4, BeginOrder
<1>5. CASE Stop \/ Fingerprint
  BY <1>5, StopOrder
<1>6. CASE Inventory
  BY <1>6, InventoryOrder
<1>7. CASE Replay
  BY <1>7, ReplayOrder
<1>8. CASE ReplayEnds \/ Simulate \/ Accept \/ Decline \/ Apply
  BY <1>8, PurgeOrder
<1>9. CASE Check \/ Start \/ Reread
  BY <1>9, FinishOrder
<1>10. CASE DropPrevious \/ Rename \/ Swap
  BY <1>10, ReplaceOrder
<1>11. CASE Write \/ Stray
  BY <1>11, WriteOrder
<1> QED
  BY <1>1, <1>2, <1>3, <1>4, <1>5, <1>6, <1>7, <1>8, <1>9, <1>10, <1>11 DEF DeploymentNext, Scripts

LEMMA OwedNext ==
    ASSUME IInv, [DeploymentNext]_deploymentVars
    PROVE  OwedIsCopied'
<1>0. TypeOK /\ BackupsInOrder
  BY DEF IInv
<1>1. \A base \in owed : StillCopied(base)
  BY <1>0, CopiedStays DEF IInv, OwedIsCopied
<1>2. ASSUME \A base \in owed' : StillCopied(base)
      PROVE  OwedIsCopied'
  BY <1>2 DEF OwedIsCopied, Copied, CopyAt, Free, StillCopied, StillCopyAt, StaysFree
<1>3. CASE Replay
  <2>1. CASE owed' = owed \cup {run.before}
    <3>1. CopyAt(run.archive, run.before)
      BY <1>3 DEF Replay, OperatorAt, IInv, BaseInOrder, CopyNoted
    <3>2. Copied(run.before)
      BY <3>1 DEF Copied, CopyAt
    <3> QED
      BY <1>0, <1>1, <1>2, <2>1, <3>2, CopiedStays
  <2>2. CASE owed' = owed
    BY <1>1, <1>2, <2>2
  <2> QED
    BY <1>3, <2>1, <2>2 DEF Replay, Abort, history
<1>4. CASE Rename
  <2>1. CASE owed' = owed \cup {db.served} /\ ~disturbed
    <3>1. Copied(db.served)
      BY <1>4, <2>1 DEF Rename, OperatorAt, IInv, BaseInOrder, CopyNoted
    <3> QED
      BY <1>0, <1>1, <1>2, <2>1, <3>1, CopiedStays
  <2>2. CASE owed' = owed
    BY <1>1, <1>2, <2>2
  <2> QED
    BY <1>4, <2>1, <2>2 DEF Rename, GiveUp, history
<1>5. owed' = owed \/ Replay \/ Rename
  BY DEF DeploymentNext, deploymentVars, history, Backup, Before, Dump, Sum, Verify, Read, Compare, Cron, Kill, Deploy, Stop, Fingerprint,
         Inventory, ReplayEnds, Simulate, Accept, Decline, Apply, Check, Start, Restore, DropPrevious, Swap, Reread,
         Write, Stray, Spoil, Abort, WithoutPurge, GiveUp
<1> QED
  BY <1>1, <1>2, <1>3, <1>4, <1>5

\* A base that holds the choice is whole, and one that follows it holds it too.
LEMMA ChoiceFollows ==
    ASSUME NEW b \in SoundBases, "006/c" \in Journal(b), NEW r, Whole(b) => FlagsFollow(b, r)
    PROVE  "006/c" \in Journal(r) /\ r.flags.hopt = b.flags.hopt
<1>1. Whole(b)
  BY BaseFields
<1> QED
  BY <1>1 DEF FlagsFollow, Marked

LEMMA ChoiceNext ==
    ASSUME IInv, [DeploymentNext]_deploymentVars
    PROVE  ChoiceInOrder'
<1>0. TypeOK /\ db \in Clusters /\ pc \in [Scripts -> OperatorPlaces] /\ ChoiceInOrder
  BY DEF IInv, TypeOK
<1>1. ASSUME chosen' = chosen, db'.served = db.served, db'.previous = db.previous,
             pc'.operator = "swap" => pc.operator = "swap"
      PROVE  ChoiceInOrder'
  BY <1>0, <1>1 DEF ChoiceInOrder, HoldsChoice, OperatorAt
<1>2. ASSUME chosen' = chosen, pc'.operator # "swap", db.served \in SoundBases,
             Whole(db.served) => FlagsFollow(db.served, db'.served)
      PROVE  ChoiceInOrder'
  <2>1. ASSUME chosen # None
        PROVE  "006/c" \in Journal(db'.served) /\ db'.served.flags.hopt = chosen
    <3>1. HoldsChoice(db.served)
      BY <1>0, <1>2, <2>1, BaseConstants DEF ChoiceInOrder
    <3> QED
      BY <1>2, <3>1, ChoiceFollows DEF HoldsChoice
  <2> QED
    BY <1>2, <2>1 DEF ChoiceInOrder, HoldsChoice, OperatorAt
<1>3. CASE Aside
  BY <1>1, <1>3 DEF Aside, history
<1>4. ASSUME NEW place, Goes("operator", place), place # "swap"
      PROVE  pc'.operator # "swap"
  BY <1>0, <1>4, OperatorGoes
<1>5. ASSUME NEW base \in Clusters, NEW verified, BackupEnds("operator", verified, base), UNCHANGED history,
             base.served = db.served, base.previous = db.previous
      PROVE  ChoiceInOrder'
  <2>1. pc'.operator # "swap"
    BY <1>0, <1>5, BackupEndsMoves DEF Scripts
  <2>2. db'.served = db.served /\ db'.previous = db.previous
    BY <1>5 DEF BackupEnds, Clusters
  <2> QED
    BY <1>1, <1>5, <2>1, <2>2 DEF history
<1>6. CASE Backup("operator")
  <2>1. [db EXCEPT !.verify = None] \in Clusters
    BY <1>0 DEF Clusters, MaybeBases
  <2>2. ASSUME NEW place, Goes("operator", place), place # "swap", UNCHANGED history,
               db'.served = db.served, db'.previous = db.previous
        PROVE  ChoiceInOrder'
    BY <1>1, <1>4, <2>2 DEF history
  <2>3. CASE Before("operator") \/ Dump("operator") \/ Sum("operator") \/ Compare("operator")
    BY <1>0, <1>5, <2>2, <2>3 DEF Before, Dump, Sum, Compare
  <2>4. CASE Verify("operator")
    <3>1. [db EXCEPT !.verify = Own("operator").holds].served = db.served
          /\ [db EXCEPT !.verify = Own("operator").holds].previous = db.previous
          /\ [db EXCEPT !.verify = None].served = db.served
          /\ [db EXCEPT !.verify = None].previous = db.previous
      BY <1>0 DEF Clusters
    <3> QED
      BY <1>5, <2>1, <2>2, <2>4, <3>1 DEF Verify
  <2>5. CASE Read("operator")
    <3>1. [db EXCEPT !.verify = None].served = db.served
          /\ [db EXCEPT !.verify = None].previous = db.previous
      BY <1>0 DEF Clusters
    <3> QED
      BY <1>5, <2>1, <2>2, <2>5, <3>1 DEF Read
  <2> QED
    BY <1>6, <2>3, <2>4, <2>5 DEF Backup
<1>7. ASSUME UNCHANGED db, chosen' = chosen, pc'.operator # "swap"
      PROVE  ChoiceInOrder'
  BY <1>1, <1>7
<1>8. ASSUME NEW code, Exit(code)
      PROVE  pc'.operator # "swap"
  BY <1>0, <1>8, OperatorGoes
<1>9. CASE Kill("operator") \/ Deploy \/ Stop \/ Fingerprint \/ Inventory
  BY <1>4, <1>7, <1>8, <1>9 DEF Kill, Deploy, Stop, Fingerprint, Inventory, Abort, history
<1>10. CASE ReplayEnds \/ Simulate \/ Accept \/ Decline
  <2>1. CASE Simulate
    <3>1. ASSUME Goes("operator", CASE Already(db.served) -> "check"
                                [] ~Already(db.served) /\ Report(db.served).purged = {} -> "apply"
                                [] OTHER -> "accept")
          PROVE  pc'.operator # "swap"
      BY <1>4, <3>1
    <3> QED
      BY <1>7, <1>8, <2>1, <3>1 DEF Simulate, WithoutPurge, history
  <2> QED
    BY <1>4, <1>7, <1>8, <1>10, <2>1 DEF ReplayEnds, Accept, Decline, Abort, WithoutPurge, history
<1>11. CASE Check \/ Start \/ Reread
  BY <1>4, <1>7, <1>8, <1>11 DEF Check, Start, Reread, history
<1>12. CASE Restore
  <2>1. db'.served = db.served /\ db'.previous = db.previous
    BY <1>0, <1>12 DEF Restore, Clusters
  <2> QED
    BY <1>1, <1>4, <1>12, <2>1 DEF Restore
<1>13. CASE Replay
  <2>1. CASE Abort
    BY <1>7, <1>8, <2>1 DEF Abort, history
  <2>2. CASE /\ db' = [db EXCEPT !.served = Replayed(@, Head(run.todo))]
             /\ UNCHANGED <<app, archives, pc, bk, agreed, disturbed, chosen>>
    <3>1. pc.operator = "replay" /\ pc'.operator # "swap"
      BY <1>13, <2>2 DEF Replay, OperatorAt
    <3>2. db.served \in SoundBases
      BY <1>0, <3>1 DEF IInv, OperatorInOrder, Releasing, Clusters, MaybeBases
    <3>3. Head(run.todo) \in FileNames /\ (Head(run.todo) # "schema" => Whole(db.served))
      <4>1. run.todo \in Seq(FileNames) /\ run.todo # <<>>
        BY <1>0, <1>13 DEF TypeOK, RunNotes, Replay
      <4>2. Head(run.todo) \in FileNames
        BY <4>1, HeadTailProperties
      <4> QED
        BY <3>1, <4>1, <4>2 DEF IInv, BaseInOrder, ReplayedSoFar
    <3>4. db'.served = Replayed(db.served, Head(run.todo))
      BY <1>0, <2>2 DEF Clusters
    <3>5. Whole(db.served) => FlagsFollow(db.served, db'.served)
      BY <3>2, <3>3, <3>4, ReplayedBase
    <3> QED
      BY <1>2, <2>2, <3>1, <3>2, <3>5
  <2> QED
    BY <1>13, <2>1, <2>2 DEF Replay
<1>14. CASE Apply
  <2>1. CASE WithoutPurge(1)
    BY <1>7, <1>8, <2>1 DEF WithoutPurge, history
  <2>2. CASE /\ db' = [db EXCEPT !.served = IF Already(db.served) THEN db.served ELSE Purged(db.served)]
             /\ Goes("operator", "check") /\ UNCHANGED history
    <3>1. db.served \in SoundBases
      BY <1>0, <1>14 DEF Apply, OperatorAt, IInv, OperatorInOrder, Releasing, Clusters, MaybeBases
    <3>2. db'.served = IF Already(db.served) THEN db.served ELSE Purged(db.served)
      BY <1>0, <2>2 DEF Clusters
    <3>3. Whole(db.served) => FlagsFollow(db.served, db'.served)
      BY <3>1, <3>2, PurgedBase, FlagsFollowThemselves
    <3> QED
      BY <1>2, <1>4, <2>2, <3>1, <3>3 DEF history
  <2>3. \/ WithoutPurge(1)
        \/ /\ db' = [db EXCEPT !.served = IF Already(db.served) THEN db.served ELSE Purged(db.served)]
           /\ Goes("operator", "check") /\ UNCHANGED history
    BY <1>14 DEF Apply
  <2> QED
    BY <2>1, <2>2, <2>3
<1>15. CASE DropPrevious
  <2>1. pc.operator = "drop" /\ pc'.operator # "swap" /\ chosen' = chosen
    BY <1>4, <1>8, <1>15 DEF DropPrevious, OperatorAt, GiveUp, history
  <2>2. db'.served = db.served
    BY <1>0, <1>15 DEF DropPrevious, GiveUp, Clusters
  <2> QED
    BY <1>0, <2>1, <2>2 DEF ChoiceInOrder, HoldsChoice, OperatorAt
<1>16. CASE Rename
  <2>1. CASE GiveUp(db)
    <3>1. pc'.operator # "swap" /\ chosen' = chosen
      BY <1>8, <2>1 DEF GiveUp, history
    <3>2. db'.served = db.served /\ db'.previous = db.previous
      BY <1>0, <2>1 DEF GiveUp, Clusters
    <3> QED
      BY <1>1, <3>1, <3>2
  <2>2. CASE db' = [db EXCEPT !.previous = db.served, !.served = None] /\ UNCHANGED chosen
    <3>1. db.served # None
      BY <1>16 DEF Rename, OperatorAt, IInv, OperatorInOrder
    <3>2. db'.served = None /\ db'.previous = db.served /\ chosen' = chosen
      BY <1>0, <2>2 DEF Clusters
    <3> QED
      BY <1>0, <3>1, <3>2 DEF ChoiceInOrder, HoldsChoice, OperatorAt
  <2> QED
    BY <1>16, <2>1, <2>2 DEF Rename
<1>17. CASE Swap
  <2>1. CASE GiveUp([db EXCEPT !.served = db.previous, !.previous = None])
    <3>1. pc'.operator # "swap" /\ chosen' = chosen
      BY <1>8, <2>1 DEF GiveUp, history
    <3>2. db'.served = db.previous
      BY <1>0, <2>1 DEF GiveUp, Clusters
    <3> QED
      BY <1>0, <1>17, <3>1, <3>2 DEF ChoiceInOrder, HoldsChoice, OperatorAt, Swap
  <2>2. CASE chosen' = None
    BY <2>2 DEF ChoiceInOrder
  <2> QED
    BY <1>17, <2>1, <2>2 DEF Swap
<1>18. CASE Write \/ Stray
  <2>1. PICK b \in SoundBases :
                 /\ Whole(b) /\ db' = [db EXCEPT !.served = b] /\ b.journal = db.served.journal
                 /\ \/ b.flags = db.served.flags /\ chosen' = chosen
                    \/ chosen' = None
                    \/ b.flags.hopt = chosen' /\ chosen' \in {"true", "false"} /\ "006/c" \in Journal(db.served)
    BY <1>0, <1>18, WrittenBase
  <2>2. /\ db'.served = b /\ db'.previous = db.previous /\ db.served # None /\ pc' = pc
        /\ Journal(b) = Journal(db.served)
    BY <1>0, <1>18, <2>1, BaseConstants, WrittenBase DEF Clusters, Write, Stray, Journal
  <2>3. pc.operator # "swap"
    BY <1>18, <2>2 DEF IInv, OperatorInOrder
  <2>4. CASE b.flags = db.served.flags /\ chosen' = chosen
    BY <1>0, <2>2, <2>3, <2>4 DEF ChoiceInOrder, HoldsChoice, OperatorAt
  <2>5. CASE chosen' = None
    BY <2>5 DEF ChoiceInOrder
  <2>6. CASE b.flags.hopt = chosen' /\ "006/c" \in Journal(db.served)
    BY <2>2, <2>3, <2>6 DEF ChoiceInOrder, HoldsChoice, OperatorAt
  <2> QED
    BY <2>1, <2>4, <2>5, <2>6
<1>19. CASE Cron \/ Backup("cron") \/ Kill("cron") \/ Spoil \/ UNCHANGED deploymentVars
  BY <1>0, <1>3, <1>19, CronAside
<1> QED
  BY <1>6, <1>9, <1>10, <1>11, <1>12, <1>13, <1>14, <1>15, <1>16, <1>17, <1>18, <1>19 DEF DeploymentNext, Scripts

-----------------------------------------------------------------------------
(* The theorems *)

LEMMA InitInv == DeploymentInit => IInv
<1> SUFFICES ASSUME DeploymentInit
             PROVE  IInv
  OBVIOUS
<1>1. TypeOK
  BY InitTypes
<1>2. /\ \A p \in Scripts : pc[p] = "idle" /\ bk[p] = NoBackup
      /\ archives = <<>> /\ owed = {} /\ chosen = None /\ pc.operator = "idle" /\ run = NoRun
      /\ pc.cron = "idle"
  BY DEF DeploymentInit, Scripts
<1>3. BackupsInOrder
  BY <1>2 DEF BackupsInOrder, OwnedBy, Holding, BackingUp, NoBackup
<1>4. ArchivesInOrder
  BY <1>2 DEF ArchivesInOrder
<1>5. OwedIsCopied /\ ChoiceInOrder
  BY <1>2 DEF OwedIsCopied, ChoiceInOrder
<1>6. OperatorInOrder
  BY <1>2 DEF OperatorInOrder, Holding, Releasing, Replacing
<1>7. BaseInOrder
  BY <1>2 DEF BaseInOrder, Unmoved, CopyNoted, ReplayedSoFar, ReportShown, BackingUp, Holding, Releasing
<1>8. RestorationInOrder
  BY <1>2 DEF RestorationInOrder, OperatorAt
<1> QED
  BY <1>1, <1>3, <1>4, <1>5, <1>6, <1>7, <1>8 DEF IInv

LEMMA NextInv == IInv /\ [DeploymentNext]_deploymentVars => IInv'
<1> SUFFICES ASSUME IInv, [DeploymentNext]_deploymentVars
             PROVE  IInv'
  OBVIOUS
<1>1. TypeOK'
  BY TypesNext DEF IInv
<1>2. BackupsInOrder' /\ ArchivesInOrder'
  BY BackupsNext, ArchivesNext DEF IInv
<1>3. OperatorInOrder' /\ BaseInOrder' /\ RestorationInOrder'
  BY OperatorNext
<1>4. OwedIsCopied' /\ ChoiceInOrder'
  BY OwedNext, ChoiceNext
<1> QED
  BY <1>1, <1>2, <1>3, <1>4 DEF IInv

\* The scripts keep to their order: the operator's application is down and its base as it was
\* fingerprinted, copied and replayed so far; the archives agree with what their backups began with.
THEOREM DeploymentInvariant == DeploymentSpec => []IInv
BY InitInv, NextInv, PTL DEF DeploymentSpec

\* A copy nobody touches holds what was altered, and a choice is where it was made.
LEMMA InvNothingIsTakenBack == IInv => NothingIsTakenBack
<1> SUFFICES ASSUME IInv
             PROVE  NothingIsTakenBack
  OBVIOUS
<1>1. ASSUME NEW base \in owed
      PROVE  Held(base)
  <2>1. PICK i \in DOMAIN archives : CopyAt(i, base)
    BY DEF IInv, OwedIsCopied, Copied
  <2>2. base # None
    BY BaseConstants DEF IInv, TypeOK
  <2>3. archives[i].kept /\ archives[i].fingerprint = base /\ Coherent(archives[i])
    BY <2>1 DEF CopyAt, IInv, ArchivesInOrder
  <2>4. archives[i].here /\ (archives[i].holds = base \/ ~archives[i].sum \/ archives[i].crossed)
    BY <2>2, <2>3 DEF Coherent
  <2> QED
    BY <2>3, <2>4 DEF Held
<1>2. ChoicesSurvive
  BY DEF IInv, ChoiceInOrder, HoldsChoice, ChoicesSurvive
<1> QED
  BY <1>1, <1>2 DEF NothingIsTakenBack, NothingIsLost

\* deploy.sh, backup.sh and restore.sh take back neither a database nor a choice made in it:
\* whatever fails, is killed, expires or is written meanwhile, for any number of runs.
THEOREM NothingIsTakenBackHolds == DeploymentSpec => []NothingIsTakenBack
BY DeploymentInvariant, InvNothingIsTakenBack, PTL

\* A restoration that ends well serves the database the backup of its archive began with, but for
\* the tables that moved during a daily backup.
THEOREM RestoresExactlyHolds == DeploymentSpec => RestoresExactly
<1>1. ASSUME IInv, [DeploymentNext]_deploymentVars, OperatorAt("reread"), pc'.operator = "start", ~run.early
      PROVE  Differ(db.served, archives[run.archive].began) \subseteq archives[run.archive].moved
  <2>0. pc.operator = "reread" /\ TypeOK
    BY <1>1 DEF OperatorAt, IInv
  <2>1. CASE Reread
    <3>1. db.served = run.before
      BY <1>1, <2>0, <2>1, OperatorGoes DEF Reread
    <3>2. run.op = "restore"
      BY <1>1, <2>0 DEF IInv, OperatorInOrder, Replacing
    <3> QED
      BY <1>1, <2>0, <3>1, <3>2 DEF IInv, RestorationInOrder, OperatorAt
  <2>2. CASE Cron \/ Backup("cron") \/ Kill("cron") \/ Spoil \/ UNCHANGED deploymentVars
    BY <1>1, <2>0, <2>2, CronAside DEF Aside
  <2>3. CASE Backup("operator") \/ Kill("operator")
    BY <1>1, <2>0, <2>3, OperatorGoes DEF Backup, Before, Dump, Sum, Verify, Read, Compare, Kill
  <2> QED
    BY <1>1, <2>0, <2>1, <2>2, <2>3
    DEF DeploymentNext, Scripts, OperatorAt, Deploy, Stop, Fingerprint, Inventory, Replay, ReplayEnds, Simulate, Accept, Decline, Apply,
        Check, Start, Restore, DropPrevious, Rename, Swap, Write, Stray
<1>2. IInv /\ [DeploymentNext]_deploymentVars =>
         [OperatorAt("reread") /\ pc'.operator = "start" =>
            LET a == archives[run.archive] IN
            run.early \/ Differ(db.served, a.began) \subseteq a.moved]_deploymentVars
  BY <1>1
<1> QED
  BY <1>2, DeploymentInvariant, PTL DEF DeploymentSpec, RestoresExactly

\* The purge deletes what the operator was shown.
LEMMA PurgesWhatWasShown ==
    ASSUME IInv, Apply, pc'.operator = "check"
    PROVE  LegacyRows(db.served) \ CardRows \subseteq agreed
<1>1. pc.operator = "apply" /\ TypeOK
  BY DEF Apply, OperatorAt, IInv
<1>2. run.report.purged \subseteq agreed
  BY <1>1 DEF IInv, BaseInOrder, ReportShown
<1>3. Already(db.served) \/ Accepted(db.served)
  BY <1>1, OperatorGoes DEF Apply, WithoutPurge
<1>4. CASE Already(db.served)
  <2>1. LegacyRows(db.served) = {}
    BY <1>4 DEF Already, Reappeared, LegacyRows
  <2> QED
    BY <2>1
<1>5. CASE Accepted(db.served)
  BY <1>2, <1>5 DEF Accepted, Report
<1> QED
  BY <1>3, <1>4, <1>5

\* The checks after the migration let through only what was there.
LEMMA ChecksKeep ==
    ASSUME IInv, Check, pc'.operator = "start"
    PROVE  LET old == run.before
               new == db.served
           IN  /\ Migrations \subseteq new.journal /\ new.legacy = Absent /\ new.requirements = Absent
               /\ old # Empty => new.kept = old.kept /\ new.users.rows = old.users.rows
               /\ old = Empty => new.kept = 0 /\ new.users.rows = 0
               /\ old # Empty /\ ~disturbed => Reads(old.flags, new.flags)
<1> DEFINE old == run.before
           new == db.served
<1>1. pc.operator = "check" /\ TypeOK /\ ChecksPass(new)
  BY OperatorGoes DEF Check, OperatorAt, IInv
<1>2. /\ Migrations \subseteq Journal(new) /\ new.legacy = Absent /\ new.requirements = Absent
      /\ KeptTables(new)
  BY <1>1 DEF ChecksPass, ObjectsAreThere, Reappeared
<1>3. Journal(new) = new.journal
  BY <1>2 DEF Journal, Migrations
<1>4. old = Empty => new.kept = 0 /\ new.users.rows = 0
  BY <1>2 DEF KeptTables
<1>5. ASSUME old # Empty
      PROVE  new.kept = old.kept /\ new.users.rows = old.users.rows
  <2> DEFINE reshaped == "005" \notin run.journal
  <2>1. /\ reshaped => new.users.rows = old.users.rows
        /\ Differ(old, new) \cap (IF reshaped THEN Kept \ {"users"} ELSE Kept) = {}
    BY <1>2, <1>5 DEF KeptTables
  <2>2. "kept" \notin Differ(old, new)
    BY <2>1 DEF Kept
  <2>3. ~reshaped => "users" \notin Differ(old, new)
    BY <2>1 DEF Kept
  <2>4. old.kept = new.kept
    BY <2>2 DEF Differ, Tables
  <2>5. ~reshaped => old.users = new.users
    BY <2>3 DEF Differ, Tables
  <2> QED
    BY <2>1, <2>4, <2>5
<1>6. ASSUME old # Empty, ~disturbed
      PROVE  Reads(old.flags, new.flags)
  <2>1. run.journal = Journal(old) /\ FlagsFollow(old, new)
    BY <1>1, <1>6 DEF IInv, BaseInOrder, ReplayedSoFar, Releasing
  <2>2. "006/c" \in Journal(new)
    BY <1>2 DEF Migrations
  <2> QED
    BY <2>1, <2>2 DEF Reads, FlagsFollow, Marked
<1> QED
  BY <1>2, <1>3, <1>4, <1>5, <1>6

\* A release that reaches its start has kept every account, deck and card, purged exactly the rows
\* the operator was shown, and left the choices as they were.
THEOREM ReleasesWhatWasThereHolds == DeploymentSpec => ReleasesWhatWasThere
<1> DEFINE WasThere ==
             LET old == run.before
                 new == db.served
             IN  /\ Migrations \subseteq new.journal /\ new.legacy = Absent /\ new.requirements = Absent
                 /\ old # Empty => new.kept = old.kept /\ new.users.rows = old.users.rows
                 /\ old = Empty => new.kept = 0 /\ new.users.rows = 0
                 /\ old # Empty /\ ~disturbed => Reads(old.flags, new.flags)
<1>1. ASSUME IInv, [DeploymentNext]_deploymentVars, OperatorAt("apply"), pc'.operator = "check"
      PROVE  Apply
  <2>0. pc.operator = "apply" /\ TypeOK
    BY <1>1 DEF OperatorAt, IInv
  <2>1. CASE Cron \/ Backup("cron") \/ Kill("cron") \/ Spoil \/ UNCHANGED deploymentVars
    BY <1>1, <2>0, <2>1, CronAside DEF Aside
  <2>2. CASE Backup("operator") \/ Kill("operator")
    BY <1>1, <2>0, <2>2, OperatorGoes DEF Backup, Before, Dump, Sum, Verify, Read, Compare, Kill
  <2> QED
    BY <1>1, <2>0, <2>1, <2>2
    DEF DeploymentNext, Scripts, OperatorAt, Deploy, Stop, Fingerprint, Inventory, Replay, ReplayEnds, Simulate, Accept, Decline,
        Check, Start, Restore, DropPrevious, Rename, Swap, Reread, Write, Stray
<1>2. ASSUME IInv, [DeploymentNext]_deploymentVars, OperatorAt("check"), pc'.operator = "start"
      PROVE  Check
  <2>0. pc.operator = "check" /\ TypeOK
    BY <1>2 DEF OperatorAt, IInv
  <2>1. CASE Cron \/ Backup("cron") \/ Kill("cron") \/ Spoil \/ UNCHANGED deploymentVars
    BY <1>2, <2>0, <2>1, CronAside DEF Aside
  <2>2. CASE Backup("operator") \/ Kill("operator")
    BY <1>2, <2>0, <2>2, OperatorGoes DEF Backup, Before, Dump, Sum, Verify, Read, Compare, Kill
  <2> QED
    BY <1>2, <2>0, <2>1, <2>2
    DEF DeploymentNext, Scripts, OperatorAt, Deploy, Stop, Fingerprint, Inventory, Replay, ReplayEnds, Simulate, Accept, Decline, Apply,
        Start, Restore, DropPrevious, Rename, Swap, Reread, Write, Stray
<1>3. ASSUME IInv, [DeploymentNext]_deploymentVars
      PROVE  /\ OperatorAt("apply") /\ pc'.operator = "check" => LegacyRows(db.served) \ CardRows \subseteq agreed
             /\ OperatorAt("check") /\ pc'.operator = "start" => WasThere
  BY <1>1, <1>2, <1>3, PurgesWhatWasShown, ChecksKeep
<1>4. IInv /\ [DeploymentNext]_deploymentVars =>
         [/\ OperatorAt("apply") /\ pc'.operator = "check" => LegacyRows(db.served) \ CardRows \subseteq agreed
          /\ OperatorAt("check") /\ pc'.operator = "start" => WasThere]_deploymentVars
  BY <1>3
<1> QED
  BY <1>4, DeploymentInvariant, PTL DEF DeploymentSpec, ReleasesWhatWasThere

=============================================================================
