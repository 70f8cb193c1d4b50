------------------------------ MODULE Sessions ------------------------------
(* Accounts of the players: sign-up, sign-in, sliding sessions, sign-out and   *)
(* the Discord identities, as the server of server/src/auth and                *)
(* server/src/routes keeps them, with the tabs of one browser that share a     *)
(* cookie jar.  A request is served in the steps between which the code        *)
(* awaits the database; the tabs' requests interleave, and any of them may be  *)
(* lost with its answer or with the process that serves it.                    *)
(*                                                                             *)
(* Abstractions: /me and the routes of decks and library are one private       *)
(* route; the browser forgets its cookie when it is cleared (at its expiry the *)
(* session has ended too); an account is its e-mail (users_email_unique); a    *)
(* password is right or wrong; an invitation code is valid or not; the signed  *)
(* content of cookies is their data; time counts in a unit the configuration   *)
(* chooses.                                                                    *)
EXTENDS Integers, FiniteSets

CONSTANTS
    Accounts,       \* the e-mails accounts may have
    Discords,       \* the identities Discord knows
    EmailOf,        \* the verified e-mail of each Discord identity, or NoOne
    Tabs,           \* the tabs of the browser
    NoOne,          \* no account
    Known,          \* the accounts that exist at the start, each with a password
    Life,           \* SESSION_DAYS
    Slide,          \* SLIDE_UNDER_DAYS
    MaxTime,        \* bound: the last instant
    MaxSessions,    \* bound: sessions created
    MaxStarts,      \* bound: departures to Discord
    MaxEvents       \* bound: the three of them together

ASSUME SessionsAssumption ==
    /\ NoOne \notin Accounts
    /\ EmailOf \in [Discords -> Accounts \cup {NoOne}]
    /\ Known \subseteq Accounts
    /\ Life \in Nat /\ Slide \in 1..Life /\ MaxTime \in Nat
    /\ MaxSessions \in Nat /\ MaxStarts \in Nat /\ MaxEvents \in Nat

VARIABLES
    now,
    users,      \* rows of users
    passwords,  \* the accounts with a password_hash
    identity,   \* rows of user_identities: the account of each Discord identity
    sessions,   \* rows of sessions by token
    issued,     \* tokens drawn so far
    used,       \* history: the last use of each token's session
    jar,        \* the browser's session cookie
    oauth,      \* the browser's ygo_oauth cookie
    starts,     \* departures to Discord so far
    tab,        \* what each tab shows
    req         \* the request each tab waits for

server == <<users, passwords, identity, sessions, issued, used>>
browser == <<jar, oauth, starts, tab>>
vars == <<now, server, browser, req>>

-----------------------------------------------------------------------------
(* Values *)

Tokens == 1..MaxSessions
NoToken == 0
NoSession == [user |-> NoOne, expires |-> 0]
NoState == [id |-> 0, link |-> FALSE, invited |-> FALSE]
Row(u) == [user |-> u, expires |-> now + Life]
Alive(k) == k \in Tokens /\ sessions[k] # NoSession

Idle == [kind |-> "none", step |-> "none", token |-> NoToken, user |-> NoOne,
         discord |-> NoOne, state |-> NoState, cookie |-> NoState,
         set |-> "keep", ok |-> FALSE]
Request(kind) == [Idle EXCEPT !.kind = kind, !.step = "sent", !.token = jar]

(* The routes behind resolveSession: the private ones, and the two public      *)
(* ones that link an identity to the session's account.                        *)
ReturnIsValid(r) ==
    r.kind = "callback" /\ r.discord # NoOne /\ r.state # NoState /\ r.state.id = r.cookie.id
Guarded(r) ==
    \/ r.kind \in {"private", "unlink"}
    \/ r.state.link /\ (r.kind = "start" \/ ReturnIsValid(r))

Shows(status) == [status |-> status, state |-> NoState]

Init ==
    /\ now = 0
    /\ users = Known /\ passwords = Known
    /\ identity = [d \in Discords |-> NoOne]
    /\ sessions = [k \in Tokens |-> NoSession] /\ issued = 0
    /\ used = [k \in Tokens |-> 0]
    /\ jar = NoToken /\ oauth = NoState /\ starts = 0
    /\ tab = [t \in Tabs |-> Shows("loading")]
    /\ req = [t \in Tabs |-> Idle]

HasBudget == now + issued + starts < MaxEvents

Tick ==
    /\ now < MaxTime /\ HasBudget
    /\ now' = now + 1
    /\ UNCHANGED <<server, browser, req>>

-----------------------------------------------------------------------------
(* What the tabs ask.  A tab shows the sign-in page, the application, or       *)
(* Discord's own pages; it sends one request at a time.                        *)

Ask(t, r) ==
    /\ req[t] = Idle
    /\ req' = [req EXCEPT ![t] = r]
    /\ UNCHANGED <<now, server, browser>>

Probe(t) == tab[t].status = "loading" /\ Ask(t, Request("private"))

UseAccount(t) ==
    /\ tab[t].status = "authenticated"
    /\ \E kind \in {"private", "unlink", "logout"} : Ask(t, Request(kind))

SignIn(t) ==
    /\ tab[t].status = "anonymous"
    /\ \E a \in Accounts, kind \in {"login", "register"} :
         Ask(t, [Request(kind) EXCEPT !.user = a])

(* /start: from the sign-in page, with or without an invitation, or from the   *)
(* account menu with link=1.                                                   *)
GoToDiscord(t) ==
    /\ starts < MaxStarts /\ HasBudget
    /\ \E link, invited \in BOOLEAN :
         /\ tab[t].status = IF link THEN "authenticated" ELSE "anonymous"
         /\ link => ~invited
         /\ req[t] = Idle
         /\ req' = [req EXCEPT ![t] = [Request("start") EXCEPT
                      !.state = [id |-> starts + 1, link |-> link, invited |-> invited]]]
    /\ starts' = starts + 1
    /\ UNCHANGED <<now, server, jar, oauth, tab>>

(* Discord sends the tab back with the state it left with and a code that      *)
(* names an identity, or with an error (a cancellation names none).  The       *)
(* intention the server reads is the one of the oauth cookie, which lives for  *)
(* ten minutes.                                                                *)
ReturnFromDiscord(t) ==
    /\ tab[t].status = "discord"
    /\ \E d \in Discords \cup {NoOne}, state \in {oauth, NoState} :
         Ask(t, [Request("callback") EXCEPT
                   !.discord = d, !.cookie = tab[t].state, !.state = state])

Reload(t) ==
    /\ req[t] = Idle
    /\ tab[t].status # "loading"
    /\ tab' = [tab EXCEPT ![t] = Shows("loading")]
    /\ UNCHANGED <<now, server, jar, oauth, starts, req>>

-----------------------------------------------------------------------------
(* resolveSession: the row is read, then purged or slid by a query of its own. *)

Step(t, r) == req' = [req EXCEPT ![t] = r]
At(t, step) == req[t].step = step

(* An answer: its verdict, what it does to the session cookie, and for /start  *)
(* the state it gives the browser.                                             *)
Reply(t, ok, set, k) ==
    Step(t, [Idle EXCEPT !.kind = req[t].kind, !.step = "done", !.ok = ok,
                         !.state = IF req[t].kind = "start" THEN req[t].state ELSE NoState,
                         !.set = set, !.token = k])
Conclude(t, ok) ==
    IF req[t].set = "token" THEN Reply(t, ok, "token", req[t].token)
                            ELSE Reply(t, ok, "keep", NoToken)
Refuse(t) == Conclude(t, FALSE)
Grant(t) == Conclude(t, TRUE)
Clear(t, ok) == Reply(t, ok, "clear", NoToken)
ServerOnly == UNCHANGED <<now, browser>>

NoSessionFound(t) ==
    /\ At(t, "sent") /\ Guarded(req[t]) /\ ~Alive(req[t].token)
    /\ Refuse(t)
    /\ ServerOnly /\ UNCHANGED server

FindExpired(t) ==
    /\ At(t, "sent") /\ Guarded(req[t]) /\ Alive(req[t].token)
    /\ sessions[req[t].token].expires <= now
    /\ Step(t, [req[t] EXCEPT !.step = "purge"])
    /\ ServerOnly /\ UNCHANGED server

Purge(t) ==
    /\ At(t, "purge")
    /\ sessions' = [sessions EXCEPT ![req[t].token] = NoSession]
    /\ Clear(t, FALSE)
    /\ ServerOnly /\ UNCHANGED <<users, passwords, identity, issued, used>>

FindLive(t) ==
    LET s == sessions[req[t].token] IN
    /\ At(t, "sent") /\ Guarded(req[t]) /\ Alive(req[t].token)
    /\ s.expires > now
    /\ IF s.expires - now < Slide
       THEN Step(t, [req[t] EXCEPT !.step = "slide", !.user = s.user]) /\ UNCHANGED used
       ELSE /\ Step(t, [req[t] EXCEPT !.step = "in", !.user = s.user])
            /\ used' = [used EXCEPT ![req[t].token] = now]
    /\ ServerOnly /\ UNCHANGED <<users, passwords, identity, sessions, issued>>


(* Mutant: the UPDATE of the slide written as an upsert of the session it read *)
SlideReviving(t) ==
    LET k == req[t].token IN
    /\ At(t, "slide")
    /\ sessions' = [sessions EXCEPT ![k] = Row(req[t].user)]
    /\ used' = [used EXCEPT ![k] = now]
    /\ Step(t, [req[t] EXCEPT !.step = "in", !.set = "token"])
    /\ ServerOnly /\ UNCHANGED <<users, passwords, identity, issued>>


(* Mutant: the slide written from the old term instead of from the present *)
SlideFromTerm(t) ==
    LET k == req[t].token IN
    /\ At(t, "slide")
    /\ IF Alive(k)
       THEN /\ sessions' = [sessions EXCEPT ![k].expires = @ + Life]
            /\ used' = [used EXCEPT ![k] = now]
       ELSE UNCHANGED <<sessions, used>>
    /\ Step(t, [req[t] EXCEPT !.step = "in", !.set = "token"])
    /\ ServerOnly /\ UNCHANGED <<users, passwords, identity, issued>>

(* The UPDATE touches no row once the session is deleted; the cookie is set    *)
(* again all the same.                                                         *)
SlideSession(t) ==
    LET k == req[t].token IN
    /\ At(t, "slide")
    /\ IF Alive(k)
       THEN /\ sessions' = [sessions EXCEPT ![k].expires = now + Life]
            /\ used' = [used EXCEPT ![k] = now]
       ELSE UNCHANGED <<sessions, used>>
    /\ Step(t, [req[t] EXCEPT !.step = "in", !.set = "token"])
    /\ ServerOnly /\ UNCHANGED <<users, passwords, identity, issued>>

-----------------------------------------------------------------------------
(* The handlers *)

ServeAccount(t) ==
    /\ At(t, "in") /\ req[t].kind = "private"
    /\ Grant(t)
    /\ ServerOnly /\ UNCHANGED server

Unlink(t) ==
    /\ At(t, "in") /\ req[t].kind = "unlink"
    /\ IF req[t].user \in passwords
       THEN /\ identity' = [d \in Discords |-> IF identity[d] = req[t].user THEN NoOne ELSE identity[d]]
            /\ Grant(t)
       ELSE UNCHANGED identity /\ Refuse(t)
    /\ ServerOnly /\ UNCHANGED <<users, passwords, sessions, issued, used>>

(* destroySession; a logout without a cookie, or of an expired session, is a   *)
(* success too.                                                                *)
Logout(t) ==
    /\ At(t, "sent") /\ req[t].kind = "logout"
    /\ sessions' = [k \in Tokens |-> IF k = req[t].token THEN NoSession ELSE sessions[k]]
    /\ Clear(t, TRUE)
    /\ ServerOnly /\ UNCHANGED <<users, passwords, identity, issued, used>>

Login(t) ==
    /\ At(t, "sent") /\ req[t].kind = "login"
    /\ \/ Refuse(t)
       \/ /\ req[t].user \in passwords
          /\ Step(t, [req[t] EXCEPT !.step = "session"])
    /\ ServerOnly /\ UNCHANGED server

(* The account is committed with its library; its first session follows.       *)
Register(t) ==
    /\ At(t, "sent") /\ req[t].kind = "register"
    /\ \/ Refuse(t) /\ UNCHANGED <<users, passwords>>
       \/ /\ req[t].user \notin users
          /\ users' = users \cup {req[t].user}
          /\ passwords' = passwords \cup {req[t].user}
          /\ Step(t, [req[t] EXCEPT !.step = "session"])
    /\ ServerOnly /\ UNCHANGED <<identity, sessions, issued, used>>

CreateSession(t) ==
    /\ At(t, "session") /\ issued < MaxSessions /\ HasBudget
    /\ issued' = issued + 1
    /\ sessions' = [sessions EXCEPT ![issued + 1] = Row(req[t].user)]
    /\ used' = [used EXCEPT ![issued + 1] = now]
    /\ Reply(t, TRUE, "token", issued + 1)
    /\ ServerOnly /\ UNCHANGED <<users, passwords, identity>>

StartOauth(t) ==
    /\ req[t].kind = "start"
    /\ IF req[t].state.link THEN At(t, "in") ELSE At(t, "sent")
    /\ Grant(t) \/ Refuse(t)
    /\ ServerOnly /\ UNCHANGED server

(* The callback reads and clears the oauth cookie first: a state that is not   *)
(* the cookie's, a cancellation or a failed exchange end there.                *)
StateMismatch(t) ==
    /\ At(t, "sent") /\ req[t].kind = "callback" /\ ~ReturnIsValid(req[t])
    /\ Refuse(t)
    /\ ServerOnly /\ UNCHANGED server

ReadIdentityToLink(t) ==
    LET owner == identity[req[t].discord] IN
    /\ At(t, "in") /\ ReturnIsValid(req[t])
    /\ CASE owner = NoOne        -> Step(t, [req[t] EXCEPT !.step = "link"])
         [] owner = req[t].user  -> Grant(t)
         [] OTHER                -> Refuse(t)
    /\ ServerOnly /\ UNCHANGED server


(* Mutant: the link written as an upsert: an identity linked meanwhile changes hands *)
LinkTaking(t) ==
    /\ At(t, "link")
    /\ identity' = [identity EXCEPT ![req[t].discord] = req[t].user]
    /\ Grant(t)
    /\ ServerOnly /\ UNCHANGED <<users, passwords, sessions, issued, used>>

(* The primary key (provider, provider_user_id) refuses a second row. *)
LinkIdentity(t) ==
    /\ At(t, "link")
    /\ IF identity[req[t].discord] = NoOne
       THEN identity' = [identity EXCEPT ![req[t].discord] = req[t].user] /\ Grant(t)
       ELSE UNCHANGED identity /\ Refuse(t)
    /\ ServerOnly /\ UNCHANGED <<users, passwords, sessions, issued, used>>

ReadIdentityToSignIn(t) ==
    LET d == req[t].discord IN
    /\ At(t, "sent") /\ ReturnIsValid(req[t]) /\ ~req[t].state.link
    /\ \/ identity[d] # NoOne /\ Step(t, [req[t] EXCEPT !.step = "session", !.user = identity[d]])
       \/ /\ identity[d] = NoOne /\ req[t].state.invited /\ EmailOf[d] # NoOne
          /\ Step(t, [req[t] EXCEPT !.step = "create"])
       \/ identity[d] = NoOne /\ Refuse(t)
    /\ ServerOnly /\ UNCHANGED server

(* One transaction: the account, its library, its identity.  A taken e-mail    *)
(* or a taken identity (a race with another return) undoes all of it.          *)
CreateFromDiscord(t) ==
    LET d == req[t].discord IN
    /\ At(t, "create")
    /\ IF EmailOf[d] \notin users /\ identity[d] = NoOne
       THEN /\ users' = users \cup {EmailOf[d]}
            /\ identity' = [identity EXCEPT ![d] = EmailOf[d]]
            /\ Step(t, [req[t] EXCEPT !.step = "session", !.user = EmailOf[d]])
       ELSE UNCHANGED <<users, identity>> /\ Refuse(t)
    /\ ServerOnly /\ UNCHANGED <<passwords, sessions, issued, used>>

-----------------------------------------------------------------------------
(* What the tabs do with an answer.  The browser stores the cookies of the     *)
(* response; the page then follows auth.tsx.                                   *)

AfterAnswer(t, r) ==
    CASE r.kind = "private"  -> IF r.ok THEN Shows("authenticated") ELSE Shows("anonymous")
      [] r.kind \in {"login", "register"} -> IF r.ok THEN Shows("authenticated") ELSE tab[t]
      [] r.kind = "unlink"   -> IF r.ok THEN Shows("loading") ELSE tab[t]
      [] r.kind = "start"    -> IF r.ok THEN [Shows("discord") EXCEPT !.state = r.state]
                                ELSE Shows("loading")
      [] OTHER               -> Shows("loading")

Answer(t) ==
    LET r == req[t] IN
    /\ At(t, "done")
    /\ jar' = CASE r.set = "keep"  -> jar
                [] r.set = "clear" -> NoToken
                [] r.set = "token" -> r.token
    /\ oauth' = CASE r.kind = "start" /\ r.ok -> r.state
                  [] r.kind = "callback"     -> NoState
                  [] OTHER                   -> oauth
    /\ tab' = [tab EXCEPT ![t] = AfterAnswer(t, r)]
    /\ req' = [req EXCEPT ![t] = Idle]
    /\ UNCHANGED <<now, server, starts>>

(* The request or its answer is lost, or the server dies while serving it.     *)
(* The probe shows the application off line; a logout that fails reloads the   *)
(* page like one that succeeds; a form shows the error.                        *)
Lost(t) ==
    /\ req[t] # Idle
    /\ tab' = [tab EXCEPT ![t] =
                 CASE tab[t].status = "loading" -> Shows("offline")
                   [] tab[t].status # "loading" /\ req[t].kind \in {"logout", "start", "callback"} ->
                          Shows("loading")
                   [] OTHER -> tab[t]]
    /\ req' = [req EXCEPT ![t] = Idle]
    /\ UNCHANGED <<now, server, jar, oauth, starts>>

-----------------------------------------------------------------------------
Asks(t) == Probe(t) \/ UseAccount(t) \/ SignIn(t) \/ GoToDiscord(t) \/ ReturnFromDiscord(t) \/ Reload(t)
Resolves(t) == NoSessionFound(t) \/ FindExpired(t) \/ Purge(t) \/ FindLive(t) \/ SlideSession(t)
Serves(t) ==
    \/ ServeAccount(t) \/ Unlink(t) \/ Logout(t) \/ Login(t) \/ Register(t) \/ CreateSession(t)
    \/ StartOauth(t) \/ StateMismatch(t) \/ ReadIdentityToLink(t) \/ LinkIdentity(t)
    \/ ReadIdentityToSignIn(t) \/ CreateFromDiscord(t)

Next == Tick \/ \E t \in Tabs : Asks(t) \/ Resolves(t) \/ Serves(t) \/ Answer(t) \/ Lost(t)
Spec == Init /\ [][Next]_vars

-----------------------------------------------------------------------------
(* Properties *)

(* A session ends after SESSION_DAYS without use, and one that was used less   *)
(* than SLIDE_UNDER_DAYS ago has not ended: the row's term follows its use,    *)
(* however the reading of the row and its UPDATE interleave with other         *)
(* requests, sign-outs and lost answers.                                       *)
TermFollowsUse ==
    \A k \in Tokens : Alive(k) =>
        /\ used[k] + Slide <= sessions[k].expires
        /\ sessions[k].expires <= used[k] + Life

(* Every account keeps a way in: a password or a Discord identity, whatever    *)
(* the order of sign-ups, returns from Discord, links and unlinks, and         *)
(* whatever step the server dies at (discord.ts:223 refuses the unlink).       *)
EveryAccountCanSignIn ==
    \A a \in users : a \in passwords \/ \E d \in Discords : identity[d] = a

(* A session that was signed out or purged never lives again: the slide of a   *)
(* request that read the row before the sign-out revives nothing.              *)
DeadStaysDead ==
    [][\A k \in Tokens : k <= issued /\ sessions[k] = NoSession => sessions'[k] = NoSession]_vars
=============================================================================
