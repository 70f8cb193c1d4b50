----------------------------- MODULE Backoffice -----------------------------
(* The back office (admin/src/Testhand.Admin): one administrator's account,    *)
(* absolute sessions, the second factor and its enrolment, as several browsers *)
(* use them at once.  A request first passes the guard, which reads the        *)
(* session and the role again; then its page runs, awaiting the database       *)
(* between the steps below.  The role is granted and revoked from outside      *)
(* (deploy/backoffice-role.sh).                                                *)
(*                                                                             *)
(* Abstractions: time counts in steps of the one-time codes; a code is the     *)
(* secret and the step it was computed from; the journal, which no decision    *)
(* reads, is left out: a line goes with the step it reports.                   *)
EXTENDS Integers

CONSTANTS
    Browsers,
    Lifetime,       \* SessionPolicy.Lifetime, in steps
    Window,         \* steps accepted around the present one
    MaxNow,         \* bound: the last step
    MaxSessions,    \* bound: sessions created
    MaxSecrets      \* bound: secrets drawn

VARIABLES
    now,
    role,       \* users.role = 'admin'
    totp,       \* the row of backoffice_totp
    drawn,      \* secrets drawn so far
    sessions,   \* rows of backoffice_sessions by token
    issued,     \* tokens drawn so far
    shown,      \* history: the secrets a page has displayed
    accepted,   \* history: the codes accepted, by session
    jar,        \* the cookie of each browser
    req         \* the request each browser waits for

vars == <<now, role, totp, drawn, sessions, issued, shown, accepted, jar, req>>

-----------------------------------------------------------------------------
Tokens == 1..MaxSessions
NoToken == 0
NoSession == [expires |-> 0, verified |-> FALSE]
NoRow == [secret |-> 0, confirmed |-> FALSE, last |-> 0]
NoCode == [secret |-> 0, at |-> 0]
Idle == [page |-> "none", step |-> "none", token |-> NoToken, code |-> NoCode,
         first |-> FALSE, secret |-> 0]
Alive(k) == k \in Tokens /\ sessions[k] # NoSession

Init ==
    /\ now = 1 /\ role = TRUE
    /\ totp = NoRow /\ drawn = 0 /\ shown = {} /\ accepted = {}
    /\ sessions = [k \in Tokens |-> NoSession] /\ issued = 0
    /\ jar = [b \in Browsers |-> NoToken]
    /\ req = [b \in Browsers |-> Idle]

Tick ==
    /\ now < MaxNow /\ now' = now + 1
    /\ UNCHANGED <<role, totp, drawn, sessions, issued, shown, accepted, jar, req>>

(* role.grant and role.revoke, from the command line. *)
ChangeRole ==
    /\ role' = ~role
    /\ UNCHANGED <<now, totp, drawn, sessions, issued, shown, accepted, jar, req>>

-----------------------------------------------------------------------------
(* Requests: the administrator's device gives the code of a secret a page has  *)
(* displayed; a request may wait before it is served.                          *)

Ask(b) ==
    /\ req[b] = Idle
    /\ \/ \E page \in {"login", "totp", "logout", "view"} :
            req' = [req EXCEPT ![b] = [Idle EXCEPT !.page = page, !.step = "sent", !.token = jar[b]]]
       \/ \E s \in shown :
            req' = [req EXCEPT ![b] = [Idle EXCEPT !.page = "code", !.step = "sent", !.token = jar[b],
                                                   !.code = [secret |-> s, at |-> now]]]
    /\ UNCHANGED <<now, role, totp, drawn, sessions, issued, shown, accepted, jar>>

At(b, step) == req[b].step = step
GoTo(b, step) == req' = [req EXCEPT ![b].step = step]

(* An answer: the cookie it leaves in the browser and the secret it displays. *)
Reply(b, k, secret) ==
    req' = [req EXCEPT ![b] = [Idle EXCEPT !.page = req[b].page, !.step = "done",
                                           !.token = k, !.secret = secret]]
Redirect(b) == Reply(b, req[b].token, 0)

(* ResolveAsync and the routes of the guard: without a session only /login     *)
(* answers, without the second factor only /totp and /logout, and with both    *)
(* every page but these two.                                                   *)
Guard(b) ==
    LET k == req[b].token
        open == IF ~Alive(k) THEN {"login"}
                ELSE IF sessions[k].verified THEN {"logout", "view"}
                ELSE {"totp", "code", "logout"}
    IN
    /\ At(b, "sent")
    /\ IF Alive(k) /\ (sessions[k].expires <= now \/ ~role) THEN GoTo(b, "drop")
       ELSE IF req[b].page \in open THEN GoTo(b, "in")
       ELSE IF Alive(k) THEN Redirect(b) ELSE Reply(b, NoToken, 0)
    /\ UNCHANGED <<now, role, totp, drawn, sessions, issued, shown, accepted, jar>>

DropSession(b) ==
    /\ At(b, "drop")
    /\ sessions' = [sessions EXCEPT ![req[b].token] = NoSession]
    /\ IF req[b].page = "login"
       THEN req' = [req EXCEPT ![b].step = "in", ![b].token = NoToken]
       ELSE Reply(b, NoToken, 0)
    /\ UNCHANGED <<now, role, totp, drawn, issued, shown, accepted, jar>>

-----------------------------------------------------------------------------
(* Pages *)

(* The account, its role and its password are checked, then the session is     *)
(* created.                                                                    *)
CheckPassword(b) ==
    /\ At(b, "in") /\ req[b].page = "login"
    /\ Reply(b, NoToken, 0) \/ (role /\ GoTo(b, "create"))
    /\ UNCHANGED <<now, role, totp, drawn, sessions, issued, shown, accepted, jar>>

CreateSession(b) ==
    /\ At(b, "create") /\ issued < MaxSessions
    /\ issued' = issued + 1
    /\ sessions' = [sessions EXCEPT ![issued + 1] = [expires |-> now + Lifetime, verified |-> FALSE]]
    /\ Reply(b, issued + 1, 0)
    /\ UNCHANGED <<now, role, totp, drawn, shown, accepted, jar>>

Logout(b) ==
    /\ At(b, "in") /\ req[b].page = "logout"
    /\ sessions' = [sessions EXCEPT ![req[b].token] = NoSession]
    /\ Reply(b, NoToken, 0)
    /\ UNCHANGED <<now, role, totp, drawn, issued, shown, accepted, jar>>

View(b) ==
    /\ At(b, "in") /\ req[b].page = "view"
    /\ Redirect(b)
    /\ UNCHANGED <<now, role, totp, drawn, sessions, issued, shown, accepted, jar>>

(* Totp.Verify, with the row as it was read. *)
Verifies(code, row) ==
    /\ code.secret = row.secret
    /\ code.at \in (now - Window)..(now + Window)
    /\ code.at > row.last

ReadRow(b) ==
    /\ At(b, "in") /\ req[b].page = "code"
    /\ IF totp # NoRow /\ Verifies(req[b].code, totp)
       THEN req' = [req EXCEPT ![b].step = "accept", ![b].first = ~totp.confirmed]
       ELSE GoTo(b, "prepare")
    /\ UNCHANGED <<now, role, totp, drawn, sessions, issued, shown, accepted, jar>>


(* Mutant: the UPDATE without its condition on last_counter: the step read earlier decides *)
AcceptUnconditionally(b) ==
    LET r == req[b] IN
    /\ At(b, "accept")
    /\ totp' = [totp EXCEPT !.last = r.code.at, !.confirmed = @ \/ r.first]
    /\ accepted' = accepted \cup {[token |-> r.token, secret |-> r.code.secret, at |-> r.code.at]}
    /\ GoTo(b, "verified")
    /\ UNCHANGED <<now, role, drawn, sessions, issued, shown, jar>>

(* AcceptAsync: the UPDATE is conditional on the last step, not on the secret. *)
Accept(b) ==
    LET r == req[b] IN
    /\ At(b, "accept")
    /\ IF totp.last < r.code.at
       THEN /\ totp' = [totp EXCEPT !.last = r.code.at, !.confirmed = @ \/ r.first]
            /\ accepted' = accepted \cup {[token |-> r.token, secret |-> r.code.secret, at |-> r.code.at]}
            /\ GoTo(b, "verified")
       ELSE UNCHANGED <<totp, accepted>> /\ GoTo(b, "prepare")
    /\ UNCHANGED <<now, role, drawn, sessions, issued, shown, jar>>

(* A session deleted meanwhile has no row to mark. *)
MarkTotpVerified(b) ==
    LET k == req[b].token IN
    /\ At(b, "verified")
    /\ sessions' = IF Alive(k) THEN [sessions EXCEPT ![k].verified = TRUE] ELSE sessions
    /\ Redirect(b)
    /\ UNCHANGED <<now, role, totp, drawn, issued, shown, accepted, jar>>

(* PrepareAsync, on GET /totp and after a refused code: a new secret is drawn  *)
(* when there is no row, the secret of an unconfirmed row is displayed again.  *)
Prepare(b) ==
    /\ At(b, "prepare") \/ (At(b, "in") /\ req[b].page = "totp")
    /\ IF totp = NoRow
       THEN /\ drawn < MaxSecrets
            /\ drawn' = drawn + 1
            /\ req' = [req EXCEPT ![b].step = "enrol", ![b].secret = drawn + 1]
       ELSE /\ UNCHANGED drawn
            /\ Reply(b, req[b].token, IF totp.confirmed THEN 0 ELSE totp.secret)
    /\ UNCHANGED <<now, role, totp, sessions, issued, shown, accepted, jar>>


(* The page displays the secret it drew, written or not. *)
BeginEnrolment(b) ==
    /\ At(b, "enrol")
    /\ totp' = IF totp.confirmed THEN totp ELSE [secret |-> req[b].secret, confirmed |-> FALSE, last |-> 0]
    /\ Reply(b, req[b].token, req[b].secret)
    /\ UNCHANGED <<now, role, drawn, sessions, issued, shown, accepted, jar>>

-----------------------------------------------------------------------------
Answer(b) ==
    /\ At(b, "done")
    /\ jar' = [jar EXCEPT ![b] = req[b].token]
    /\ shown' = IF req[b].secret = 0 THEN shown ELSE shown \cup {req[b].secret}
    /\ req' = [req EXCEPT ![b] = Idle]
    /\ UNCHANGED <<now, role, totp, drawn, sessions, issued, accepted>>

(* The request or its answer is lost, or the program stops while serving it. *)
Lost(b) ==
    /\ req[b] # Idle
    /\ req' = [req EXCEPT ![b] = Idle]
    /\ UNCHANGED <<now, role, totp, drawn, sessions, issued, shown, accepted, jar>>

Pages(b) ==
    \/ CheckPassword(b) \/ CreateSession(b) \/ Logout(b) \/ View(b)
    \/ ReadRow(b) \/ Accept(b) \/ MarkTotpVerified(b) \/ Prepare(b) \/ BeginEnrolment(b)

Next ==
    \/ Tick \/ ChangeRole
    \/ \E b \in Browsers : Ask(b) \/ Guard(b) \/ DropSession(b) \/ Pages(b) \/ Answer(b) \/ Lost(b)
Spec == Init /\ [][Next]_vars

-----------------------------------------------------------------------------
(* Properties *)

(* A code opens one session: no step of the clock is accepted twice, from      *)
(* whatever pages the code is posted at once (TotpRepository.cs:33-36), and a  *)
(* session has its second factor only by a code accepted for it.               *)
OneCodeOneSession ==
    /\ \A c, d \in accepted : c.at = d.at => c = d
    /\ \A k \in Tokens : sessions[k].verified => \E c \in accepted : c.token = k

(* Once an enrolment is confirmed, nothing a page still does replaces its      *)
(* secret, withdraws the confirmation or lets an older step pass again.        *)
EnrolmentStands ==
    [][totp.confirmed =>
         /\ totp'.confirmed /\ totp'.secret = totp.secret
         /\ totp'.last >= totp.last]_vars
=============================================================================
