------------------------------ MODULE Accounts ------------------------------
(* The two programs that know the accounts: the server of the site (Sessions)  *)
(* and the back office (Backoffice), on one database.  They share the users    *)
(* table, which the back office only reads, and no step of one enables,        *)
(* disables or changes a step of the other: their cookies, their session       *)
(* tables and their clocks are apart.  A behaviour therefore follows the       *)
(* visitors of one program, and every property is about one of them.           *)
EXTENDS Sessions

CONSTANTS Browsers, Lifetime, Window, MaxNow, MaxAdminSessions, MaxSecrets

ASSUME BackofficeAssumption ==
    /\ Lifetime \in Nat \ {0} /\ Window \in Nat
    /\ MaxNow \in Nat /\ MaxAdminSessions \in Nat /\ MaxSecrets \in Nat

VARIABLES
    program,    \* whose visitors the behaviour follows
    step, role, totp, drawn, adminSessions, adminIssued, shown, accepted, adminJar, adminReq

backofficeVars ==
    <<step, role, totp, drawn, adminSessions, adminIssued, shown, accepted, adminJar, adminReq>>

B == INSTANCE Backoffice WITH
        now <- step, sessions <- adminSessions, issued <- adminIssued,
        jar <- adminJar, req <- adminReq, MaxSessions <- MaxAdminSessions

AccountsInit ==
    /\ program \in {"site", "back office"}
    /\ Init
    /\ B!Init

AccountsNext ==
    /\ UNCHANGED program
    /\ \/ program = "site" /\ Next /\ UNCHANGED backofficeVars
       \/ program = "back office" /\ B!Next /\ UNCHANGED vars

AccountsSpec == AccountsInit /\ [][AccountsNext]_<<program, vars, backofficeVars>>

OneCodeOneSession == B!OneCodeOneSession

\* What is over stays over: a session signed out or purged, an enrolment confirmed.
DoneStaysDone == DeadStaysDead /\ B!EnrolmentStands
=============================================================================
