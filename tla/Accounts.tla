------------------------------ MODULE Accounts ------------------------------
(***************************************************************************)
(* Who gets into the dashboard: first-run setup, login, sessions and the   *)
(* redirects between them ((auth)/setup, (auth)/login, lib/session.ts,     *)
(* proxy.ts, api/auth/logout).                                             *)
(*                                                                         *)
(* A browser requests a page, and follows redirects, until one is shown.   *)
(* Each request and each server action reads the users table in statements *)
(* of its own, and other browsers act in between.                          *)
(*                                                                         *)
(* A session is a signed token in a cookie that both live for              *)
(* SESSION_TTL_SECONDS: what is left of that life is the whole of it, the  *)
(* server keeps none.  A password stands for its hash.                     *)
(***************************************************************************)
EXTENDS Integers

CONSTANTS
  Browser,
  Email, Password,   (* what passes the forms' validation                *)
  Lower,             (* [Email -> Email], LOWER and toLowerCase          *)
  SessionTTL         (* SESSION_TTL_SECONDS                              *)

ASSUME AccountsAssumption ==
  /\ Lower \in [Email -> Email]
  /\ \A e \in Email : Lower[Lower[e]] = Lower[e]
  /\ SessionTTL \in Nat \ {0}

User == [email : Email, password : Password]

VARIABLES
  users,     (* the users table                                          *)
  at,        (* [Browser -> what it waits for or shows]                  *)
  form,      (* [Browser -> the credentials it submitted last]           *)
  session,   (* [Browser -> life left of its cookie, 0 for none]         *)
  late       (* [Browser -> there was an admin when it submitted its     *)
             (* setup form] (history)                                    *)

vars == <<users, at, form, session, late>>

Requested == {"GET page", "GET login", "GET setup", "GET logout"}
Acting    == {"count", "insert", "login"}
Shown     == {"page", "login form", "setup form", "error"}

TypeOK ==
  /\ users \in SUBSET User
  /\ at \in [Browser -> Requested \cup Acting \cup Shown]
  /\ form \in [Browser -> User]
  /\ session \in [Browser -> 0..SessionTTL]
  /\ late \in [Browser -> BOOLEAN]

Init ==
  /\ users = {}
  /\ at = [b \in Browser |-> "GET page"]
  /\ \E u \in User : form = [b \in Browser |-> u]
  /\ session = [b \in Browser |-> 0]
  /\ late = [b \in Browser |-> FALSE]

-----------------------------------------------------------------------------
(***************************************************************************)
(* The definitions named for a fault are not part of the specification:    *)
(* they show that the properties notice it.                                *)
(***************************************************************************)
HasSession(b) == session[b] > 0
Goto(b, where) == at' = [at EXCEPT ![b] = where]

(* A maxAge in milliseconds.                                               *)
SetSessionCookieInMillis(b) == session' = [session EXCEPT ![b] = 1000 * SessionTTL]

(* setSessionCookie, then redirect("/campaigns").                          *)
SetSessionCookie(b) == session' = [session EXCEPT ![b] = SessionTTL]
Enter(b) == SetSessionCookie(b) /\ Goto(b, "GET page")

(* idx_users_email_unique, on LOWER(email), and the same index on email.   *)
TakenAsTyped(u) == \E v \in users : v.email = u.email
Taken(u) == \E v \in users : Lower[v.email] = Lower[u.email]

(* What the lookup of loginAction may find.                                *)
Rows(b) == {v \in users : Lower[v.email] = Lower[form[b].email]}

(* The operator types an address, follows a link or reloads.               *)
Visit(b, what) ==
  /\ at[b] \in Shown
  /\ Goto(b, what)
  /\ UNCHANGED <<users, form, session, late>>

(* proxy: every page but the auth pages.                                   *)
Proxy(b) ==
  /\ at[b] = "GET page"
  /\ Goto(b, IF HasSession(b) THEN "page" ELSE "GET login")
  /\ UNCHANGED <<users, form, session, late>>

LoginPageAlwaysSetup(b) ==
  /\ at[b] = "GET login"
  /\ Goto(b, IF HasSession(b) THEN "GET page" ELSE "GET setup")
  /\ UNCHANGED <<users, form, session, late>>

LoginPage(b) ==
  /\ at[b] = "GET login"
  /\ Goto(b, IF HasSession(b) THEN "GET page"
             ELSE IF users = {} THEN "GET setup" ELSE "login form")
  /\ UNCHANGED <<users, form, session, late>>

SetupPage(b) ==
  /\ at[b] = "GET setup"
  /\ Goto(b, IF users # {} THEN "GET login" ELSE "setup form")
  /\ UNCHANGED <<users, form, session, late>>

Logout(b) ==
  /\ at[b] = "GET logout"
  /\ session' = [session EXCEPT ![b] = 0]
  /\ Goto(b, "GET login")
  /\ UNCHANGED <<users, form, late>>

-----------------------------------------------------------------------------
(* createAdminAction of a form that validates: count ...                   *)
SubmitSetup(b, u) ==
  /\ at[b] = "setup form"
  /\ Goto(b, "count")
  /\ form' = [form EXCEPT ![b] = u]
  /\ late' = [late EXCEPT ![b] = users # {}]
  /\ UNCHANGED <<users, session>>

CountIgnored(b) ==
  /\ at[b] = "count"
  /\ Goto(b, "insert")
  /\ UNCHANGED <<users, form, session, late>>

Count(b) ==
  /\ at[b] = "count"
  /\ Goto(b, IF users # {} THEN "setup form" ELSE "insert")
  /\ UNCHANGED <<users, form, session, late>>

(* ... then hash and insert; the answer may be lost.                       *)
Insert(b) ==
  /\ at[b] = "insert" /\ ~Taken(form[b])
  /\ users' = users \cup {form[b]}
  /\ \/ Enter(b)
     \/ Goto(b, "error") /\ UNCHANGED session
  /\ UNCHANGED <<form, late>>

(* The unique index refuses the row: the action throws.                    *)
InsertRefused(b) ==
  /\ at[b] = "insert" /\ Taken(form[b])
  /\ Goto(b, "error")
  /\ UNCHANGED <<users, form, session, late>>

(* loginAction of a form that validates: a lookup by LOWER(email).         *)
SubmitLogin(b, u) ==
  /\ at[b] = "login form"
  /\ Goto(b, "login")
  /\ form' = [form EXCEPT ![b] = u]
  /\ UNCHANGED <<users, session, late>>

LogIn(b) ==
  /\ at[b] = "login"
  /\ \E v \in Rows(b) : v.password = form[b].password
  /\ Enter(b)
  /\ UNCHANGED <<users, form, late>>

WrongCredentials(b) ==
  /\ at[b] = "login"
  /\ Rows(b) = {} \/ \E v \in Rows(b) : v.password # form[b].password
  /\ Goto(b, "login form")
  /\ UNCHANGED <<users, form, session, late>>

(* Postgres, or the dashboard, fails a request before it writes.           *)
Fails(b) ==
  /\ at[b] \in Acting \cup {"GET login", "GET setup"}
  /\ Goto(b, "error")
  /\ UNCHANGED <<users, form, session, late>>

(* Time passes for every cookie and token.                                 *)
Elapse ==
  /\ \E b \in Browser : HasSession(b)
  /\ session' = [b \in Browser |-> IF HasSession(b) THEN session[b] - 1 ELSE 0]
  /\ UNCHANGED <<users, at, form, late>>

(* What the server does of itself, once asked.                             *)
Serve(b) ==
  \/ Proxy(b) \/ LoginPage(b) \/ SetupPage(b) \/ Logout(b)
  \/ Count(b) \/ Insert(b) \/ InsertRefused(b)
  \/ LogIn(b) \/ WrongCredentials(b)

Next ==
  \/ \E b \in Browser :
       \/ Serve(b) \/ Fails(b)
       \/ \E what \in Requested : Visit(b, what)
       \/ \E u \in User : SubmitSetup(b, u) \/ SubmitLogin(b, u)
  \/ Elapse

(* A request is answered; nothing is asked of operators or of the clock.   *)
Spec == Init /\ [][Next]_vars /\ \A b \in Browser : WF_vars(Serve(b))

-----------------------------------------------------------------------------
(* Once there is an admin, a setup form submitted from then on adds none,  *)
(* whatever other submissions are under way: the extra admins of the race  *)
(* between count and insert all submitted before the first row.            *)
SetupCloses ==
  [][\A b \in Browser : (at[b] = "insert" /\ late[b]) => users' \subseteq users]_vars

(* Setups that race, with an address written in two ways, leave one row    *)
(* for it, so that a login has one password to be checked against.         *)
OneAccountPerAddress ==
  \A u, v \in users : Lower[u.email] = Lower[v.email] => u = v

(* Pages that redirect to each other on counts and sessions read at        *)
(* different moments, while admins appear and sessions end, come to rest:  *)
(* a visitor is shown a page or a form.                                    *)
Settles == \A b \in Browser : at[b] \in Requested ~> at[b] \in Shown

=============================================================================
