---------------------------- MODULE SingleSignOn ----------------------------
(***************************************************************************)
(* One browser and the applications that share its sign-on: the pages of   *)
(* each application, the backend's login, consent and logout endpoints,    *)
(* and the two cookies they work with, Hydra's remembered login and        *)
(* Kratos' session.  Logging in and out is a chain of redirects, and the   *)
(* chains of two applications interleave.                                  *)
(*                                                                         *)
(* A subject is a Kratos identity; it proves who it is with a wallet       *)
(* (Authenticate, which makes no Kratos session) or with a password or     *)
(* Google (which does).  A page is named for the step the browser is at.   *)
(***************************************************************************)
CONSTANTS
    Apps,       \* the applications, each open once
    Wallets,    \* subjects that sign in with a wallet
    Emails,     \* subjects that sign in through Kratos
    None        \* no subject

ASSUME SubjectsAreSome == None \notin Wallets \cup Emails

Subjects == Wallets \cup Emails

VARIABLES
    hydra,      \* the subject Hydra remembers for this browser
    kratos,     \* the subject of the browser's Kratos session
    page,       \* where each application's redirects are
    flow,       \* the subject a chain of redirects is about
    token,      \* localStorage access_token: whose it is
    out,        \* history: subjects that logged out and proved nothing since
    loose       \* history: subjects whose logout failed in part or overlapped a login

sessions == <<hydra, kratos>>
vars     == <<sessions, page, flow, token, out, loose>>

LoggingIn  == {"auth", "redirect", "callback"}
LoggingOut == {"revoke", "accept", "verify"}
Moving     == {"home", "login", "leaving"} \cup LoggingIn \cup LoggingOut
Resting    == {"ready", "dashboard", "signedOut", "error"}

TypeOK ==
    /\ hydra \in Subjects \cup {None}
    /\ kratos \in Subjects \cup {None}
    /\ page \in [Apps -> Moving \cup Resting]
    /\ flow \in [Apps -> Subjects \cup {None}]
    /\ token \in [Apps -> Subjects \cup {None}]
    /\ out \subseteq Subjects
    /\ loose \subseteq Subjects

Init ==
    /\ hydra = None
    /\ kratos = None
    /\ page = [a \in Apps |-> "home"]
    /\ flow = [a \in Apps |-> None]
    /\ token = [a \in Apps |-> None]
    /\ out = {}
    /\ loose = {}

-----------------------------------------------------------------------------
Goto(a, p) == page' = [page EXCEPT ![a] = p]

\* The chain of an application goes on to p, about subject s.
Carry(a, s, p) ==
    /\ Goto(a, p)
    /\ flow' = [flow EXCEPT ![a] = s]

\* The other applications whose chains are at one of some pages, about s.
Others(a, s, pages) == {b \in Apps \ {a} : page[b] \in pages /\ flow[b] = s}

Overlap(a, s, pages) ==
    loose' = IF s # None /\ Others(a, s, pages) # {} THEN loose \cup {s} ELSE loose

\* A subject shows a signature or a password.
Prove(s) == out' = out \ {s}

-----------------------------------------------------------------------------
(* Logging in.                                                             *)

\* HomePage starts the flow on mount, or when a button is pressed after a
\* logout.  Hydra decides now whether the login request says "skip".
StartFlow(a) ==
    /\ page[a] \in {"home", "signedOut"}
    /\ Carry(a, hydra, "auth")
    /\ Overlap(a, hydra, LoggingOut)
    /\ UNCHANGED <<sessions, token, out>>

\* HandleLogin, skip: the remembered subject is accepted.
AcceptSkip(a) ==
    /\ page[a] = "auth" /\ flow[a] # None
    /\ Goto(a, "redirect")
    /\ UNCHANGED <<sessions, flow, token, out, loose>>

\* HandleLogin, whoami with the browser's cookies.
AcceptCookie(a) ==
    /\ page[a] = "auth" /\ flow[a] = None
    /\ kratos # None
    /\ Carry(a, kratos, "redirect")
    /\ Overlap(a, kratos, LoggingOut)
    /\ UNCHANGED <<sessions, token, out>>

\* HandleLogin finds no session, or cannot ask for it, and redirects to the
\* client's login page.
AskLogin(a) ==
    /\ page[a] = "auth" /\ flow[a] = None
    /\ Goto(a, "login")
    /\ UNCHANGED <<sessions, flow, token, out, loose>>

\* Variant: an error of whoami taken for a session.
RestartOnError(a) ==
    /\ page[a] = "login"
    /\ Goto(a, "home")
    /\ UNCHANGED <<sessions, flow, token, out, loose>>

\* LoginPage asks Kratos for a session: with one, it starts a fresh flow;
\* without one, or if it cannot ask, it offers the ways to sign in.
CheckSession(a) ==
    /\ page[a] = "login"
    /\ \/ kratos # None /\ Goto(a, "home")
       \/ Goto(a, "ready")
    /\ UNCHANGED <<sessions, flow, token, out, loose>>

\* Authenticate accepts the login for the wallet's subject and goes through
\* the consent itself; the browser then meets Hydra's redirect with a code and
\* never the one that sets Hydra's cookie.  When that fails the browser is sent
\* through both.
SignInWithWallet(a, w) ==
    /\ page[a] = "ready"
    /\ \/ Carry(a, w, "callback")
       \/ Carry(a, w, "redirect")
    /\ Overlap(a, w, LoggingOut)
    /\ Prove(w)
    /\ UNCHANGED <<sessions, token>>

\* A challenge that is no longer good is forgotten for a fresh one.
ChallengeExpired(a) ==
    /\ page[a] = "ready"
    /\ Goto(a, "home")
    /\ UNCHANGED <<sessions, flow, token, out, loose>>

\* Kratos opens a session and accepts the Hydra login (422 and a redirect), or
\* only opens a session (signing up, no redirect: completeHydraLogin), or the
\* answer is lost.
SignInWithKratos(a, e) ==
    /\ page[a] = "ready"
    /\ kratos = None
    /\ kratos' = e
    /\ \/ Carry(a, e, "redirect")
       \/ Goto(a, "home") /\ UNCHANGED flow
       \/ UNCHANGED <<page, flow>>
    /\ Overlap(a, e, LoggingOut)
    /\ Prove(e)
    /\ UNCHANGED <<hydra, token>>

\* Kratos answers that there is a session: completeHydraLogin.
AlreadySignedIn(a) ==
    /\ page[a] = "ready"
    /\ kratos # None
    /\ Goto(a, "home")
    /\ UNCHANGED <<sessions, flow, token, out, loose>>

\* Hydra remembers the accepted subject (remember: true) and asks for consent,
\* which HandleConsent gives.
FollowLogin(a) ==
    /\ page[a] = "redirect"
    /\ hydra' = flow[a]
    /\ Goto(a, "callback")
    /\ UNCHANGED <<kratos, flow, token, out, loose>>

\* Variant: the token stored before it is known whose it is.
StoreBlank(a) == token' = [token EXCEPT ![a] = "code"]

Store(a) == token' = [token EXCEPT ![a] = flow[a]]

\* CallbackPage exchanges the code and goes to the dashboard.
ExchangeCode(a) ==
    /\ page[a] = "callback"
    /\ Store(a)
    /\ Carry(a, None, "dashboard")
    /\ UNCHANGED <<sessions, out, loose>>

-----------------------------------------------------------------------------
(* The dashboard, and logging out.                                         *)

\* logout() clears the local storage and goes to Hydra's logout endpoint.
Logout(a) ==
    /\ page[a] = "dashboard"
    /\ token' = [token EXCEPT ![a] = None]
    /\ Goto(a, "leaving")
    /\ UNCHANGED <<sessions, flow, out, loose>>

\* switchWallet() clears the local storage and starts over.
SwitchWallet(a) ==
    /\ page[a] = "dashboard"
    /\ token' = [token EXCEPT ![a] = None]
    /\ Goto(a, "home")
    /\ UNCHANGED <<sessions, flow, out, loose>>

\* The user opens the application again.
Visit(a) ==
    /\ page[a] \in Resting
    /\ Goto(a, "home")
    /\ UNCHANGED <<sessions, flow, token, out, loose>>

\* Hydra asks the backend about a session it has; it has nothing to ask about
\* one it has not, and redirects to the application.
RequestLogout(a) ==
    /\ page[a] = "leaving"
    /\ \/ /\ hydra # None
          /\ Carry(a, hydra, "revoke")
          /\ Overlap(a, hydra, LoggingIn)
       \/ /\ hydra = None
          /\ Goto(a, "signedOut")
          /\ UNCHANGED <<flow, loose>>
    /\ UNCHANGED <<sessions, token, out>>

\* Variant: HandleLogout as it was before it knew of Kratos.
KeepSessions(s) == UNCHANGED <<kratos, loose>>

\* All Kratos sessions of the subject; a failure is only logged.
RevokeIdentitySessions(s) ==
    \/ kratos' = (IF kratos = s THEN None ELSE kratos) /\ UNCHANGED loose
    \/ UNCHANGED kratos /\ loose' = loose \cup {s}

\* HandleLogout, first call.
RevokeSessions(a) ==
    /\ page[a] = "revoke"
    /\ RevokeIdentitySessions(flow[a])
    /\ Goto(a, "accept")
    /\ UNCHANGED <<hydra, flow, token, out>>

\* HandleLogout, second call.
AcceptLogout(a) ==
    /\ page[a] = "accept"
    /\ Goto(a, "verify")
    /\ UNCHANGED <<sessions, flow, token, out, loose>>

\* The browser follows the redirect and Hydra ends the session.
FollowLogout(a) ==
    /\ page[a] = "verify"
    /\ hydra' = IF hydra = flow[a] THEN None ELSE hydra
    /\ out' = out \cup {flow[a]}
    /\ Carry(a, None, "signedOut")
    /\ UNCHANGED <<kratos, token, loose>>

\* A call fails and the chain ends at an error, or the user leaves the page.
Break(a) ==
    /\ page[a] \in Moving
    /\ Carry(a, None, "error")
    /\ UNCHANGED <<sessions, token, out, loose>>

\* Hydra remembers a login for an hour, Kratos a session for a day.
HydraForgets  == hydra # None /\ hydra' = None /\ UNCHANGED <<kratos, page, flow, token, out, loose>>
KratosForgets == kratos # None /\ kratos' = None /\ UNCHANGED <<hydra, page, flow, token, out, loose>>

-----------------------------------------------------------------------------
\* What happens by itself once a page has loaded.
Redirect(a) ==
    \/ page[a] = "home" /\ StartFlow(a)
    \/ AcceptSkip(a) \/ AskLogin(a) \/ CheckSession(a) \/ FollowLogin(a) \/ ExchangeCode(a)
    \/ RequestLogout(a) \/ RevokeSessions(a) \/ AcceptLogout(a) \/ FollowLogout(a)

Next ==
    \/ \E a \in Apps :
        \/ StartFlow(a) \/ AcceptSkip(a) \/ AcceptCookie(a) \/ AskLogin(a) \/ CheckSession(a)
        \/ \E w \in Wallets : SignInWithWallet(a, w)
        \/ \E e \in Emails : SignInWithKratos(a, e)
        \/ ChallengeExpired(a) \/ AlreadySignedIn(a)
        \/ FollowLogin(a) \/ ExchangeCode(a)
        \/ Logout(a) \/ SwitchWallet(a) \/ Visit(a)
        \/ RequestLogout(a) \/ RevokeSessions(a) \/ AcceptLogout(a) \/ FollowLogout(a)
        \/ Break(a)
    \/ HydraForgets \/ KratosForgets

Spec == Init /\ [][Next]_vars

\* Browsers follow redirects and pages run their effects.  The backend's whoami
\* may fail again and again, but not for ever while there is a session.
FairSpec == Spec /\ \A a \in Apps : WF_vars(Redirect(a)) /\ SF_vars(AcceptCookie(a))

-----------------------------------------------------------------------------
(* Properties.                                                             *)

\* Once a subject has logged out in one application, no application of this
\* browser is signed in as it again, and no redirect under way is about it,
\* until it has shown its wallet or password again; unless revoking its Kratos
\* sessions failed or one of its logins was under way during the logout.
LoggedOutStaysOut ==
    \A s \in out \ loose :
        /\ hydra # s
        /\ kratos # s
        /\ \A a \in Apps : page[a] \in LoggingIn => flow[a] # s

\* The browser's Kratos session is, from some moment on, what it stays.
SessionSettles == \E s \in Subjects \cup {None} : <>[](kratos = s)

\* Whatever the cookies, and whoever logs in or out elsewhere, a page that
\* starts redirecting comes to rest: LoginPage, which goes home when there is a
\* session, and HandleLogin, which goes to LoginPage when it sees none, do not
\* send the browser round for ever, unless the session itself comes and goes
\* for ever between their questions.
RedirectsEnd ==
    SessionSettles => \A a \in Apps : page[a] = "home" ~> page[a] \in Resting

Undisturbed(a) == loose = {} /\ \A b \in Apps \ {a} : page[b] \in Resting

\* "revokes all Kratos sessions (to prevent auto-re-login)"
\* (documents/identity-authorization-stack/authentication-flow.md:332): when a
\* logout has gone through with no failure and nothing else under way, no session
\* is left that would log the next visitor in.
LogoutPreventsRelogin ==
    [][\A a \in Apps : page[a] \in {"leaving", "verify"} /\ page'[a] = "signedOut" /\ Undisturbed(a)
          => hydra' = None /\ kratos' = None]_vars

\* What a logout that does reach HandleLogout achieves: at its end neither cookie
\* and no login under way is the subject's, whoever else comes and goes meanwhile,
\* with the exceptions of LoggedOutStaysOut.
LogoutIsComplete ==
    [][\A a \in Apps : page[a] = "verify" /\ page'[a] = "signedOut" /\ flow[a] \notin loose
          => /\ hydra' # flow[a] /\ kratos' # flow[a]
             /\ \A b \in Apps : page'[b] \in LoggingIn => flow'[b] # flow[a]]_vars

\* Hydra is never made to remember, and CallbackPage never stores a token of,
\* nobody: whichever of the ways in brought the browser to the redirect, there
\* is a subject, and a dashboard shows somebody's token until that page is left.
SignedInAsSomebody ==
    \A a \in Apps :
        /\ page[a] \in {"redirect", "callback"} => flow[a] # None
        /\ page[a] = "dashboard" => token[a] # None

-----------------------------------------------------------------------------
(* Why LoggedOutStaysOut holds: an inductive invariant.                    *)

\* A logout whose subject is not in loose is the only thing under way about it,
\* and once the Kratos sessions are revoked there is none.
LogoutsAreAlone ==
    \A a \in Apps : page[a] \in LoggingOut =>
        /\ flow[a] # None
        /\ flow[a] \notin loose =>
              /\ page[a] \in {"accept", "verify"} => kratos # flow[a]
              /\ \A b \in Apps : page[b] \in LoggingIn => flow[b] # flow[a]

IInv ==
    /\ TypeOK
    /\ LoggedOutStaysOut
    /\ LogoutsAreAlone
    /\ SignedInAsSomebody
=============================================================================
