------------------------- MODULE SingleSignOnProofs -------------------------
(***************************************************************************)
(* Proofs about SingleSignOn for any number of applications and subjects:  *)
(* a subject that logged out stays out of every application until it signs *)
(* in again, but for the causes that loose records.                        *)
(***************************************************************************)
EXTENDS SingleSignOn, TLAPS

\* A logout and a login of one subject that overlap are both recorded.
LEMMA Overlaps ==
    ASSUME NEW a \in Apps, NEW s, NEW pages, Overlap(a, s, pages)
    PROVE  /\ loose \subseteq loose'
           /\ loose' \subseteq loose \cup {s}
           /\ s # None => \A b \in Apps \ {a} : page[b] \in pages /\ flow[b] = s => s \in loose'
           /\ s = None => loose' = loose
BY DEF Overlap, Others

LEMMA InitIsFine == Init => IInv
BY DEF Init, IInv, TypeOK, LoggedOutStaysOut, LogoutsAreAlone, SignedInAsSomebody, Moving, Resting,
       LoggingIn, LoggingOut

LEMMA StepIsFine == IInv /\ [Next]_vars => IInv'
<1> SUFFICES ASSUME IInv, [Next]_vars PROVE IInv'
  OBVIOUS
<1> USE DEF IInv, TypeOK, LoggedOutStaysOut, LogoutsAreAlone, SignedInAsSomebody, LoggingIn, LoggingOut,
            Moving, Resting, Subjects, Goto, Carry, Prove, sessions
<1>1. ASSUME NEW a \in Apps, StartFlow(a) PROVE IInv'
  BY <1>1, Overlaps, SubjectsAreSome DEF StartFlow
<1>2. ASSUME NEW a \in Apps, AcceptSkip(a) \/ AskLogin(a) \/ CheckSession(a) PROVE IInv'
  BY <1>2 DEF AcceptSkip, AskLogin, CheckSession
<1>3. ASSUME NEW a \in Apps, AcceptCookie(a) PROVE IInv'
  BY <1>3, Overlaps, SubjectsAreSome DEF AcceptCookie
<1>4. ASSUME NEW a \in Apps, NEW w \in Wallets, SignInWithWallet(a, w) PROVE IInv'
  BY <1>4, Overlaps, SubjectsAreSome DEF SignInWithWallet
<1>5. ASSUME NEW a \in Apps, NEW e \in Emails, SignInWithKratos(a, e) PROVE IInv'
  BY <1>5, Overlaps, SubjectsAreSome DEF SignInWithKratos
<1>6. ASSUME NEW a \in Apps, ChallengeExpired(a) \/ AlreadySignedIn(a) \/ Visit(a) PROVE IInv'
  BY <1>6 DEF ChallengeExpired, AlreadySignedIn, Visit
<1>7. ASSUME NEW a \in Apps, FollowLogin(a) PROVE IInv'
  BY <1>7 DEF FollowLogin
<1>8. ASSUME NEW a \in Apps, ExchangeCode(a) PROVE IInv'
  BY <1>8, SubjectsAreSome DEF ExchangeCode, Store
<1>9. ASSUME NEW a \in Apps, Logout(a) \/ SwitchWallet(a) PROVE IInv'
  BY <1>9 DEF Logout, SwitchWallet
<1>10. ASSUME NEW a \in Apps, RequestLogout(a) PROVE IInv'
  BY <1>10, Overlaps, SubjectsAreSome DEF RequestLogout
<1>11. ASSUME NEW a \in Apps, RevokeSessions(a) PROVE IInv'
  BY <1>11, SubjectsAreSome DEF RevokeSessions, RevokeIdentitySessions
<1>12. ASSUME NEW a \in Apps, AcceptLogout(a) PROVE IInv'
  BY <1>12 DEF AcceptLogout
<1>13. ASSUME NEW a \in Apps, FollowLogout(a) PROVE IInv'
  BY <1>13, SubjectsAreSome DEF FollowLogout
<1>14. ASSUME NEW a \in Apps, Break(a) PROVE IInv'
  BY <1>14, SubjectsAreSome DEF Break
<1>15. CASE HydraForgets \/ KratosForgets
  BY <1>15, SubjectsAreSome DEF HydraForgets, KratosForgets
<1>16. CASE UNCHANGED vars
  BY <1>16 DEF vars
<1>17. QED
  BY <1>1, <1>2, <1>3, <1>4, <1>5, <1>6, <1>7, <1>8, <1>9, <1>10, <1>11, <1>12, <1>13, <1>14,
     <1>15, <1>16 DEF Next

\* The inductive invariant holds in every reachable state.
THEOREM Invariance == Spec => []IInv
BY InitIsFine, StepIsFine, PTL DEF Spec

\* Every variable keeps its type.
THEOREM TypeCorrect == Spec => []TypeOK
BY Invariance, PTL DEF IInv

\* A subject that logged out stays out until it signs in again.
THEOREM LogoutSafety == Spec => []LoggedOutStaysOut
BY Invariance, PTL DEF IInv

\* No redirect and no dashboard is about nobody.
THEOREM SignInSafety == Spec => []SignedInAsSomebody
BY Invariance, PTL DEF IInv

\* Only FollowLogout takes a page from the end of a logout to signedOut.
LEMMA LogoutEnds ==
    ASSUME TypeOK, Next, NEW a \in Apps, page[a] = "verify", page'[a] = "signedOut"
    PROVE  FollowLogout(a)
<1> USE DEF TypeOK, Goto, Carry, sessions
<1>1. ASSUME NEW b \in Apps,
             \/ StartFlow(b) \/ AcceptSkip(b) \/ AcceptCookie(b) \/ AskLogin(b) \/ CheckSession(b)
             \/ \E w \in Wallets : SignInWithWallet(b, w)
             \/ \E e \in Emails : SignInWithKratos(b, e)
      PROVE  page'[a] # "signedOut"
  BY <1>1 DEF StartFlow, AcceptSkip, AcceptCookie, AskLogin, CheckSession, SignInWithWallet,
              SignInWithKratos
<1>2. ASSUME NEW b \in Apps,
             \/ ChallengeExpired(b) \/ AlreadySignedIn(b) \/ FollowLogin(b) \/ ExchangeCode(b)
             \/ Logout(b) \/ SwitchWallet(b) \/ Visit(b)
      PROVE  page'[a] # "signedOut"
  BY <1>2 DEF ChallengeExpired, AlreadySignedIn, FollowLogin, ExchangeCode, Logout, SwitchWallet,
              Visit
<1>3. ASSUME NEW b \in Apps, RequestLogout(b) \/ RevokeSessions(b) \/ AcceptLogout(b) \/ Break(b)
      PROVE  page'[a] # "signedOut"
  BY <1>3 DEF RequestLogout, RevokeSessions, AcceptLogout, Break
<1>4. ASSUME NEW b \in Apps, FollowLogout(b), b # a
      PROVE  page'[a] # "signedOut"
  BY <1>4 DEF FollowLogout
<1>5. QED
  BY <1>1, <1>2, <1>3, <1>4 DEF Next, HydraForgets, KratosForgets

\* A logout that reaches the backend, alone and without a failure, is complete.
THEOREM LogoutCompleteness == Spec => LogoutIsComplete
<1> DEFINE A == \A a \in Apps :
                  page[a] = "verify" /\ page'[a] = "signedOut" /\ flow[a] \notin loose
                  => /\ hydra' # flow[a] /\ kratos' # flow[a]
                     /\ \A b \in Apps : page'[b] \in LoggingIn => flow'[b] # flow[a]
<1>1. IInv /\ IInv' /\ [Next]_vars => [A]_vars
  <2> SUFFICES ASSUME IInv, IInv', Next, NEW a \in Apps,
                      page[a] = "verify", page'[a] = "signedOut", flow[a] \notin loose
               PROVE  /\ hydra' # flow[a] /\ kratos' # flow[a]
                      /\ \A b \in Apps : page'[b] \in LoggingIn => flow'[b] # flow[a]
    BY DEF vars
  <2>1. FollowLogout(a)
    BY LogoutEnds DEF IInv
  <2>2. flow[a] \in (out \ loose)'
    BY <2>1 DEF FollowLogout
  <2>3. QED
    BY <2>2 DEF IInv, LoggedOutStaysOut
<1>2. QED
  BY <1>1, Invariance, PTL DEF Spec, LogoutIsComplete
=============================================================================
