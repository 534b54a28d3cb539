----------------------- MODULE IdentityRegistryProofs -----------------------
(***************************************************************************)
(* Proofs about IdentityRegistry, and so about AccountIdentities, which    *)
(* implements it and takes its theorems from here.                         *)
(***************************************************************************)
EXTENDS IdentityRegistry, TLAPS

\* A step adds one binding, with keys of its own, or none.
LEMMA StepShape ==
    ASSUME [RegistryNext]_registry
    PROVE  /\ off \subseteq off' /\ loggedIn \subseteq loggedIn'
           /\ \/ bound' = bound
              \/ \E x : /\ bound' = bound \cup {x} /\ Fresh(x) /\ Linked(x)
                        /\ UNCHANGED <<off, loggedIn>>
<1>1. ASSUME NEW x, Open(x) \/ Join(x)
      PROVE  /\ bound' = bound \cup {x} /\ Fresh(x) /\ Linked(x)
             /\ UNCHANGED <<off, loggedIn>>
  BY <1>1 DEF Open, Join, Linked
<1>2. ASSUME NEW x, SwitchOff(x) PROVE UNCHANGED <<bound, loggedIn>> /\ off \subseteq off'
  BY <1>2 DEF SwitchOff
<1>3. ASSUME NEW k, LogIn(k) PROVE UNCHANGED <<bound, off>> /\ loggedIn \subseteq loggedIn'
  BY <1>3 DEF LogIn
<1>4. QED
  BY <1>1, <1>2, <1>3 DEF RegistryNext, registry

LEMMA InvStep == RegistryInv /\ [RegistryNext]_registry => RegistryInv'
<1> SUFFICES ASSUME RegistryInv, [RegistryNext]_registry PROVE RegistryInv'
  OBVIOUS
<1>1. ASSUME NEW x, bound' = bound \cup {x}, Fresh(x), Linked(x), UNCHANGED <<off, loggedIn>>
      PROVE  RegistryInv'
  <2>1. BoundOnce'
    BY <1>1 DEF RegistryInv, BoundOnce, Fresh
  <2>2. OpenedOnce'
    <3> SUFFICES ASSUME NEW v \in bound'
                 PROVE  \E y \in bound' :
                           /\ y.account = v.account /\ y.primary
                           /\ \A z \in bound' : z.account = v.account /\ z.primary => z = y
      BY DEF OpenedOnce
    <3>1. CASE \E u \in bound : u.account = v.account
      <4>1. PICK y \in bound : /\ y.account = v.account /\ y.primary
                               /\ \A z \in bound : z.account = v.account /\ z.primary => z = y
        BY <3>1 DEF RegistryInv, OpenedOnce
      <4>2. x.account = v.account => ~x.primary
        BY <1>1, <4>1 DEF Linked
      <4>3. QED
        BY <1>1, <4>1, <4>2
    <3>2. CASE ~\E u \in bound : u.account = v.account
      <4>1. v = x /\ x.primary
        BY <1>1, <3>2 DEF Linked
      <4>2. QED
        BY <1>1, <3>2, <4>1
    <3>3. QED
      BY <3>1, <3>2
  <2>3. NothingFromOutside'
    BY <1>1 DEF RegistryInv, NothingFromOutside
  <2>4. QED
    BY <2>1, <2>2, <2>3 DEF RegistryInv
<1>2. CASE bound' = bound
  <2>1. BoundOnce' /\ OpenedOnce'
    BY <1>2 DEF RegistryInv, BoundOnce, OpenedOnce
  <2>2. NothingFromOutside'
    BY <1>2 DEF RegistryInv, NothingFromOutside, RegistryNext, Open, Join, SwitchOff, LogIn, registry
  <2>3. QED
    BY <2>1, <2>2 DEF RegistryInv
<1>3. QED
  BY <1>1, <1>2, StepShape

\* Every reachable state of the registry satisfies its invariant.
THEOREM RegistrySafety == RegistrySpec => []RegistryInv
<1>1. RegistryInit => RegistryInv
  BY DEF RegistryInit, RegistryInv, BoundOnce, OpenedOnce, NothingFromOutside
<1>2. QED
  BY <1>1, InvStep, PTL DEF RegistrySpec

\* No step takes a binding back.
THEOREM RegistryGrowth == RegistrySpec => BindingsAreForGood
<1>1. [RegistryNext]_registry =>
        [/\ bound \subseteq bound' /\ off \subseteq off' /\ loggedIn \subseteq loggedIn'
         /\ \A x, y \in bound' \ bound : x = y]_registry
  BY StepShape
<1>2. QED
  BY <1>1, PTL DEF RegistrySpec, BindingsAreForGood

\* No step opens an account twice, or links to one that does not exist.
THEOREM RegistryLinks == RegistrySpec => LinksJoinAccounts
<1>1. [RegistryNext]_registry => [\A x \in bound' \ bound : Linked(x)]_registry
  BY StepShape
<1>2. QED
  BY <1>1, PTL DEF RegistrySpec, LinksJoinAccounts
=============================================================================
