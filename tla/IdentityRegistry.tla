-------------------------- MODULE IdentityRegistry --------------------------
(***************************************************************************)
(* What login, linking and unlinking promise together, with no handler, no *)
(* lookup and no lost reply: a registry in which a user is bound once and  *)
(* for ever to one account and one Kratos identity, a binding can only be  *)
(* switched off, and a subject is logged in only after it was bound.       *)
(* AccountIdentities implements it.                                        *)
(***************************************************************************)
CONSTANTS
    Registrations   \* subjects that Kratos registers and logs in by itself

VARIABLES
    bound,      \* the bindings ever made
    off,        \* the ids of those switched off
    loggedIn    \* the subjects ever logged in

registry == <<bound, off, loggedIn>>

RegistryInit == bound = {} /\ off = {} /\ loggedIn = {}

Fresh(x) == \A y \in bound : y.id # x.id /\ y.user # x.user /\ y.kratos # x.kratos

\* A first login or registration opens an account of its own.
Open(x) ==
    /\ Fresh(x)
    /\ x.primary
    /\ \A y \in bound : y.account # x.account
    /\ bound' = bound \cup {x}
    /\ UNCHANGED <<off, loggedIn>>

\* A link adds a wallet to an account that exists.
Join(x) ==
    /\ Fresh(x)
    /\ ~x.primary
    /\ \E y \in bound : y.account = x.account
    /\ bound' = bound \cup {x}
    /\ UNCHANGED <<off, loggedIn>>

\* An unlink switches one binding off; nothing switches it on again.
SwitchOff(x) ==
    /\ x \in bound
    /\ off' = off \cup {x.id}
    /\ UNCHANGED <<bound, loggedIn>>

\* A login ends with a session for a subject that is bound, or is Kratos' own.
LogIn(k) ==
    /\ k \in Registrations \/ \E x \in bound : x.kratos = k
    /\ loggedIn' = loggedIn \cup {k}
    /\ UNCHANGED <<bound, off>>

RegistryNext ==
    \/ \E x \in bound' : Open(x) \/ Join(x)
    \/ \E x \in bound : SwitchOff(x)
    \/ \E k \in loggedIn' : LogIn(k)

RegistrySpec == RegistryInit /\ [][RegistryNext]_registry

-----------------------------------------------------------------------------
(* What the registry promises.                                             *)

\* A user and a Kratos identity have one binding, switched off or not.
BoundOnce ==
    \A x, y \in bound : x.id = y.id \/ x.user = y.user \/ x.kratos = y.kratos => x = y

\* Every account in use was opened, by one binding.
OpenedOnce ==
    \A x \in bound : \E y \in bound :
        /\ y.account = x.account /\ y.primary
        /\ \A z \in bound : z.account = x.account /\ z.primary => z = y

\* Only bindings are switched off, and only subjects that Kratos registered or
\* that are bound have ever logged in.
NothingFromOutside ==
    /\ off \subseteq {x.id : x \in bound}
    /\ loggedIn \subseteq Registrations \cup {x.kratos : x \in bound}

\* No binding is changed or forgotten, none is switched on again, and a step
\* makes one new binding at most: a user never comes to another account.
BindingsAreForGood ==
    [][/\ bound \subseteq bound' /\ off \subseteq off' /\ loggedIn \subseteq loggedIn'
       /\ \A x, y \in bound' \ bound : x = y]_registry

\* An account that is in use gets no second opener, and a link joins nothing
\* but an account that was there before.
Linked(x) == x.primary <=> \A y \in bound : y.account # x.account

LinksJoinAccounts == [][\A x \in bound' \ bound : Linked(x)]_registry

RegistryInv == BoundOnce /\ OpenedOnce /\ NothingFromOutside
=============================================================================
