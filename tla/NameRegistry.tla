---------------------------- MODULE NameRegistry ----------------------------
(***************************************************************************)
(* What the Zynd Naming Service of one registry promises: a handle belongs *)
(* to at most one developer and a developer has at most one handle; a name *)
(* is bound to at most one registered entity. Handles and names change     *)
(* hands only by being given up first, and an entity is deregistered only  *)
(* once no name is bound to it.                                            *)
(***************************************************************************)
CONSTANTS
    Dev,     \* developers
    Handle,  \* developer handles
    FQAN,    \* fully qualified names
    Entity,  \* entities
    None     \* no binding

VARIABLES
    owner,       \* the pairs <<h, d>> such that handle h belongs to developer d
    binding,     \* binding[f]: the entity that name f is bound to, or None
    registered   \* the registered entities

abstractVars == <<owner, binding, registered>>

\* No handle has two owners and no owner has two handles.
OneOwner ==
    \A p, q \in owner : (p[1] = q[1]) <=> (p[2] = q[2])

\* A name is bound to a registered entity.
BoundToRegistered ==
    \A f \in FQAN : binding[f] # None => binding[f] \in registered

AbstractInit ==
    /\ owner \in SUBSET (Handle \X Dev)
    /\ registered \in SUBSET Entity
    /\ binding \in [FQAN -> Entity \cup {None}]
    /\ OneOwner
    /\ BoundToRegistered

\* A free handle goes to a developer without a handle.
Claim(h, d) ==
    /\ \A p \in owner : p[1] # h /\ p[2] # d
    /\ owner' = owner \cup {<<h, d>>}
    /\ UNCHANGED <<binding, registered>>

\* A handle becomes free. The names under it stay as they are.
Release(h, d) ==
    /\ <<h, d>> \in owner
    /\ owner' = owner \ {<<h, d>>}
    /\ UNCHANGED <<binding, registered>>

\* A free name is bound to a registered entity.
Bind(f, e) ==
    /\ binding[f] = None
    /\ e \in registered
    /\ binding' = [binding EXCEPT ![f] = e]
    /\ UNCHANGED <<owner, registered>>

\* Some names of one entity become free.
Unbind(S, e) ==
    /\ \A f \in S : binding[f] = e
    /\ binding' = [f \in FQAN |-> IF f \in S THEN None ELSE binding[f]]
    /\ UNCHANGED <<owner, registered>>

Register(e) ==
    /\ e \notin registered
    /\ registered' = registered \cup {e}
    /\ UNCHANGED <<owner, binding>>

\* An entity without names is deregistered.
Deregister(e) ==
    /\ e \in registered
    /\ \A f \in FQAN : binding[f] # e
    /\ registered' = registered \ {e}
    /\ UNCHANGED <<owner, binding>>

AbstractNext ==
    \/ \E h \in Handle, d \in Dev : Claim(h, d) \/ Release(h, d)
    \/ \E e \in Entity :
         \/ Register(e)
         \/ Deregister(e)
         \/ \E f \in FQAN : Bind(f, e)
         \/ \E S \in SUBSET FQAN : Unbind(S, e)

AbstractSpec == AbstractInit /\ [][AbstractNext]_abstractVars
=============================================================================
