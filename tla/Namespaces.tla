----------------------------- MODULE Namespaces -----------------------------
(***************************************************************************)
(* One namespace: the item of the global NamespaceManager, with the router *)
(* and the three registries that the latest Router() put there, and the    *)
(* declarations that @atask, @atask_queue and @atask_broadcast make        *)
(* through it.  Router() replaces both the router and the registries, and  *)
(* nothing tells a router that was replaced.                               *)
(***************************************************************************)
EXTENDS Naturals

CONSTANTS Functions,    \* coroutine functions that carry a decorator
          KeyOf,        \* the <<kind, name>> each of them declares
          None,         \* no item
          MaxRouters    \* bound on Router objects

Kinds == {"rpc", "queue", "broadcast"}
Keys == {KeyOf[f] : f \in Functions}

ASSUME KeyAssumption == /\ \A f \in Functions : KeyOf[f][1] \in Kinds
                        /\ None \notin Functions \cup Keys
ASSUME RoutersAssumption == MaxRouters \in Nat \ {0}

VARIABLES router,     \* the namespace's router; they are numbered as they are made
          registry,   \* the item of each key in the namespace's registries
          server      \* whether self.server of each router is set

spaceVars == <<router, registry, server>>

Routers == 1..MaxRouters
NoItems == [k \in Keys |-> None]

SpaceInit == /\ router = 0
             /\ registry = NoItems
             /\ server = [r \in Routers |-> FALSE]

\* Router(namespace): a new router with three new registries, whatever the item held.
NewRouter ==
    /\ router < MaxRouters
    /\ router' = router + 1
    /\ registry' = NoItems
    /\ UNCHANGED server

\* get_router makes one when there is none.
GetRouter == router' = IF router = 0 THEN 1 ELSE router

\* Manager.register: with unite=FALSE a name keeps its first item, RegisteringTwice.
RegisterUnites(f) == registry' = [registry EXCEPT ![KeyOf[f]] = f]
Register(f) == /\ registry[KeyOf[f]] = None
               /\ registry' = [registry EXCEPT ![KeyOf[f]] = f]

\* register_atask and its siblings, for the namespace's router; LateRegistration while it
\* has a server.
RegisterAtask(f) == (router # 0 => ~server[router]) /\ Register(f)

\* A module with a decorated function is imported.
Declare(f) == RegisterAtask(f) /\ GetRouter /\ UNCHANGED server

SpaceNext == NewRouter \/ \E f \in Functions : Declare(f)

\* The namespace has had one Router at most.
OneRouter == router <= 1
=============================================================================
