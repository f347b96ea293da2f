----------------------------- MODULE PrefixCache -----------------------------
(***************************************************************************)
(* The cached mesh-local prefix (meshcop/src/commissioner/client/mod.rs,   *)
(* PrefixCache, and client/requests.rs, require_mesh_local_prefix).        *)
(*                                                                         *)
(* Callers read the cache under its lock, fetch the active dataset without *)
(* it when it is empty, and store what they read.  Meanwhile the network's *)
(* dataset changes, and the driver empties the cache whenever it handles a *)
(* DatasetChanged notification.  Notifications are confirmable, so they    *)
(* arrive, at any time after the change and possibly more than once.       *)
(*                                                                         *)
(* Prefixes are numbered in the order the network uses them.               *)
(***************************************************************************)
EXTENDS Integers

CONSTANTS
    Callers,        \* the tasks that need the prefix
    MaxChanges      \* bound on the dataset changes

ASSUME MaxChangesAssumption == MaxChanges \in Nat

VARIABLES
    current,    \* the prefix in the border agent's active dataset
    unhandled,  \* changes whose notification the driver has not handled yet
    repeats,    \* handled notifications of which a copy may still be handled
    prefix,     \* PrefixCache::prefix
    generation, \* PrefixCache::generation
    step,       \* step[c]: where caller c is in require_mesh_local_prefix
    noted,      \* noted[c]: the generation c read before its fetch
    read        \* read[c]: the prefix in the answer c got

prefixVars == <<current, unhandled, repeats, prefix, generation, step, noted, read>>

None == -1

\* The first critical section: a hit returns at once, a miss notes the
\* generation and asks the border agent.
Lookup(c) ==
    /\ step[c] = "idle"
    /\ prefix = None
    /\ step' = [step EXCEPT ![c] = "asked"]
    /\ noted' = [noted EXCEPT ![c] = generation]
    /\ UNCHANGED <<current, unhandled, repeats, prefix, generation, read>>

\* The border agent answers with the prefix of that moment.
Answer(c) ==
    /\ step[c] = "asked"
    /\ step' = [step EXCEPT ![c] = "answered"]
    /\ read' = [read EXCEPT ![c] = current]
    /\ UNCHANGED <<current, unhandled, repeats, prefix, generation, noted>>

\* The fetch fails, the answer is unusable, or the caller is dropped.
Fail(c) ==
    /\ step[c] \in {"asked", "answered"}
    /\ step' = [step EXCEPT ![c] = "idle"]
    /\ UNCHANGED <<current, unhandled, repeats, prefix, generation, noted, read>>

\* The second critical section: what was read is returned, but only cached if
\* nothing invalidated the cache since the first one.
Store(c) ==
    /\ step[c] = "answered"
    /\ prefix' = IF noted[c] = generation THEN read[c] ELSE prefix
    /\ step' = [step EXCEPT ![c] = "idle"]
    /\ UNCHANGED <<current, unhandled, repeats, generation, noted, read>>

\* The active dataset changes; the border agent sends a notification.
Change ==
    /\ current < MaxChanges
    /\ current' = current + 1
    /\ unhandled' = unhandled + 1
    /\ UNCHANGED <<repeats, prefix, generation, step, noted, read>>

\* Mutant of Invalidate: the whole cache is reset to its default.
InvalidateResetting ==
    /\ unhandled > 0
    /\ unhandled' = unhandled - 1
    /\ prefix' = None
    /\ generation' = 0
    /\ UNCHANGED <<current, repeats, step, noted, read>>

\* route_unsolicited_message or route_unsolicited_proxied handles a
\* DatasetChanged for the first time, or once more.
Invalidate ==
    /\ \/ /\ unhandled > 0
          /\ unhandled' = unhandled - 1
          /\ repeats' = repeats + 1
       \/ /\ repeats > 0
          /\ repeats' = repeats - 1
          /\ unhandled' = unhandled
    /\ prefix' = None
    /\ generation' = generation + 1
    /\ UNCHANGED <<current, step, noted, read>>

PrefixInit ==
    /\ current = 0
    /\ unhandled = 0
    /\ repeats = 0
    /\ prefix = None
    /\ generation = 0
    /\ step = [c \in Callers |-> "idle"]
    /\ noted = [c \in Callers |-> 0]
    /\ read = [c \in Callers |-> None]

PrefixNext ==
    \/ \E c \in Callers : Lookup(c) \/ Answer(c) \/ Fail(c) \/ Store(c)
    \/ Change
    \/ Invalidate

PrefixSpec == PrefixInit /\ [][PrefixNext]_prefixVars

-----------------------------------------------------------------------------
(* Properties *)

\* Every variable has its type; no caller has noted a generation to come.
TypeOK ==
    /\ current \in Nat
    /\ unhandled \in Nat
    /\ repeats \in Nat
    /\ prefix \in Nat \cup {None}
    /\ generation \in Nat
    /\ step \in [Callers -> {"idle", "asked", "answered"}]
    /\ noted \in [Callers -> Nat]
    /\ read \in [Callers -> Nat \cup {None}]
    /\ \A c \in Callers : noted[c] <= generation

\* The cache never keeps a prefix the network has left once the driver has
\* handled the notification of the change: a stale prefix in the cache is one
\* that an invalidation still to come will remove.
CacheFresh ==
    prefix # None /\ prefix # current => unhandled > 0
=============================================================================
