------------------------- MODULE LinearPoolRegistry -------------------------
(***************************************************************************)
(* What the Linear Pool factories promise to everybody outside a creation  *)
(* transaction: a growing set of links between a pool and its asset        *)
(* manager.  One creation adds one link, whose two ends were never used    *)
(* before; links are never changed or removed; a disabled factory adds     *)
(* none; a pool can be paused until the end of the window of its factory,  *)
(* or not at all when it is created after that.                            *)
(*                                                                         *)
(* LinearPoolFactory implements this with a transaction of several steps.  *)
(***************************************************************************)
EXTENDS Naturals

CONSTANTS Factories,    \* factories sharing one Vault
          WindowEnd     \* [Factories -> Nat]: end of each pause window

VARIABLES now,          \* block timestamp
          disabled,     \* factories that create nothing any more
          links         \* pools and their managers

vars == <<now, disabled, links>>

Init == /\ now = 0
        /\ disabled = {}
        /\ links = {}

\* The pools a factory creates before the end of its window all stop being
\* pausable at that end; those it creates later never are.
PausableUntil(f) == IF now < WindowEnd[f] THEN WindowEnd[f] ELSE now

\* A creation adds the link `new`.
Create(new) ==
    /\ new.factory \in Factories \ disabled
    /\ new.pausableUntil = PausableUntil(new.factory)
    /\ \A l \in links : l.pool # new.pool /\ l.manager # new.manager
    /\ links' = links \cup {new}
    /\ UNCHANGED <<now, disabled>>

Disable(f) ==
    /\ f \notin disabled
    /\ disabled' = disabled \cup {f}
    /\ UNCHANGED <<now, links>>

Tick == /\ now' = now + 1
        /\ UNCHANGED <<disabled, links>>

Next == \/ Tick
        \/ \E f \in Factories : Disable(f)
        \/ \E new \in links' \ links : Create(new)

Spec == Init /\ [][Next]_vars
=============================================================================
