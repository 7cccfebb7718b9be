--------------------------- MODULE LatestSnapshot ---------------------------
(***************************************************************************)
(* What a snapshot domain promises its readers: they see nothing or the    *)
(* last durable generation, generations only move forward, and only an     *)
(* erase makes a durable generation go away, or, while readers see nothing *)
(* of it, an empty snapshot that takes its place.                          *)
(***************************************************************************)
EXTENDS Naturals

CONSTANT MaxVersion     \* newest version of the sources

VARIABLES
    shown,      \* version readers see, 0 for none, 1 for an empty snapshot
    durable     \* version that survives a restart, 0 for none

Init == shown = 0 /\ durable \in 0..MaxVersion

Commit(v) == v >= durable /\ durable' = v /\ UNCHANGED shown
Blanked == shown = 0 /\ durable' = 1 /\ UNCHANGED shown
Show == durable # 0 /\ shown' = durable /\ UNCHANGED durable
Hide == shown' = 0 /\ UNCHANGED durable
Erase == shown' = 0 /\ durable' = 0

Next == (\E v \in 1..MaxVersion : Commit(v)) \/ Blanked \/ Show \/ Hide \/ Erase

Spec == Init /\ [][Next]_<<shown, durable>>

=============================================================================
