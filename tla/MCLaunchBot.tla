---------------------------- MODULE MCLaunchBot ----------------------------
\* One call of each kind; the timers have different deadlines.
EXTENDS LaunchBot, TLC

CONSTANTS w, e, t

MCKind == (w :> "wait") @@ (e :> "event") @@ (t :> "timed")
MCDeadline == (w :> 2) @@ (e :> 0) @@ (t :> 1)
=============================================================================
