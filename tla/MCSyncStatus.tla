---------------------------- MODULE MCSyncStatus ----------------------------
\* Syncs in each mode, dry and live, of one switch or of all, a given
\* configuration, and upgrades.
EXTENDS SyncStatus

CONSTANTS d1, j1, j2

Ask(kind, dry, mode) ==
  [kind |-> kind, by |-> d1, dry |-> dry, force |-> FALSE, resync |-> FALSE,
   auto |-> FALSE, mode |-> mode, steps |-> {}]
Live == {Ask("sync", FALSE, mode) : mode \in 0..2}
Dry == {[Ask("sync", TRUE, 1) EXCEPT !.auto = TRUE], [Ask("sync", TRUE, 1) EXCEPT !.force = TRUE],
        [Ask("sync", TRUE, 2) EXCEPT !.by = "all", !.resync = TRUE]}
Forced == {[Ask("sync", FALSE, 1) EXCEPT !.force = TRUE, !.by = "all"]}
Upgrades == {[Ask("upgrade", FALSE, 0) EXCEPT !.steps = {"download", "activate", "reboot", "post"}],
             [Ask("upgrade", FALSE, 0) EXCEPT !.steps = {"activate", "reboot"}]}
MCRequests == Live \cup Dry \cup Forced \cup {Ask("apply", FALSE, 0)} \cup Upgrades
=============================================================================
