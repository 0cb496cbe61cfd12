---------------------------- MODULE MCNativeLane -----------------------------
(* Two native requests and the codex lane under each of several fault models; *)
(* the requests are interchangeable.                                          *)
EXTENDS NativeLane, TLC

Models == {{"timeout", "lost", "reject"}, {"crash", "orphan", "cancel"},
           {"bridge", "lost"}, {"reboot", "pause"}, {"save", "cancel"},
           {"save", "crash"}, {"timeout", "unread", "cancel"},
           {"unstarted", "crash", "bridge"}}
Symmetry == Permutations(Reqs)
CancelOnly == {{"cancel"}}
=============================================================================
