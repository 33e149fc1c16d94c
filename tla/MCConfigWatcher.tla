--------------------------- MODULE MCConfigWatcher ---------------------------
(* Two receivers, one manual update, and two saves of the files. *)
EXTENDS ConfigWatcher

CONSTANTS r1, r2, app, reload

Manual == {[base |-> 101, env |-> 101]}
=============================================================================
