----------------------------- MODULE MCAppData -----------------------------
(* One commit (commits are independent of each other), one request beside   *)
(* the restores, the snapshots of the last two starts, and an archive of    *)
(* another installation and an older release.                               *)
EXTENDS AppData

Foreign == {[db |-> [data |-> {}, schema |-> "old", origin |-> "elsewhere"], cmd |-> "elsewhere"]}
=============================================================================
