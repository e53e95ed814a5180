---------------------------- MODULE MCScheduler ----------------------------
(* Two schedules; any three runs, requests and restarts.                   *)
EXTENDS Scheduler

CONSTANTS r1, r2, q1

MCRunners == {r1, r2}
MCRequesters == {q1}
MCTypes == {"backup"}
MCDeviceTypes == {"backup"}
MCCrons == {"daily", "rejected"}
MCGoodCrons == {"daily"}
MCResults == {"partial"}
=============================================================================
