-------------------------- MODULE MCSchedulerTwo --------------------------
(* Two requests that may overlap, and one runner.                          *)
EXTENDS Scheduler

CONSTANTS r1, q1, q2

MCRunners == {r1}
MCRequesters == {q1, q2}
MCTypes == {"backup"}
MCDeviceTypes == {"backup"}
MCCrons == {"daily", "rejected"}
MCGoodCrons == {"daily"}
MCResults == {"partial"}
=============================================================================
