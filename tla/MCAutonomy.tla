----------------------------- MODULE MCAutonomy -----------------------------
(* Instances of the autonomy runtime for TLC.                               *)
EXTENDS AutonomyProperties, TLC

\* The commands of these kinds, without the flag of pause and resume.
Plain(K) == K \X {FALSE}

\* Everything but supervision, with pause --stop and resume --clear-stop.
Coordination == Plain(Kind \ {"supervise"}) \cup {<<"pause", TRUE>>, <<"resume", TRUE>>}

\* The life of supervised processes, their recovery included.
Orphaning ==
  Plain({"start", "supervise", "pause", "resume", "cleanup"}) \cup {<<"resume", TRUE>>}

SupervisionAndPause == Plain({"start", "supervise", "pause"})

Acquisition == Plain({"start", "heartbeat", "resume"})

SupervisionOnly == Plain({"start", "supervise", "cleanup"})
=============================================================================
