-------------------------- MODULE MCCnssColdBootCal --------------------------
(* Two faults, fs_ready written twice, the modem restarting once, and a work *)
(* that finds the file system not ready twice.                               *)
EXTENDS CnssColdBootCal
=============================================================================
