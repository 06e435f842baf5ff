------------------------------ MODULE MCDmDriver ------------------------------
(* Two actuators, wired crosswise as in map2k.  The frames increase; their *)
(* words differ, the last one saturates, and all are above the word that   *)
(* the kernel module leaves in a new DMA buffer.                           *)
EXTENDS DmDriver

MCDmMap    == <<2, 1>>
TwoFrames   == <<<<4000, 4100>>, <<16384, 16383>>>>
OneFrame    == <<<<4000, 16384>>>>
MCNibbles  == {1}

(* One pixel, for the run with hours and kills.                             *)
SingleMap   == <<1>>
SingleFrame == <<<<16384>>>>

NoFaults   == {}
SoftFaults == {"ioctl", "dmastart"}
=============================================================================
