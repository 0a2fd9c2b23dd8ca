--------------------------- MODULE MCOrderlySwitch ---------------------------
(* An orderly instance of SwitchPackets for TLC. *)
EXTENDS MCSwitchPackets, OrderlySwitch

\* Tables, groups, packet-outs and times of this instance are what the theorems
\* about OFSwitch13Device's assertions ask for.
ASSUME OrderlyAssumption == QuietAnswers /\ TimelyAnswers /\ OrderlyTables
==============================================================================
