--------------------------- MODULE MCSwitchPackets ---------------------------
(* Small instances of SwitchPackets for TLC. *)
EXTENDS SwitchPackets

\* A group that copies, one that selects a bucket, one chained to the first,
\* and two that send to the controller.
MCGroupTable ==
  [ flood   |-> [type |-> "all", buckets |-> <<"port", "none">>],
    select  |-> [type |-> "one", buckets |-> <<"port", "ctrl">>],
    chained |-> [type |-> "all", buckets |-> <<"flood", "port">>],
    mirror  |-> [type |-> "all", buckets |-> <<"ctrl", "port">>] ]

T(apply, end) == [apply |-> apply, end |-> end]

\* Tables that send the packet to the controller last, and never a copy of it.
MCTreatments ==
  { T(<<"ctrl">>, "none"), T(<<"flood", "port">>, "select"),
    T(<< >>, "chained"), T(<<"port">>, "ctrl"), T(<<"port">>, "miss") }

\* After the flow-mod the packet matches an entry.
MCResumeTreatments ==
  { T(<<"port">>, "none"), T(<<"flood">>, "drop") }

MCOutLists == { <<"port">>, <<"flood", "port">>, << >> }

MCDataLists == { <<"port", "port">> }

\* Tables as the learning controller leaves them: a table miss goes to the
\* controller, also for a packet that a flow-mod takes out of the buffer.
MissToController == { T(<<"ctrl">>, "none") }
Forward == { T(<< >>, "port") }
OutPort == { <<"port">> }

\* A copy for the controller.
MirrorGroup == { T(<< >>, "mirror") }

\* Tables, groups and packet-outs without regard to what the device asserts.
AnyTreatment ==
  { T(<<"ctrl">>, "none"), T(<<"ctrl">>, "ctrl"), T(<<"ctrl", "flood">>, "ctrl"), T(<<"mirror">>, "port"),
    T(<<"port">>, "chained"), T(<<"ctrl">>, "miss"), T(<<"port">>, "drop"),
    T(<< >>, "select") }
AnyOutList == { <<"ctrl">>, <<"port", "table">>, <<"flood", "ctrl">> }
AnyDataList == { <<"port">>, <<"ctrl">>, <<"table">> }

\* A buffered packet does not stay in the buffer for ever.
BufferedPacketLeaves ==
  \A p \in 1 .. MaxArrivals : p \in saved ~> p \notin saved
==============================================================================
