----------------------------- MODULE MCFlowgraph -----------------------------
(***************************************************************************)
(* The instance of Flowgraph that TLC explores: two data entries of any     *)
(* kind, one transport, one transmitter with every combination of           *)
(* references, also to entries that are not there, and perhaps a second one *)
(* that shares a data entry and the transport.                              *)
(***************************************************************************)
EXTENDS Flowgraph, TLC

Names == {"d1", "d2"}
Transmitters == [data : SUBSET Names, transports : SUBSET {"t1"}, additional_data : SUBSET Names]

MCData == {<<>>} \cup {"d1" :> k : k \in {"unknown", "files"}}
                 \cup {"d1" :> k @@ "d2" :> l : k \in {"telemetry", "files"}, l \in {"telemetry", "decoder"}}
MCTransports == {<<>>} \cup {"t1" :> data : data \in SUBSET Names}
MCTransmitters ==
         {"x1" :> x : x \in Transmitters}
    \cup {"x1" :> x @@ "x2" :> [data |-> {"d2"}, transports |-> {"t1"}, additional_data |-> {}]
              : x \in Transmitters}

MCDescriptions == [data : MCData, transports : MCTransports, transmitters : MCTransmitters]
==============================================================================
