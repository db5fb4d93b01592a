------------------------------ MODULE Transports ------------------------------
(***************************************************************************)
(* What takes packets out of the frames a deframer gives: the transports,   *)
(* and two telemetry parsers that remember frames.  A satellite has one of  *)
(* them, whether SatYAML names it, the deframer brings it or a flowgraph    *)
(* has it, so one of them runs at a time.                                   *)
(***************************************************************************)
EXTENDS TmKissTransport, SpacePackets, NanolinkTransport, Lilacsat1Demux,
        CuteTelemetry, FuncubeTelemetry

VARIABLE protocol       \* which one it is, constant

transportVars == <<protocol, vars, spacePacketVars, nanolinkVars, demuxVars,
                   cuteVars, funcubeVars>>

TransportInit ==
    /\ protocol \in {"TM KISS", "CCSDS", "NANOLINK", "LilacSat-1", "CUTE", "FUNcube"}
    /\ Init
    /\ SpacePacketInit
    /\ NanolinkInit
    /\ DemuxInit
    /\ CuteInit
    /\ FuncubeInit

TmKissStep ==
    /\ protocol = "TM KISS"
    /\ Next
    /\ UNCHANGED <<protocol, spacePacketVars, nanolinkVars, demuxVars, cuteVars, funcubeVars>>
SpacePacketStep ==
    /\ protocol = "CCSDS"
    /\ SpacePacketNext
    /\ UNCHANGED <<protocol, vars, nanolinkVars, demuxVars, cuteVars, funcubeVars>>
NanolinkStep ==
    /\ protocol = "NANOLINK"
    /\ NanolinkNext
    /\ UNCHANGED <<protocol, vars, spacePacketVars, demuxVars, cuteVars, funcubeVars>>
Lilacsat1Step ==
    /\ protocol = "LilacSat-1"
    /\ DemuxNext
    /\ UNCHANGED <<protocol, vars, spacePacketVars, nanolinkVars, cuteVars, funcubeVars>>
CuteStep ==
    /\ protocol = "CUTE"
    /\ CuteNext
    /\ UNCHANGED <<protocol, vars, spacePacketVars, nanolinkVars, demuxVars, funcubeVars>>
FuncubeStep ==
    /\ protocol = "FUNcube"
    /\ FuncubeNext
    /\ UNCHANGED <<protocol, vars, spacePacketVars, nanolinkVars, demuxVars, cuteVars>>

TransportNext == \/ TmKissStep
                 \/ SpacePacketStep
                 \/ NanolinkStep
                 \/ Lilacsat1Step
                 \/ CuteStep
                 \/ FuncubeStep

TransportSpec == TransportInit /\ [][TransportNext]_transportVars
==============================================================================
