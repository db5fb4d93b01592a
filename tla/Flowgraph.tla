------------------------------ MODULE Flowgraph ------------------------------
(***************************************************************************)
(* python/core/gr_satellites_flowgraph.py: the constructor makes blocks for *)
(* the entries of a description, one after the other, and connects them.    *)
(* Each entry is a step; the dictionaries may have any order.  A name that  *)
(* has no block is a KeyError, which ends the construction.                 *)
(*                                                                          *)
(* A description (python/satyaml/satyaml.py) has                            *)
(*   data          the kind of each data entry: "telemetry", "unknown",     *)
(*                 "decoder", "files" or "image";                           *)
(*   transports    for each transport the data entries it gives;            *)
(*   transmitters  for each transmitter the data entries, the transports    *)
(*                 and the additional data it has.                          *)
(* Fields that do not refer to others (baud rates, names of decoders,       *)
(* modulations, framings) are left out.                                     *)
(*                                                                          *)
(* A block, or a port of one, is a pair of its kind and its name.           *)
(***************************************************************************)
EXTENDS FiniteSets

CONSTANTS
    Descriptions,   \* the descriptions of satellites
    Outputs         \* the sinks an option or the configuration may ask for

VARIABLES
    satyaml,        \* the description, constant
    options,        \* grc_block, pdu_in, hexdump and outputs, constant
    datasinks,      \* names in _datasinks
    additional_datasinks,
    transports,     \* names in _transports
    deframers,      \* names in _deframers
    connections,    \* msg_connect: pairs of blocks
    stage,          \* where the constructor is
    failed          \* it has raised an exception

flowgraphVars == <<satyaml, options, datasinks, additional_datasinks, transports,
                   deframers, connections, stage, failed>>

------------------------------------------------------------------------------
(* satyaml.py *)

\* A slip the properties must notice: additional data are not looked up.
check_yaml_data(d) ==
    \A x \in DOMAIN d.transmitters : d.transmitters[x].data \subseteq DOMAIN d.data

\* check_yaml() raises no exception.  Each transmitter has the field data or the field
\* transports, of which either may be empty; a description without both is not among
\* Descriptions.  It means to look up the transports of a
\* transmitter as well, but tests for a field "transport" which no description has.
check_yaml(d) ==
    \A x \in DOMAIN d.transmitters :
        LET transmitter == d.transmitters[x]
        IN  /\ transmitter.data \subseteq DOMAIN d.data
            /\ transmitter.additional_data \subseteq DOMAIN d.data

is_telemetry(kind) == kind \in {"telemetry", "unknown"}

------------------------------------------------------------------------------
\* The command line tool reads samples or, with --kiss_in, PDUs; a GRC block has
\* no data sinks.
OptionsOfTool == [grc_block : {FALSE}, pdu_in : BOOLEAN, hexdump : BOOLEAN, outputs : SUBSET Outputs]
OptionsOfGrc == [grc_block : {TRUE}, pdu_in : {FALSE}, hexdump : {FALSE}, outputs : {{}}]

FlowgraphInit == /\ satyaml \in {d \in Descriptions : check_yaml(d)}
                 /\ options \in OptionsOfTool \cup OptionsOfGrc
                 /\ datasinks = {}
                 /\ additional_datasinks = {}
                 /\ transports = {}
                 /\ deframers = {}
                 /\ connections = {}
                 /\ stage = IF options.grc_block THEN "transmitters" ELSE "data"
                 /\ failed = FALSE

------------------------------------------------------------------------------
Sink(name) == <<"datasink", name>>
OutputSink(name) == <<"additional datasink", name>>
Transport(name) == <<"transport", name>>
Deframer(name) == <<"deframer", name>>
Tagger(name) == <<"tagger", name>>

\* The port of a deframer for additional data, and its tagger.
AdditionalPort(name, data) == <<"deframer port", <<name, data>>>>
AdditionalTagger(name, data) == <<"port tagger", <<name, data>>>>

ToolInput == <<"flowgraph", "in">>
GrcOutput == <<"flowgraph", "out">>

\* With --hexdump there are no sinks for telemetry.
Wanted(data) == ~(is_telemetry(satyaml.data[data]) /\ options.hexdump)

\* _init_datasink() of one entry, or none if it is not wanted.
InitDatasink ==
    /\ stage = "data"
    /\ \E data \in {k \in DOMAIN satyaml.data : Wanted(k)} \ datasinks :
          datasinks' = datasinks \cup {data}
    /\ UNCHANGED <<satyaml, options, additional_datasinks, transports, deframers,
                   connections, stage, failed>>

\* All of them are there; _init_additional_datasinks() follows.
InitAdditionalDatasinks ==
    /\ stage = "data"
    /\ {k \in DOMAIN satyaml.data : Wanted(k)} \subseteq datasinks
    /\ additional_datasinks' =
          options.outputs \cup (IF options.hexdump THEN {"hexdump_sink"} ELSE {})
    /\ stage' = "transports"
    /\ UNCHANGED <<satyaml, options, datasinks, transports, deframers, connections, failed>>

\* Connect to all of these, or fail.
Connect(new, missing) == IF missing THEN failed' = TRUE /\ UNCHANGED connections
                         ELSE connections' = connections \cup new /\ UNCHANGED failed

\* _init_transport() of one entry.
InitTransport ==
    /\ stage = "transports"
    /\ ~failed
    /\ \E t \in DOMAIN satyaml.transports \ transports :
          LET data == IF options.hexdump THEN {} ELSE satyaml.transports[t]
          IN  /\ transports' = transports \cup {t}
              /\ Connect({<<Transport(t), Sink(k)>> : k \in data}, ~(data \subseteq datasinks))
    /\ UNCHANGED <<satyaml, options, datasinks, additional_datasinks, deframers, stage>>

\* All of them are there; PDUs from outside go to all sinks, and that is all.
TransportsDone ==
    /\ stage = "transports"
    /\ ~failed
    /\ transports = DOMAIN satyaml.transports
    /\ IF options.pdu_in
       THEN /\ connections' = connections
                \cup {<<ToolInput, Sink(k)>> : k \in datasinks}
                \cup {<<ToolInput, OutputSink(s)>> : s \in additional_datasinks}
            /\ stage' = "done"
       ELSE UNCHANGED connections /\ stage' = "transmitters"
    /\ UNCHANGED <<satyaml, options, datasinks, additional_datasinks, transports,
                   deframers, failed>>

\* A slip the properties must notice: with a transport the sinks that show frames
\* as they come are left out.
ToSinksOrTransports(x) ==
    IF satyaml.transmitters[x].transports # {}
    THEN {<<Tagger(x), Transport(t)>> : t \in satyaml.transmitters[x].transports}
    ELSE   {<<Tagger(x), Sink(k)>> : k \in satyaml.transmitters[x].data \cap datasinks}
      \cup {<<Tagger(x), OutputSink(s)>> : s \in additional_datasinks}

\* Data entries without a sink are passed over, "if it's a telemetry parser and
\* we're running in hexdump mode".
ToSinks(x) ==
    LET transmitter == satyaml.transmitters[x]
    IN       {<<Tagger(x), OutputSink(s)>> : s \in additional_datasinks}
        \cup {<<Tagger(x), Sink(k)>> : k \in transmitter.data \cap datasinks}
        \cup {<<Tagger(x), Transport(t)>> : t \in transmitter.transports}

ToAdditional(x) ==
    UNION {{<<AdditionalPort(x, k), AdditionalTagger(x, k)>>,
            <<AdditionalTagger(x, k), Sink(k)>>}
              : k \in satyaml.transmitters[x].additional_data}

\* _connect_transmitter_to_data()
ConnectTransmitterToData(x) ==
    LET transmitter == satyaml.transmitters[x]
        tagger      == {<<Deframer(x), Tagger(x)>>}
    IN  IF options.grc_block
        THEN Connect(tagger \cup {<<Tagger(x), GrcOutput>>}, FALSE)
        ELSE Connect(tagger \cup ToSinks(x) \cup ToAdditional(x),
                     \/ ~(transmitter.transports \subseteq transports)
                     \/ ~(transmitter.additional_data \subseteq datasinks))

\* _init_demodulator_deframer() of one entry.
InitDemodulatorDeframer ==
    /\ stage = "transmitters"
    /\ ~failed
    /\ \E x \in DOMAIN satyaml.transmitters \ deframers :
          /\ deframers' = deframers \cup {x}
          /\ ConnectTransmitterToData(x)
          /\ stage' = IF deframers' = DOMAIN satyaml.transmitters THEN "done" ELSE stage
    /\ UNCHANGED <<satyaml, options, datasinks, additional_datasinks, transports>>

FlowgraphNext == \/ InitDatasink
                 \/ InitAdditionalDatasinks
                 \/ InitTransport
                 \/ TransportsDone
                 \/ InitDemodulatorDeframer

FlowgraphSpec == FlowgraphInit /\ [][FlowgraphNext]_flowgraphVars

------------------------------------------------------------------------------
Built == stage = "done" /\ ~failed

From(blocks) == {c[2] : c \in {e \in connections : e[1] \in blocks}}

\* What a PDU reaches that block b publishes; from a deframer it is at most three
\* connections to a sink.
Reached(b) == LET one == From({b})
                  two == From(one)
              IN  one \cup two \cup From(two)

\* References that check_yaml() does not look up.
TransportsDefined ==
    \A x \in DOMAIN satyaml.transmitters :
        satyaml.transmitters[x].transports \subseteq DOMAIN satyaml.transports
TransportDataDefined ==
    \A t \in DOMAIN satyaml.transports : satyaml.transports[t] \subseteq DOMAIN satyaml.data
\* The additional data of a transmitter have a sink also with --hexdump.
AdditionalDataWanted ==
    \A x \in DOMAIN satyaml.transmitters :
        \A k \in satyaml.transmitters[x].additional_data \cap DOMAIN satyaml.data :
            Wanted(k)

\* A description that passes check_yaml() and has none of the mistakes it overlooks
\* gives a flowgraph, for every option.
CheckedDescriptionBuilds ==
    (TransportsDefined /\ TransportDataDefined /\ AdditionalDataWanted) => ~failed

\* Decoding samples, the frames of a transmitter reach the sinks its description
\* names and no other: those of its data, those of the data of its transports, and
\* everything the options ask for.  With --hexdump only sinks other than telemetry
\* get frames from the transmitter, and transports give theirs to nobody.
FramesReachDescribedSinks ==
    (Built /\ ~options.grc_block /\ ~options.pdu_in) =>
        \A x \in DOMAIN satyaml.transmitters :
            LET transmitter == satyaml.transmitters[x]
                direct      == {k \in transmitter.data : Wanted(k)}
                transported == IF options.hexdump THEN {}
                               ELSE UNION {satyaml.transports[t] : t \in transmitter.transports}
            IN  /\ Reached(Deframer(x)) \cap {Sink(k) : k \in DOMAIN satyaml.data}
                      = {Sink(k) : k \in direct \cup transported}
                /\ {OutputSink(s) : s \in additional_datasinks} \subseteq Reached(Deframer(x))
                /\ \A k \in transmitter.additional_data : Sink(k) \in Reached(AdditionalPort(x, k))
==============================================================================
