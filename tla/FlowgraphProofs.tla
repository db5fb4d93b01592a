--------------------------- MODULE FlowgraphProofs ---------------------------
(***************************************************************************)
(* For every description and every option: a description that passes        *)
(* check_yaml() fails in the constructor only by the mistakes that          *)
(* check_yaml() overlooks, and in a flowgraph that is built the frames of a *)
(* transmitter reach exactly the sinks its description names.               *)
(*                                                                          *)
(* The constructor looks names up in dictionaries it has filled in earlier  *)
(* stages.  So the invariant says what each stage finds filled: behind      *)
(* "data" every sink that is wanted, in "transmitters" every transport.     *)
(***************************************************************************)
EXTENDS Flowgraph, TLAPS

\* All the sinks that are wanted, and all the transports, have been made.
SinksMade == {k \in DOMAIN satyaml.data : Wanted(k)} \subseteq datasinks
TransportsMade == transports = DOMAIN satyaml.transports

\* The inductive invariant.
FilledInStages ==
    /\ check_yaml(satyaml)
    /\ options.grc_block \in BOOLEAN
    /\ stage \in {"data", "transports", "transmitters", "done"}
    /\ options.grc_block \/ stage = "data" \/ SinksMade
    /\ options.grc_block \/ stage # "transmitters" \/ TransportsMade
    /\ ~options.grc_block \/ stage \in {"transmitters", "done"}
    /\ CheckedDescriptionBuilds

\* No name is missing when a transport is connected to its sinks (_init_transport).
LEMMA TransportFindsSinks ==
    ASSUME FilledInStages, stage = "transports",
           TransportDataDefined, NEW t \in DOMAIN satyaml.transports
    PROVE  (IF options.hexdump THEN {} ELSE satyaml.transports[t]) \subseteq datasinks
  <1>1. CASE options.hexdump
    BY <1>1
  <1>2. CASE ~options.hexdump
    <2>1. SinksMade
      BY DEF FilledInStages
    <2>2. ASSUME NEW k \in satyaml.transports[t] PROVE k \in datasinks
      <3>1. k \in DOMAIN satyaml.data /\ Wanted(k)
        BY <1>2 DEF TransportDataDefined, Wanted
      <3> QED BY <2>1, <3>1 DEF SinksMade
    <2> QED BY <1>2, <2>2
  <1> QED BY <1>1, <1>2

\* No name is missing when a transmitter is connected (_connect_transmitter_to_data).
LEMMA TransmitterFindsNames ==
    ASSUME FilledInStages, stage = "transmitters", ~options.grc_block,
           TransportsDefined, AdditionalDataWanted, NEW x \in DOMAIN satyaml.transmitters
    PROVE  /\ satyaml.transmitters[x].transports \subseteq transports
           /\ satyaml.transmitters[x].additional_data \subseteq datasinks
  <1>1. SinksMade /\ TransportsMade
    BY DEF FilledInStages
  <1>2. satyaml.transmitters[x].transports \subseteq transports
    BY <1>1 DEF TransportsDefined, TransportsMade
  <1>3. ASSUME NEW k \in satyaml.transmitters[x].additional_data PROVE k \in datasinks
    <2>1. k \in DOMAIN satyaml.data
      BY DEF FilledInStages, check_yaml
    <2>2. Wanted(k)
      BY <2>1 DEF AdditionalDataWanted
    <2> QED BY <1>1, <2>1, <2>2 DEF SinksMade
  <1> QED BY <1>2, <1>3

\* Every description that passes check_yaml() and does not refer to transports or
\* transport data that are not there, nor to telemetry as additional data when frames
\* are dumped, makes a flowgraph (gr_satellites_flowgraph.__init__).
THEOREM CheckedBuilds == FlowgraphSpec => []CheckedDescriptionBuilds
  <1>1. FlowgraphInit => FilledInStages
    <2> SUFFICES ASSUME FlowgraphInit PROVE FilledInStages
      OBVIOUS
    <2>1. check_yaml(satyaml) /\ failed = FALSE
      BY DEF FlowgraphInit
    <2>2. options.grc_block \in BOOLEAN
      BY DEF FlowgraphInit, OptionsOfTool, OptionsOfGrc
    <2>3. stage = IF options.grc_block THEN "transmitters" ELSE "data"
      BY DEF FlowgraphInit
    <2> QED BY <2>1, <2>2, <2>3 DEF FilledInStages, CheckedDescriptionBuilds
  <1>2. FilledInStages /\ [FlowgraphNext]_flowgraphVars => FilledInStages'
    <2> SUFFICES ASSUME FilledInStages, [FlowgraphNext]_flowgraphVars PROVE FilledInStages'
      OBVIOUS
    <2> USE DEF FilledInStages
    <2>1. CASE InitDatasink
      BY <2>1 DEF InitDatasink, CheckedDescriptionBuilds, TransportsDefined,
                  TransportDataDefined, AdditionalDataWanted, Wanted
    <2>2. CASE InitAdditionalDatasinks
      BY <2>2 DEF InitAdditionalDatasinks, SinksMade, CheckedDescriptionBuilds,
                  TransportsDefined, TransportDataDefined, AdditionalDataWanted, Wanted
    <2>3. CASE InitTransport
      <3>1. PICK t \in DOMAIN satyaml.transports :
               Connect({<<Transport(t), Sink(k)>> :
                          k \in IF options.hexdump THEN {} ELSE satyaml.transports[t]},
                       ~((IF options.hexdump THEN {} ELSE satyaml.transports[t]) \subseteq datasinks))
        BY <2>3 DEF InitTransport
      <3>2. /\ stage = "transports" /\ ~failed
            /\ UNCHANGED <<satyaml, options, datasinks, stage>>
        BY <2>3 DEF InitTransport
      <3>3. TransportDataDefined => ~failed'
        BY <3>1, <3>2, TransportFindsSinks DEF Connect
      <3>4. CheckedDescriptionBuilds'
        BY <3>2, <3>3 DEF CheckedDescriptionBuilds, TransportDataDefined
      <3>5. SinksMade' <=> SinksMade
        BY <3>2 DEF SinksMade, Wanted
      <3> QED BY <3>2, <3>4, <3>5
    <2>4. CASE TransportsDone
      BY <2>4 DEF TransportsDone, SinksMade, TransportsMade, CheckedDescriptionBuilds,
                  TransportsDefined, TransportDataDefined, AdditionalDataWanted, Wanted
    <2>5. CASE InitDemodulatorDeframer
      <3>1. PICK x \in DOMAIN satyaml.transmitters :
               /\ ConnectTransmitterToData(x)
               /\ stage' \in {stage, "done"}
        BY <2>5 DEF InitDemodulatorDeframer
      <3>2. /\ stage = "transmitters" /\ ~failed
            /\ UNCHANGED <<satyaml, options, datasinks, transports>>
        BY <2>5 DEF InitDemodulatorDeframer
      <3>3. (TransportsDefined /\ AdditionalDataWanted) => ~failed'
        <4>1. CASE options.grc_block
          BY <3>1, <3>2, <4>1 DEF ConnectTransmitterToData, Connect
        <4>2. CASE ~options.grc_block
          BY <3>1, <3>2, <4>2, TransmitterFindsNames DEF ConnectTransmitterToData, Connect
        <4> QED BY <4>1, <4>2
      <3>4. CheckedDescriptionBuilds'
        BY <3>2, <3>3 DEF CheckedDescriptionBuilds, TransportsDefined, AdditionalDataWanted, Wanted
      <3>5. (SinksMade' <=> SinksMade) /\ (TransportsMade' <=> TransportsMade)
        BY <3>2 DEF SinksMade, TransportsMade, Wanted
      <3> QED BY <3>1, <3>2, <3>4, <3>5
    <2>6. CASE UNCHANGED flowgraphVars
      BY <2>6 DEF flowgraphVars, SinksMade, TransportsMade, CheckedDescriptionBuilds,
                  TransportsDefined, TransportDataDefined, AdditionalDataWanted, Wanted
    <2> QED BY <2>1, <2>2, <2>3, <2>4, <2>5, <2>6 DEF FlowgraphNext
  <1>3. FilledInStages => CheckedDescriptionBuilds
    BY DEF FilledInStages
  <1> QED BY <1>1, <1>2, <1>3, PTL DEF FlowgraphSpec
------------------------------------------------------------------------------
(***************************************************************************)
(* Where frames go.  The connections are those that the transports and the  *)
(* transmitters made so far call for, and no other (ConnectedAsDescribed).  *)
(* From a deframer a frame goes to its tagger, from there to sinks and      *)
(* transports, and from transports to sinks, which publish nothing.         *)
(***************************************************************************)
TransportData(t) == IF options.hexdump THEN {} ELSE satyaml.transports[t]

TransportEdge(t, a, b) == a = Transport(t) /\ \E k \in TransportData(t) : b = Sink(k)

TransmitterEdge(x, a, b) ==
    \/ a = Deframer(x) /\ b = Tagger(x)
    \/ /\ a = Tagger(x)
       /\ \/ \E s \in additional_datasinks : b = OutputSink(s)
          \/ \E k \in satyaml.transmitters[x].data \cap datasinks : b = Sink(k)
          \/ \E t \in satyaml.transmitters[x].transports : b = Transport(t)
    \/ \E k \in satyaml.transmitters[x].additional_data :
          \/ a = AdditionalPort(x, k) /\ b = AdditionalTagger(x, k)
          \/ a = AdditionalTagger(x, k) /\ b = Sink(k)

Edge(a, b) == \/ \E t \in transports : TransportEdge(t, a, b)
              \/ \E x \in deframers : TransmitterEdge(x, a, b)

ConnectedAsDescribed ==
    /\ \A e \in connections : e = <<e[1], e[2]>>
    /\ \A a, b : <<a, b>> \in connections <=> Edge(a, b)

\* What a name in use refers to has been made.
NamesFound ==
    /\ \A t \in transports : TransportData(t) \subseteq datasinks
    /\ \A x \in deframers : /\ satyaml.transmitters[x].transports \subseteq transports
                            /\ satyaml.transmitters[x].additional_data \subseteq datasinks

\* The tool decodes samples, and nothing has failed.
Decoding == ~options.grc_block /\ ~options.pdu_in /\ ~failed

\* The inductive invariant.
Wired ==
    Decoding =>
        /\ check_yaml(satyaml)
        /\ stage \in {"data", "transports", "transmitters", "done"}
        /\ datasinks \subseteq {k \in DOMAIN satyaml.data : Wanted(k)}
        /\ stage = "data" => transports = {} /\ deframers = {}
        /\ stage = "transports" => deframers = {}
        /\ stage # "data" => SinksMade
        /\ stage = "done" => deframers = DOMAIN satyaml.transmitters
        /\ ConnectedAsDescribed
        /\ NamesFound

\* The connections of a transport (_init_transport).
LEMMA TransportConnected ==
    ASSUME ConnectedAsDescribed, NEW t, transports' = transports \cup {t},
           connections' = connections \cup {<<Transport(t), Sink(k)>> : k \in TransportData(t)},
           UNCHANGED <<satyaml, options, datasinks, additional_datasinks, deframers>>
    PROVE  ConnectedAsDescribed'
  <1>1. \A e \in connections' : e = <<e[1], e[2]>>
    BY DEF ConnectedAsDescribed
  <1>2. ASSUME NEW a, NEW b
        PROVE  <<a, b>> \in {<<Transport(t), Sink(k)>> : k \in TransportData(t)}
                   <=> TransportEdge(t, a, b)
    BY DEF TransportEdge
  <1>3. ASSUME NEW a, NEW b PROVE Edge(a, b)' <=> Edge(a, b) \/ TransportEdge(t, a, b)
    <2>1. \A u : TransportEdge(u, a, b)' <=> TransportEdge(u, a, b)
      BY DEF TransportEdge, TransportData
    <2>2. \A x : TransmitterEdge(x, a, b)' <=> TransmitterEdge(x, a, b)
      BY DEF TransmitterEdge
    <2> QED BY <2>1, <2>2 DEF Edge
  <1>4. ASSUME NEW a, NEW b PROVE <<a, b>> \in connections' <=> Edge(a, b)'
    <2>1. <<a, b>> \in connections <=> Edge(a, b)
      BY DEF ConnectedAsDescribed
    <2> QED BY <1>2, <1>3, <2>1
  <1> QED BY <1>1, <1>4 DEF ConnectedAsDescribed

\* The connections of a transmitter (_connect_transmitter_to_data).
LEMMA TransmitterConnected ==
    ASSUME ConnectedAsDescribed, NEW x, deframers' = deframers \cup {x},
           connections' = connections \cup
               ({<<Deframer(x), Tagger(x)>>} \cup ToSinks(x) \cup ToAdditional(x)),
           UNCHANGED <<satyaml, options, datasinks, additional_datasinks, transports>>
    PROVE  ConnectedAsDescribed'
  <1> DEFINE new == {<<Deframer(x), Tagger(x)>>} \cup ToSinks(x) \cup ToAdditional(x)
  <1>1. ASSUME NEW e \in new PROVE e = <<e[1], e[2]>>
    BY DEF ToSinks, ToAdditional
  <1>2. \A e \in connections' : e = <<e[1], e[2]>>
    BY <1>1 DEF ConnectedAsDescribed
  <1>3. ASSUME NEW a, NEW b PROVE <<a, b>> \in new <=> TransmitterEdge(x, a, b)
    <2>1. <<a, b>> \in ToSinks(x) <=>
              /\ a = Tagger(x)
              /\ \/ \E s \in additional_datasinks : b = OutputSink(s)
                 \/ \E k \in satyaml.transmitters[x].data \cap datasinks : b = Sink(k)
                 \/ \E t \in satyaml.transmitters[x].transports : b = Transport(t)
      BY DEF ToSinks
    <2>2. <<a, b>> \in ToAdditional(x) <=>
              \E k \in satyaml.transmitters[x].additional_data :
                 \/ a = AdditionalPort(x, k) /\ b = AdditionalTagger(x, k)
                 \/ a = AdditionalTagger(x, k) /\ b = Sink(k)
      BY DEF ToAdditional
    <2>3. <<a, b>> \in {<<Deframer(x), Tagger(x)>>} <=> a = Deframer(x) /\ b = Tagger(x)
      OBVIOUS
    <2> QED BY <2>1, <2>2, <2>3 DEF TransmitterEdge
  <1>4. ASSUME NEW a, NEW b PROVE Edge(a, b)' <=> Edge(a, b) \/ TransmitterEdge(x, a, b)
    <2>1. \A t : TransportEdge(t, a, b)' <=> TransportEdge(t, a, b)
      BY DEF TransportEdge, TransportData
    <2>2. \A y : TransmitterEdge(y, a, b)' <=> TransmitterEdge(y, a, b)
      BY DEF TransmitterEdge
    <2> QED BY <2>1, <2>2 DEF Edge
  <1>5. ASSUME NEW a, NEW b PROVE <<a, b>> \in connections' <=> Edge(a, b)'
    <2>1. <<a, b>> \in connections <=> Edge(a, b)
      BY DEF ConnectedAsDescribed
    <2> QED BY <1>3, <1>4, <2>1
  <1> QED BY <1>2, <1>5 DEF ConnectedAsDescribed

\* A connection leads from one block of a set to what From() gives.
LEMMA FromEdges ==
    ASSUME ConnectedAsDescribed, NEW S, NEW b
    PROVE  b \in From(S) <=> \E a \in S : Edge(a, b)
  <1>1. ASSUME b \in From(S) PROVE \E a \in S : Edge(a, b)
    <2>1. PICK e \in connections : e[1] \in S /\ b = e[2]
      BY <1>1 DEF From
    <2>2. <<e[1], b>> \in connections
      BY <2>1 DEF ConnectedAsDescribed
    <2> QED BY <2>1, <2>2 DEF ConnectedAsDescribed
  <1>2. ASSUME NEW a \in S, Edge(a, b) PROVE b \in From(S)
    <2>1. <<a, b>> \in connections
      BY <1>2 DEF ConnectedAsDescribed
    <2>2. <<a, b>>[1] = a /\ <<a, b>>[2] = b
      OBVIOUS
    <2> QED BY <2>1, <2>2 DEF From
  <1> QED BY <1>1, <1>2

\* The constructor keeps Wired.
LEMMA WiredStep == ASSUME Wired, [FlowgraphNext]_flowgraphVars PROVE Wired'
  <1> SUFFICES ASSUME Decoding' PROVE Wired'
    BY DEF Wired
  <1>1. UNCHANGED <<satyaml, options>>
    BY DEF FlowgraphNext, InitDatasink, InitAdditionalDatasinks, InitTransport,
           TransportsDone, InitDemodulatorDeframer, flowgraphVars
  <1>2. \A k : Wanted(k)' <=> Wanted(k)
    BY <1>1 DEF Wanted
  <1>3. SUFFICES ASSUME Decoding PROVE Wired'
    <2>1. failed => failed'
      BY DEF FlowgraphNext, InitDatasink, InitAdditionalDatasinks, InitTransport,
             TransportsDone, InitDemodulatorDeframer, flowgraphVars
    <2> QED BY <1>1, <2>1 DEF Decoding
  <1>4. /\ check_yaml(satyaml)
        /\ stage \in {"data", "transports", "transmitters", "done"}
        /\ datasinks \subseteq {k \in DOMAIN satyaml.data : Wanted(k)}
        /\ stage = "data" => transports = {} /\ deframers = {}
        /\ stage = "transports" => deframers = {}
        /\ stage # "data" => SinksMade
        /\ stage = "done" => deframers = DOMAIN satyaml.transmitters
        /\ ConnectedAsDescribed
        /\ NamesFound
    BY <1>3 DEF Wired
  <1>5. ASSUME UNCHANGED <<connections, transports, deframers>>,
               (transports = {} /\ deframers = {}) \/ UNCHANGED <<datasinks, additional_datasinks>>
        PROVE  ConnectedAsDescribed' /\ NamesFound'
    <2>1. ASSUME NEW a, NEW b PROVE Edge(a, b)' <=> Edge(a, b)
      <3>1. CASE transports = {} /\ deframers = {}
        BY <1>5, <3>1 DEF Edge
      <3>2. CASE UNCHANGED <<datasinks, additional_datasinks>>
        BY <1>1, <1>5, <3>2 DEF Edge, TransportEdge, TransportData, TransmitterEdge
      <3> QED BY <1>5, <3>1, <3>2
    <2>2. ConnectedAsDescribed'
      BY <1>4, <1>5, <2>1 DEF ConnectedAsDescribed
    <2>3. NamesFound'
      BY <1>1, <1>4, <1>5 DEF NamesFound, TransportData
    <2> QED BY <2>2, <2>3
  <1>6. CASE InitDatasink
    <2>1. /\ stage = "data" /\ stage' = "data"
          /\ UNCHANGED <<connections, transports, deframers>>
      BY <1>6 DEF InitDatasink
    <2>2. datasinks' \subseteq {k \in DOMAIN satyaml.data : Wanted(k)}
      BY <1>4, <1>6 DEF InitDatasink
    <2>3. transports = {} /\ deframers = {}
      BY <1>4, <2>1
    <2>4. ConnectedAsDescribed' /\ NamesFound'
      BY <1>5, <2>1, <2>3
    <2> QED BY <1>1, <1>2, <1>4, <2>1, <2>2, <2>3, <2>4 DEF Wired
  <1>7. CASE InitAdditionalDatasinks
    <2>1. /\ stage = "data" /\ stage' = "transports"
          /\ {k \in DOMAIN satyaml.data : Wanted(k)} \subseteq datasinks
          /\ UNCHANGED <<connections, transports, deframers, datasinks>>
      BY <1>7 DEF InitAdditionalDatasinks
    <2>2. transports = {} /\ deframers = {}
      BY <1>4, <2>1
    <2>3. ConnectedAsDescribed' /\ NamesFound'
      BY <1>5, <2>1, <2>2
    <2>4. SinksMade'
      BY <1>1, <1>2, <2>1 DEF SinksMade
    <2> QED BY <1>1, <1>2, <1>4, <2>1, <2>2, <2>3, <2>4 DEF Wired
  <1>8. CASE InitTransport
    <2>1. PICK t \in DOMAIN satyaml.transports :
              /\ transports' = transports \cup {t}
              /\ Connect({<<Transport(t), Sink(k)>> : k \in TransportData(t)},
                         ~(TransportData(t) \subseteq datasinks))
      BY <1>8 DEF InitTransport, TransportData
    <2>2. /\ stage = "transports" /\ stage' = stage
          /\ UNCHANGED <<datasinks, additional_datasinks, deframers>>
      BY <1>8 DEF InitTransport
    <2>3. /\ TransportData(t) \subseteq datasinks
          /\ connections' = connections \cup {<<Transport(t), Sink(k)>> : k \in TransportData(t)}
      BY <2>1 DEF Connect, Decoding
    <2>4. ConnectedAsDescribed'
      BY <1>1, <1>4, <2>1, <2>2, <2>3, TransportConnected
    <2>5. NamesFound'
      BY <1>1, <1>4, <2>1, <2>2, <2>3 DEF NamesFound, TransportData
    <2>6. SinksMade'
      BY <1>1, <1>2, <1>4, <2>2 DEF SinksMade
    <2> QED BY <1>1, <1>2, <1>4, <2>2, <2>4, <2>5, <2>6 DEF Wired
  <1>9. CASE TransportsDone
    <2>1. /\ stage = "transports" /\ stage' = "transmitters"
          /\ UNCHANGED <<connections, transports, deframers, datasinks, additional_datasinks>>
      BY <1>3, <1>9 DEF TransportsDone, Decoding
    <2>2. ConnectedAsDescribed' /\ NamesFound'
      BY <1>5, <2>1
    <2>3. SinksMade'
      BY <1>1, <1>2, <1>4, <2>1 DEF SinksMade
    <2> QED BY <1>1, <1>2, <1>4, <2>1, <2>2, <2>3 DEF Wired
  <1>10. CASE InitDemodulatorDeframer
    <2>1. PICK x \in DOMAIN satyaml.transmitters :
              /\ deframers' = deframers \cup {x}
              /\ ConnectTransmitterToData(x)
              /\ stage' = IF deframers' = DOMAIN satyaml.transmitters THEN "done" ELSE stage
      BY <1>10 DEF InitDemodulatorDeframer
    <2>2. /\ stage = "transmitters" /\ stage' \in {"transmitters", "done"}
          /\ UNCHANGED <<datasinks, additional_datasinks, transports>>
      BY <1>10 DEF InitDemodulatorDeframer
    <2>3. /\ connections' = connections \cup
                 ({<<Deframer(x), Tagger(x)>>} \cup ToSinks(x) \cup ToAdditional(x))
          /\ satyaml.transmitters[x].transports \subseteq transports
          /\ satyaml.transmitters[x].additional_data \subseteq datasinks
      BY <1>3, <2>1 DEF ConnectTransmitterToData, Connect, Decoding
    <2>4. ConnectedAsDescribed'
      BY <1>1, <1>4, <2>1, <2>2, <2>3, TransmitterConnected
    <2>5. NamesFound'
      BY <1>1, <1>4, <2>1, <2>2, <2>3 DEF NamesFound, TransportData
    <2>6. SinksMade'
      BY <1>1, <1>2, <1>4, <2>2 DEF SinksMade
    <2>7. stage' = "done" => deframers' = DOMAIN satyaml.transmitters'
      BY <1>1, <2>1, <2>2
    <2> QED BY <1>1, <1>2, <1>4, <2>2, <2>4, <2>5, <2>6, <2>7 DEF Wired
  <1>11. CASE UNCHANGED flowgraphVars
    BY <1>2, <1>4, <1>5, <1>11 DEF flowgraphVars, Wired, SinksMade
  <1> QED BY <1>6, <1>7, <1>8, <1>9, <1>10, <1>11 DEF FlowgraphNext

\* Where the frames of one transmitter go.
LEMMA ReachedFromDeframer ==
    ASSUME ConnectedAsDescribed, NamesFound, NEW x \in deframers
    PROVE  LET transmitter == satyaml.transmitters[x]
           IN  Reached(Deframer(x)) =
                  {Tagger(x)} \cup {OutputSink(s) : s \in additional_datasinks}
                     \cup {Sink(k) : k \in transmitter.data \cap datasinks}
                     \cup {Transport(t) : t \in transmitter.transports}
                     \cup UNION {{Sink(k) : k \in TransportData(t)} : t \in transmitter.transports}
  <1> DEFINE transmitter == satyaml.transmitters[x]
             two == {OutputSink(s) : s \in additional_datasinks}
                        \cup {Sink(k) : k \in transmitter.data \cap datasinks}
                        \cup {Transport(t) : t \in transmitter.transports}
             three == UNION {{Sink(k) : k \in TransportData(t)} : t \in transmitter.transports}
  <1>1. \A b : Edge(Deframer(x), b) <=> b = Tagger(x)
    BY DEF Edge, TransportEdge, TransmitterEdge, Deframer, Tagger, Transport,
           AdditionalPort, AdditionalTagger
  <1>2. From({Deframer(x)}) = {Tagger(x)}
    BY <1>1, FromEdges
  <1>3. \A b : Edge(Tagger(x), b) <=> b \in two
    BY DEF Edge, TransportEdge, TransmitterEdge, Deframer, Tagger, Transport,
           AdditionalPort, AdditionalTagger
  <1>4. From({Tagger(x)}) = two
    BY <1>3, FromEdges
  <1>5. \A k, b : ~Edge(Sink(k), b) /\ ~Edge(OutputSink(k), b)
    BY DEF Edge, TransportEdge, TransmitterEdge, Deframer, Tagger, Transport,
           AdditionalPort, AdditionalTagger, Sink, OutputSink
  <1>6. \A t \in transports : \A b : Edge(Transport(t), b) <=> (\E k \in TransportData(t) : b = Sink(k))
    BY DEF Edge, TransportEdge, TransmitterEdge, Deframer, Tagger, Transport,
           AdditionalPort, AdditionalTagger
  <1>7. transmitter.transports \subseteq transports
    BY DEF NamesFound
  <1>8. From(two) = three
    <2>1. ASSUME NEW b PROVE (\E a \in two : Edge(a, b)) <=> b \in three
      <3>1. (\E a \in two : Edge(a, b)) <=> \E t \in transmitter.transports : Edge(Transport(t), b)
        BY <1>5
      <3>2. (\E t \in transmitter.transports : Edge(Transport(t), b)) <=> b \in three
        BY <1>6, <1>7
      <3> QED BY <3>1, <3>2
    <2> QED BY <2>1, FromEdges
  <1> HIDE DEF two, three
  <1>9. Reached(Deframer(x)) = {Tagger(x)} \cup two \cup three
    BY <1>2, <1>4, <1>8 DEF Reached
  <1> QED BY <1>9 DEF two, three

\* The frames of every transmitter reach exactly the sinks that its description names
\* (gr_satellites_flowgraph.__init__, _init_transport, _connect_transmitter_to_data).
THEOREM FramesReachSinks == FlowgraphSpec => []FramesReachDescribedSinks
  <1>1. FlowgraphInit => Wired
    <2> SUFFICES ASSUME FlowgraphInit, ~options.grc_block PROVE Wired
      BY DEF Wired, Decoding
    <2>1. /\ check_yaml(satyaml) /\ stage = "data" /\ datasinks = {} /\ transports = {}
          /\ deframers = {} /\ connections = {}
      BY DEF FlowgraphInit
    <2>2. ConnectedAsDescribed /\ NamesFound
      BY <2>1 DEF ConnectedAsDescribed, NamesFound, Edge
    <2> QED BY <2>1, <2>2 DEF Wired
  <1>2. Wired /\ [FlowgraphNext]_flowgraphVars => Wired'
    BY WiredStep
  <1>3. Wired => FramesReachDescribedSinks
    <2> SUFFICES ASSUME Wired, Built, ~options.grc_block, ~options.pdu_in,
                        NEW x \in DOMAIN satyaml.transmitters
                 PROVE  LET transmitter == satyaml.transmitters[x]
                            direct      == {k \in transmitter.data : Wanted(k)}
                            transported == IF options.hexdump THEN {}
                                           ELSE UNION {satyaml.transports[t] : t \in transmitter.transports}
                        IN  /\ Reached(Deframer(x)) \cap {Sink(k) : k \in DOMAIN satyaml.data}
                                  = {Sink(k) : k \in direct \cup transported}
                            /\ {OutputSink(s) : s \in additional_datasinks} \subseteq Reached(Deframer(x))
                            /\ \A k \in transmitter.additional_data : Sink(k) \in Reached(AdditionalPort(x, k))
      BY DEF FramesReachDescribedSinks
    <2> DEFINE transmitter == satyaml.transmitters[x]
               direct      == {k \in transmitter.data : Wanted(k)}
               transported == IF options.hexdump THEN {}
                              ELSE UNION {satyaml.transports[t] : t \in transmitter.transports}
    <2>1. /\ check_yaml(satyaml) /\ x \in deframers /\ ConnectedAsDescribed /\ NamesFound
          /\ datasinks = {k \in DOMAIN satyaml.data : Wanted(k)}
      BY DEF Wired, Decoding, Built, SinksMade
    <2>2. /\ direct = transmitter.data \cap datasinks
          /\ transmitter.data \subseteq DOMAIN satyaml.data
      BY <2>1 DEF check_yaml
    <2>3. /\ transported = UNION {TransportData(t) : t \in transmitter.transports}
          /\ transported \subseteq DOMAIN satyaml.data
      <3>1. transported = UNION {TransportData(t) : t \in transmitter.transports}
        BY DEF TransportData
      <3>2. \A t \in transmitter.transports : TransportData(t) \subseteq datasinks
        BY <2>1 DEF NamesFound
      <3> QED BY <2>1, <3>1, <3>2
    <2>4. Reached(Deframer(x)) =
              {Tagger(x)} \cup {OutputSink(s) : s \in additional_datasinks}
                 \cup {Sink(k) : k \in direct}
                 \cup {Transport(t) : t \in transmitter.transports}
                 \cup UNION {{Sink(k) : k \in TransportData(t)} : t \in transmitter.transports}
      BY <2>1, <2>2, ReachedFromDeframer
    <2> HIDE DEF direct, transported
    <2>5. Reached(Deframer(x)) \cap {Sink(k) : k \in DOMAIN satyaml.data}
              = {Sink(k) : k \in direct \cup transported}
      <3>1. UNION {{Sink(k) : k \in TransportData(t)} : t \in transmitter.transports}
                = {Sink(k) : k \in transported}
        BY <2>3
      <3>2. \A k, l : /\ Sink(k) # Tagger(x) /\ Sink(k) # OutputSink(l) /\ Sink(k) # Transport(l)
        BY DEF Sink, Tagger, OutputSink, Transport
      <3>3. direct \cup transported \subseteq DOMAIN satyaml.data
        BY <2>2, <2>3
      <3> QED BY <2>4, <3>1, <3>2, <3>3
    <2>6. {OutputSink(s) : s \in additional_datasinks} \subseteq Reached(Deframer(x))
      BY <2>4
    <2>7. ASSUME NEW k \in transmitter.additional_data
          PROVE  Sink(k) \in Reached(AdditionalPort(x, k))
      <3>1. /\ Edge(AdditionalPort(x, k), AdditionalTagger(x, k))
            /\ Edge(AdditionalTagger(x, k), Sink(k))
        BY <2>1 DEF Edge, TransmitterEdge
      <3>2. AdditionalTagger(x, k) \in From({AdditionalPort(x, k)})
        BY <2>1, <3>1, FromEdges
      <3>3. Sink(k) \in From(From({AdditionalPort(x, k)}))
        BY <2>1, <3>1, <3>2, FromEdges
      <3> QED BY <3>3 DEF Reached
    <2> QED BY <2>5, <2>6, <2>7 DEF direct, transported
  <1> QED BY <1>1, <1>2, <1>3, PTL DEF FlowgraphSpec
==============================================================================
