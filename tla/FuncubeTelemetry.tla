---------------------------- MODULE FuncubeTelemetry ----------------------------
(***************************************************************************)
(* python/telemetry/funcube.py: the telemetry parser of the FUNcube         *)
(* satellites.  The satellite keeps a record of its whole orbit, the same   *)
(* number of bytes each minute, and sends it in the payloads of the frames  *)
(* WO1 to WO12, which cut the records anywhere.  Frames get lost.           *)
(*                                                                          *)
(* A byte of the record is its orbit and its place there.                   *)
(***************************************************************************)
EXTENDS Integers, SequencesExt

CONSTANTS
    PAYLOAD_SIZE,       \* bytes of a payload (200 in the code)
    WHOLEORBIT_SIZE,    \* bytes of a record (23 in the code)
    WHOLEORBIT_MAX,     \* payloads of an orbit (12 in the code)
    MaxOrbits           \* bound: orbits the satellite sends

\* With the numbers of the code no payload ends where a record ends.
ASSUME SizesOfRecords ==
    /\ PAYLOAD_SIZE \in Nat /\ WHOLEORBIT_SIZE \in 1 .. PAYLOAD_SIZE
    /\ WHOLEORBIT_MAX \in Nat \ {0} /\ MaxOrbits \in Nat
    /\ \A c \in 1 .. WHOLEORBIT_MAX : (PAYLOAD_SIZE * c) % WHOLEORBIT_SIZE # 0

NoChunk == -1           \* None, before the first frame

VARIABLES
    chunks,         \* history: the frames sent, and whether they were received
    last_chunk,     \* number of the last frame parsed
    last_seq,       \* its orbit
    last_wo,        \* the bytes at its end that are not a whole record
    records         \* history: the records given, each a sequence of bytes

funcubeVars == <<chunks, last_chunk, last_seq, last_wo, records>>

FuncubeInit == /\ chunks = <<>>
               /\ last_chunk = NoChunk
               /\ last_seq = NoChunk
               /\ last_wo = <<>>
               /\ records = <<>>

------------------------------------------------------------------------------
\* The payload of a frame.
ChunkPayload(f) ==
    [i \in 1 .. PAYLOAD_SIZE |->
        [seq |-> f.seq, byte |-> PAYLOAD_SIZE * (f.chunk - 1) + i - 1]]

remaining(chunk) == (PAYLOAD_SIZE * chunk) % WHOLEORBIT_SIZE

\* Slips the properties must notice: the orbit is not compared; the number is one off.
ContinuesAnyOrbit(f) == last_chunk = f.chunk - 1

ContinuesSame(f) == last_chunk = f.chunk /\ last_seq = f.seq

\* The end of the last frame and this one are consecutive.
Continues(f) == last_chunk = f.chunk - 1 /\ last_seq = f.seq

\* Where the first whole record in the payload is taken to start.
BytesToSkip(f) == WHOLEORBIT_SIZE - remaining(f.chunk - 1)

\* The bytes of whole records.  The names of the frames count from 1, so that the
\* branch of the code for chunk 0 is never taken.
WholeOrbitBytes(f) ==
    LET payload == ChunkPayload(f)
        last    == PAYLOAD_SIZE - remaining(f.chunk)
    IN  IF Continues(f) THEN last_wo \o SubSeq(payload, 1, last)
        ELSE SubSeq(payload, BytesToSkip(f) + 1, last)

\* The parser asserts that these are whole records.
Records(wo) == [k \in 1 .. Len(wo) \div WHOLEORBIT_SIZE |->
                   SubSeq(wo, (k - 1) * WHOLEORBIT_SIZE + 1, k * WHOLEORBIT_SIZE)]

FuncubeParse(f) ==
    /\ records' = records \o Records(WholeOrbitBytes(f))
    /\ last_chunk' = f.chunk
    /\ last_wo' = SubSeq(ChunkPayload(f), PAYLOAD_SIZE - remaining(f.chunk) + 1, PAYLOAD_SIZE)
    /\ last_seq' = f.seq

\* The satellite sends the frames of one orbit after the other.
FuncubeFrame ==
    LET sent == Len(chunks)
        f    == [chunk |-> (sent % WHOLEORBIT_MAX) + 1, seq |-> (sent \div WHOLEORBIT_MAX) + 1]
    IN  /\ sent < MaxOrbits * WHOLEORBIT_MAX
        /\ \/ /\ chunks' = Append(chunks, [frame |-> f, received |-> TRUE])
              /\ FuncubeParse(f)
           \/ /\ chunks' = Append(chunks, [frame |-> f, received |-> FALSE])
              /\ UNCHANGED <<last_chunk, last_seq, last_wo, records>>

FuncubeNext == FuncubeFrame

FuncubeSpec == FuncubeInit /\ [][FuncubeNext]_funcubeVars

------------------------------------------------------------------------------
\* Record number n of an orbit, from 0 on.
Record(seq, n) == [i \in 1 .. WHOLEORBIT_SIZE |->
                      [seq |-> seq, byte |-> n * WHOLEORBIT_SIZE + i - 1]]

\* The records that lie in the chunks first to last.
RecordsWithin(first, last) ==
    {n \in 0 .. (PAYLOAD_SIZE * last) \div WHOLEORBIT_SIZE - 1 :
        n * WHOLEORBIT_SIZE >= PAYLOAD_SIZE * (first - 1)}

Given(seq, n) == \E k \in DOMAIN records : records[k] = Record(seq, n)

\* Whatever frames are lost, what is given are records as the satellite wrote them:
\* never the end of one with the beginning of another, and none twice.
RecordsAsWritten ==
    /\ \A k \in DOMAIN records :
          \E seq \in 1 .. MaxOrbits, n \in RecordsWithin(1, WHOLEORBIT_MAX) :
             records[k] = Record(seq, n)
    /\ IsInjective(records)

\* Two frames that follow each other give all the records that lie in both together
\* and end in the second.
SpanningRecordsGiven ==
    \A i \in DOMAIN chunks :
        LET f == chunks[i].frame
        IN  (f.chunk > 1 /\ chunks[i].received /\ chunks[i - 1].received)
                => \A n \in RecordsWithin(f.chunk - 1, f.chunk) \ RecordsWithin(f.chunk - 1, f.chunk - 1) :
                      Given(f.seq, n)

\* "This is a stateful parser that reassembles Whole Orbit data from consecutive
\* frames" (python/telemetry/funcube.py:514): when the frames WO1 to WOn of an orbit
\* have come, all records in them are given.
ConsecutiveFramesGiveAll ==
    \A i \in DOMAIN chunks :
        LET f == chunks[i].frame
        IN  (\A j \in i - f.chunk + 1 .. i : chunks[j].received)
                => \A n \in RecordsWithin(1, f.chunk) : Given(f.seq, n)
==============================================================================
