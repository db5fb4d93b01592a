---------------------------- MODULE MobitexDeframer ----------------------------
(***************************************************************************)
(* python/components/deframers/mobitex_deframer.py: the blocks behind the   *)
(* syncword detector.                                                       *)
(*                                                                          *)
(*   to_blocks -> ... -> fec -> crc --> crc_ok   --> reframer               *)
(*                              crc --> crc_fail --> reframer               *)
(*                                                                          *)
(* Everything up to the CRC keeps the order of the data blocks and is one   *)
(* queue.  The CRC block publishes a data block on one of two ports; each   *)
(* port has a pdu_set block, with a thread of its own, and both of these    *)
(* send to the reframer.                                                    *)
(*                                                                          *)
(* The reframer (python/tubix20_reframer.py) puts the data blocks of a      *)
(* frame back together.  A data block is a record: the frame it was sent in *)
(* (its content), its block_id, whether its CRC was valid and, on block 0,  *)
(* num_blocks and the frame header, which the frame stands for.  self.tags  *)
(* always has the keys of self.blocks, so blocks stands for both.           *)
(***************************************************************************)
EXTENDS Naturals, FiniteSets, SequencesExt

(* tubix20_reframer.py *)

CONSTANT NoHeader           \* frame_header is None

\* Headers stand for frames, which are numbered.
ASSUME NoHeaderAssumption == NoHeader \notin Nat

VARIABLES
    num_blocks_expected,
    frame_header,           \* the frame whose header was stored, or NoHeader
    blocks,                 \* from block ids to data blocks
    published,              \* frames published so far, oldest first
    failed                  \* handle_msg has raised KeyError

reframerVars == <<num_blocks_expected, frame_header, blocks, published, failed>>

NoBlocks == [id \in {} |-> NoHeader]

ReframerInit == /\ num_blocks_expected = 0
                /\ frame_header = NoHeader
                /\ blocks = NoBlocks
                /\ published = <<>>
                /\ failed = FALSE

\* A slip: nothing is forgotten.
reset_nothing(expected, header, stored) ==
    /\ num_blocks_expected' = expected
    /\ frame_header' = header
    /\ blocks' = stored

reset(expected, header, stored) ==
    /\ num_blocks_expected' = 0
    /\ frame_header' = NoHeader
    /\ blocks' = NoBlocks

\* A slip: the bits of the blocks that are fine are set.
error_code_inverted(stored) == {id \in DOMAIN stored : stored[id].crc_valid}

\* The block ids of the error marker, and the blocks that are fine.
error_code(stored) == {id \in DOMAIN stored : ~ stored[id].crc_valid}
num_blocks_correct(stored) == Cardinality({id \in DOMAIN stored : stored[id].crc_valid})

\* Blocks 0 .. n-1 are appended to the frame; a missing one raises KeyError.
prepare_frame(header, stored) ==
    [header |-> header,
     blocks |-> [i \in 1 .. Cardinality(DOMAIN stored) |-> stored[i - 1]],
     error_code |-> error_code(stored)]

MissingBlock(stored) ==
    \E i \in 0 .. Cardinality(DOMAIN stored) - 1 : i \notin DOMAIN stored

\* Only frames with a correct data block are forwarded.
publish_frame(header, stored) ==
    IF num_blocks_correct(stored) < 1
    THEN UNCHANGED <<published, failed>>
    ELSE /\ failed' = MissingBlock(stored)
         /\ published' = IF failed' THEN published
                         ELSE Append(published, prepare_frame(header, stored))

\* Block 0 starts afresh: whatever the reframer holds then is discarded.
Kept(b) == IF b.block_id = 0 THEN NoBlocks ELSE blocks

Stored(b) == [id \in {b.block_id} \cup DOMAIN Kept(b) |->
                 IF id = b.block_id THEN b ELSE Kept(b)[id]]

\* A slip: the header of the first frame stays.
HeaderKept(b) == IF b.block_id = 0 /\ frame_header = NoHeader THEN b.frame ELSE frame_header

Expected(b) == IF b.block_id = 0 THEN b.num_blocks ELSE num_blocks_expected
Header(b)   == IF b.block_id = 0 THEN b.frame ELSE frame_header

\* A slip: one block more is waited for.
CompleteLate(b, stored) == /\ b.block_id = Expected(b)
                           /\ Cardinality(DOMAIN stored) = Expected(b)
                           /\ Header(b) # NoHeader

\* The last block of the frame has come and the count is right.
Complete(b, stored) == /\ b.block_id + 1 = Expected(b)
                       /\ Cardinality(DOMAIN stored) = Expected(b)
                       /\ Header(b) # NoHeader

handle_msg(b) ==
    LET stored == Stored(b)
    IN  /\ ~ failed
        /\ IF Complete(b, stored)
           THEN /\ publish_frame(Header(b), stored)
                /\ reset(Expected(b), Header(b), stored)
           ELSE /\ num_blocks_expected' = Expected(b)
                /\ frame_header' = Header(b)
                /\ blocks' = stored
                /\ UNCHANGED <<published, failed>>

------------------------------------------------------------------------------
(* mobitex_deframer.py *)

CONSTANTS
    BlockCounts,        \* numbers of blocks a frame may announce
    MaxMobitexFrames    \* bound: frames received

ASSUME BlockCountsAssumption == BlockCounts \subseteq 1 .. 32

VARIABLES
    mobitex_sent,   \* for each frame received, the CRC outcomes of its blocks
    to_crc,         \* data blocks on their way to the CRC block
    to_crc_ok,      \* waiting at the port of crc_ok
    to_crc_fail,    \* waiting at the port of crc_fail
    to_reframer     \* waiting at the port of the reframer

queues == <<to_crc, to_crc_ok, to_crc_fail, to_reframer>>
mobitexVars == <<num_blocks_expected, frame_header, blocks, published, failed,
                 mobitex_sent, to_crc, to_crc_ok, to_crc_fail, to_reframer>>

MobitexInit == /\ ReframerInit
               /\ mobitex_sent = <<>>
               /\ to_crc = <<>>
               /\ to_crc_ok = <<>>
               /\ to_crc_fail = <<>>
               /\ to_reframer = <<>>

------------------------------------------------------------------------------
\* The data blocks of frame f, whose CRCs will turn out as in outcomes.
DataBlocks(f, outcomes) ==
    [i \in 1 .. Len(outcomes) |->
        [frame |-> f, block_id |-> i - 1, num_blocks |-> Len(outcomes),
         crc_valid |-> outcomes[i]]]

\* mobitex_to_datablocks publishes all the blocks of a frame in one handler call.
PublishDatablocks ==
    /\ Len(mobitex_sent) < MaxMobitexFrames
    /\ \E n \in BlockCounts : \E outcomes \in [1 .. n -> BOOLEAN] :
          /\ mobitex_sent' = Append(mobitex_sent, outcomes)
          /\ to_crc' = to_crc \o DataBlocks(Len(mobitex_sent) + 1, outcomes)
    /\ UNCHANGED <<reframerVars, to_crc_ok, to_crc_fail, to_reframer>>

\* crc_check publishes a block on its port ok or on its port fail.
CheckBlock ==
    /\ to_crc # <<>>
    /\ to_crc' = Tail(to_crc)
    /\ LET b == Head(to_crc)
       IN  \/ /\ b.crc_valid
              /\ to_crc_ok' = Append(to_crc_ok, b)
              /\ UNCHANGED to_crc_fail
           \/ /\ ~ b.crc_valid
              /\ to_crc_fail' = Append(to_crc_fail, b)
              /\ UNCHANGED to_crc_ok
    /\ UNCHANGED <<reframerVars, mobitex_sent, to_reframer>>

\* The pdu_set blocks set crc_valid and pass the block on.
SetCrcOk == /\ to_crc_ok # <<>>
            /\ to_crc_ok' = Tail(to_crc_ok)
            /\ to_reframer' = Append(to_reframer, Head(to_crc_ok))
            /\ UNCHANGED <<reframerVars, mobitex_sent, to_crc, to_crc_fail>>

SetCrcFail == /\ to_crc_fail # <<>>
              /\ to_crc_fail' = Tail(to_crc_fail)
              /\ to_reframer' = Append(to_reframer, Head(to_crc_fail))
              /\ UNCHANGED <<reframerVars, mobitex_sent, to_crc, to_crc_ok>>

Reframe == /\ to_reframer # <<>>
           /\ to_reframer' = Tail(to_reframer)
           /\ handle_msg(Head(to_reframer))
           /\ UNCHANGED <<mobitex_sent, to_crc, to_crc_ok, to_crc_fail>>

MobitexNext == PublishDatablocks \/ CheckBlock \/ SetCrcOk \/ SetCrcFail \/ Reframe

MobitexSpec == MobitexInit /\ [][MobitexNext]_mobitexVars

------------------------------------------------------------------------------
\* The CRCs of all the blocks received so far are valid.
AllValid == \A f \in DOMAIN mobitex_sent : \A i \in DOMAIN mobitex_sent[f] : mobitex_sent[f][i]

\* The frame that must come out for frame f.
WholeFrame(f) == [header |-> f, blocks |-> DataBlocks(f, mobitex_sent[f]), error_code |-> {}]

\* With perfect reception frames come out whole and in the order they came in, and no
\* block is ever missing: only one of the two paths is used, and the reframer starts
\* afresh in time.
PerfectReceptionInOrder ==
    AllValid => /\ ~ failed
                /\ \A i \in DOMAIN published :
                      i \in DOMAIN mobitex_sent /\ published[i] = WholeFrame(i)

\* And every frame does come out.
PerfectReceptionComplete == (AllValid /\ mobitex_sent # <<>>) ~> (~ AllValid \/ Len(published) = Len(mobitex_sent))

\* However the two paths race, a frame that is forwarded has the header of the
\* frame its block 0 came from.
HeaderOfBlockZero == \A i \in DOMAIN published :
                        published[i].blocks[1].frame = published[i].header

\* However the two paths race, no data block is forwarded twice.
BlockForwardedOnce ==
    \A i, j \in DOMAIN published :
        i # j => ToSet(published[i].blocks) \cap ToSet(published[j].blocks) = {}

\* What the documentation of the reframer asks of its input
\* (python/tubix20_reframer.py:22): the first PDU of a frame, the one that finds
\* the reframer without blocks, has the tags that only block 0 has.
FirstPduIsBlockZero ==
    [][(to_reframer # <<>> /\ blocks = NoBlocks /\ to_reframer' = Tail(to_reframer))
         => Head(to_reframer).block_id = 0]_mobitexVars
==============================================================================
