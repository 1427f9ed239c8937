--------------------------- MODULE PipelineProofs ---------------------------
(***************************************************************************)
(* Proofs about DeltaPipeline, for every capacity, limit and delay, and    *)
(* after them about StreamActor, for every capacity of its two channels.   *)
(***************************************************************************)
EXTENDS StreamActor, SequenceTheorems, TLAPS

-----------------------------------------------------------------------------
(***************************************************************************)
(* The range of the constants and of what a producer may send.             *)
(***************************************************************************)
LEMMA Constants ==
  /\ Capacity \in Nat \ {0} /\ LocalMax \in Nat \ {0}
  /\ MaxBytes \in Nat \ {0} /\ MaxDelay \in Nat \ {0}
  /\ MaxDeltas \in Nat \ {0} /\ MaxChanges \in Nat
  /\ Policies \subseteq Policy /\ Gates \subseteq BOOLEAN
BY PipelineAssumption

(***************************************************************************)
(* A delta is a text.                                                      *)
(***************************************************************************)
LEMMA DeltaType ==
  ASSUME sent \in 0..MaxDeltas, sent < MaxDeltas, NEW delta \in Delta
  PROVE  delta \in Text
<1>1. sent + 1 \in 1..MaxDeltas
  BY Constants
<1>2. CASE delta = <<>>
  BY <1>2 DEF Text
<1>3. CASE delta # <<>>
  <2>1. PICK b \in BOOLEAN : delta = <<[no |-> sent + 1, newline |-> b]>>
    BY <1>3 DEF Delta
  <2>2. [no |-> sent + 1, newline |-> b] \in Piece
    BY <1>1, <2>1 DEF Piece
  <2> QED
    BY <2>1, <2>2 DEF Text
<1> QED
  BY <1>2, <1>3

-----------------------------------------------------------------------------
(***************************************************************************)
(* The type of what the sender's side changes, and of what the receiver's  *)
(* side changes.                                                           *)
(***************************************************************************)
Sends == [text : Text, flush : BOOLEAN]

SenderType ==
  /\ policy \in Policy
  /\ local \in Text
  /\ sending \in Seq(Sends) /\ Len(sending) <= 1
  /\ senderOpen \in BOOLEAN
  /\ sent \in 0..MaxDeltas
  /\ accepted \in Text

ChannelType ==
  /\ channel \in Seq(Text) /\ Len(channel) <= Capacity
  /\ receiverOpen \in BOOLEAN

ReceiverType ==
  /\ opts \in [flush_on_newline : BOOLEAN, changes : 0..MaxChanges]
  /\ call \in {"idle", "first", "loop", "closed"}
  /\ buf \in Text
  /\ deadline \in {NoDeadline} \cup 0..MaxDelay
  /\ merged \in Nat /\ gathered \in Nat /\ waited \in Nat
  /\ chunk \in [reason : {"none", "MaxBytes", "Newline", "MaxDelay",
                          "ChannelClosed"},
                merged : Nat, messages : Nat]
  /\ delivered \in Text

(***************************************************************************)
(* The type of the pipeline is that of its three parts.                    *)
(***************************************************************************)
LEMMA TypeParts == PipelineTypeOK <=> SenderType /\ ChannelType /\ ReceiverType
BY DEF PipelineTypeOK, Sends, SenderType, ChannelType, ReceiverType

(***************************************************************************)
(* Texts are closed under concatenation.                                   *)
(***************************************************************************)
LEMMA Concatenation ==
  ASSUME NEW s \in Text, NEW t \in Text
  PROVE  s \o t \in Text
BY ConcatProperties DEF Text

(***************************************************************************)
(* Concatenation is associative.                                           *)
(***************************************************************************)
LEMMA Regrouped ==
  ASSUME NEW s \in Text, NEW t \in Text, NEW u \in Text
  PROVE  s \o (t \o u) = (s \o t) \o u
<1>1. s \in Seq(Piece) /\ t \in Seq(Piece) /\ u \in Seq(Piece)
  BY DEF Text
<1> QED
  BY <1>1, ConcatAssociative

(***************************************************************************)
(* A sequence that is not empty has a length of at least 1.                *)
(***************************************************************************)
LEMMA NotEmpty ==
  ASSUME NEW S, NEW s \in Seq(S), s # <<>>
  PROVE  Len(s) \in Nat \ {0}
BY EmptySeq

(***************************************************************************)
(* The one send under way has a text.                                      *)
(***************************************************************************)
LEMMA SendingText ==
  ASSUME SenderType, sending # <<>>
  PROVE  /\ Len(sending) = 1
         /\ sending[1].text \in Text /\ sending[1].flush \in BOOLEAN
<1>1. Len(sending) = 1
  <2>1. sending \in Seq(Sends)
    BY DEF SenderType
  <2>2. Len(sending) \in Nat \ {0}
    BY <2>1, NotEmpty
  <2>3. Len(sending) <= 1
    BY DEF SenderType
  <2> QED
    BY <2>2, <2>3
<1>2. sending[1] \in Sends
  <2>1. sending \in Seq(Sends)
    BY DEF SenderType
  <2> QED
    BY <1>1, <2>1, ElementOfSeq
<1> QED
  BY <1>1, <1>2 DEF Sends

(***************************************************************************)
(* A message that fits keeps the type of the channel.                      *)
(***************************************************************************)
LEMMA PutType ==
  ASSUME ChannelType, HasRoom, NEW text \in Text
  PROVE  /\ Append(channel, text) \in Seq(Text)
         /\ Len(Append(channel, text)) <= Capacity
BY Constants, AppendProperties DEF ChannelType, HasRoom

(***************************************************************************)
(* So does one that is taken.                                              *)
(***************************************************************************)
LEMMA TakeType ==
  ASSUME ChannelType, channel # <<>>
  PROVE  /\ Head(channel) \in Text
         /\ Tail(channel) \in Seq(Text)
         /\ Len(Tail(channel)) = Len(channel) - 1
         /\ Len(channel) > 0
BY HeadTailProperties, EmptySeq DEF ChannelType

(***************************************************************************)
(* A step of the sender keeps the types and leaves the receiver alone.     *)
(***************************************************************************)
LEMMA SenderKeepsType ==
  ASSUME SenderType, ChannelType, SenderNext
  PROVE  SenderType' /\ ChannelType' /\ receiverVars' = receiverVars
<1>1. ASSUME NEW delta \in Delta, SendBlock(delta)
      PROVE  SenderType' /\ ChannelType' /\ receiverVars' = receiverVars
  <2>1. delta \in Text
    BY <1>1, DeltaType DEF SendBlock, MaySend, SenderType
  <2>2. <<[text |-> delta, flush |-> FALSE]>> \in Seq(Sends)
    BY <2>1 DEF Sends
  <2>3. sent' \in 0..MaxDeltas
    BY <1>1, Constants DEF SendBlock, MaySend, SenderType
  <2> QED
    BY <1>1, <2>2, <2>3 DEF SendBlock, SenderType, ChannelType, receiverVars
<1>2. ASSUME NEW delta \in Delta, SendDropNew(delta)
      PROVE  SenderType' /\ ChannelType' /\ receiverVars' = receiverVars
  <2>1. delta \in Text
    BY <1>2, DeltaType DEF SendDropNew, MaySend, SenderType
  <2>2. sent' \in 0..MaxDeltas
    BY <1>2, Constants DEF SendDropNew, MaySend, SenderType
  <2>3. CASE receiverOpen /\ HasRoom
    BY <1>2, <2>1, <2>2, <2>3, PutType, Concatenation
       DEF SendDropNew, SenderType, ChannelType, receiverVars
  <2>4. CASE ~(receiverOpen /\ HasRoom)
    BY <1>2, <2>2, <2>4 DEF SendDropNew, SenderType, ChannelType, receiverVars
  <2> QED
    BY <2>3, <2>4
<1>3. ASSUME NEW delta \in Delta, SendCoalesceLocal(delta)
      PROVE  SenderType' /\ ChannelType' /\ receiverVars' = receiverVars
  <2>1. delta \in Text
    BY <1>3, DeltaType DEF SendCoalesceLocal, MaySend, SenderType
  <2>2. sent' \in 0..MaxDeltas
    BY <1>3, Constants DEF SendCoalesceLocal, MaySend, SenderType
  <2>3. local \o delta \in Text /\ accepted \o delta \in Text
    BY <2>1, Concatenation DEF SenderType
  <2>4. accepted' \in Text
    BY <1>3, <2>3 DEF SendCoalesceLocal, SenderType
  <2>5. /\ policy' = policy /\ sending' = sending
        /\ senderOpen' = senderOpen /\ receiverOpen' = receiverOpen
        /\ receiverVars' = receiverVars
    BY <1>3 DEF SendCoalesceLocal
  <2>6. local' \in Text /\ channel' \in Seq(Text) /\ Len(channel') <= Capacity
    <3>1. CASE KeepLocal(local \o delta)
      BY <2>3, <3>1 DEF KeepLocal, ChannelType
    <3>2. CASE HasRoom /\ PushLocal(local \o delta)
      BY <2>3, <3>2, PutType DEF PushLocal, Text
    <3>3. CASE LoseLocal
      BY <3>3 DEF LoseLocal, ChannelType, Text
    <3> QED
      BY <1>3, <3>1, <3>2, <3>3 DEF SendCoalesceLocal
  <2> QED
    BY <2>2, <2>4, <2>5, <2>6 DEF SenderType, ChannelType
<1>4. CASE Flush
  <2>1. <<[text |-> local, flush |-> TRUE]>> \in Seq(Sends)
    BY DEF SenderType, Sends
  <2> QED
    BY <1>4, <2>1 DEF Flush, SenderType, ChannelType, receiverVars, Text
<1>5. CASE CompleteSend
  <2>1. sending[1].text \in Text
    BY <1>5, SendingText DEF CompleteSend
  <2>2. accepted' \in Text
    BY <1>5, <2>1, Concatenation DEF CompleteSend, SenderType
  <2>3. channel' \in Seq(Text) /\ Len(channel') <= Capacity
    BY <1>5, <2>1, PutType DEF CompleteSend
  <2> QED
    BY <1>5, <2>2, <2>3 DEF CompleteSend, SenderType, ChannelType, receiverVars
<1>6. CASE FailSend
  BY <1>6 DEF FailSend, SenderType, ChannelType, receiverVars
<1>7. CASE SetPolicy
  BY <1>7, Constants DEF SetPolicy, SenderType, ChannelType, receiverVars
<1>8. CASE DropSender
  <2>1. senderOpen' \in BOOLEAN
    BY <1>8 DEF DropSender
  <2>2. local' \in Text
    BY <1>8 DEF DropSender, Text
  <2>3. UNCHANGED <<policy, sending, sent, accepted, channel, receiverOpen,
                    receiverVars>>
    BY <1>8 DEF DropSender
  <2> QED
    BY <2>1, <2>2, <2>3 DEF SenderType, ChannelType
<1> QED
  BY <1>1, <1>2, <1>3, <1>4, <1>5, <1>6, <1>7, <1>8 DEF SenderNext

(***************************************************************************)
(* The steps of the other side leave the sender alone.                     *)
(***************************************************************************)
ReceiverNext ==
  RecvStep \/ CancelRecv \/ SetOptions \/ DropReceiver \/ Tick

(***************************************************************************)
(* A step of the receiver leaves the sender alone.                         *)
(***************************************************************************)
LEMMA ReceiverLeavesSender ==
  ASSUME ReceiverNext
  PROVE  senderVars' = senderVars
BY DEF ReceiverNext, RecvStep, StartRecv, ReceiveFirst, Receive, FlushNow,
       Timeout, RecvClosed, ReturnNone, ReturnChunk, CancelRecv, SetOptions,
       DropReceiver, Tick

(***************************************************************************)
(* A message that is merged keeps the types.                               *)
(***************************************************************************)
LEMMA TakeMessageType ==
  ASSUME ChannelType, ReceiverType, TakeMessage
  PROVE  /\ channel' \in Seq(Text) /\ Len(channel') <= Capacity
         /\ buf' \in Text
         /\ merged' \in Nat /\ gathered' \in Nat /\ waited' \in Nat
<1>1. Head(channel) \in Text
  BY TakeType DEF TakeMessage
<1>2. buf' \in Text
  BY <1>1, Concatenation DEF TakeMessage, ReceiverType
<1>3. channel' \in Seq(Text) /\ Len(channel') <= Capacity
  <2>1. channel' = Tail(channel) /\ channel # <<>>
    BY DEF TakeMessage
  <2>2. Tail(channel) \in Seq(Text) /\ Len(Tail(channel)) = Len(channel) - 1
    BY <2>1, TakeType
  <2>3. Len(channel) <= Capacity /\ Len(channel) \in Nat
    BY LenProperties DEF ChannelType
  <2> QED
    BY <2>1, <2>2, <2>3, Constants
<1> QED
  BY <1>2, <1>3 DEF TakeMessage, ReceiverType

(***************************************************************************)
(* So does a chunk that is returned.                                       *)
(***************************************************************************)
LEMMA ReturnChunkType ==
  ASSUME ChannelType, ReceiverType,
         NEW reason \in {"MaxBytes", "Newline", "MaxDelay", "ChannelClosed"},
         ReturnChunk(reason)
  PROVE  ChannelType' /\ ReceiverType'
<1>1. ChannelType'
  BY DEF ReturnChunk, ChannelType
<1>2. chunk' \in [reason : {"none", "MaxBytes", "Newline", "MaxDelay",
                            "ChannelClosed"},
                  merged : Nat, messages : Nat]
  BY DEF ReturnChunk, ReceiverType
<1>3. delivered' \in Text
  BY Concatenation DEF ReturnChunk, ReceiverType
<1>4. /\ call' = "idle" /\ buf' \in Text /\ deadline' = NoDeadline
      /\ merged' \in Nat /\ gathered' \in Nat /\ waited' \in Nat
      /\ opts' = opts
  BY DEF ReturnChunk, Text
<1> QED
  BY <1>1, <1>2, <1>3, <1>4 DEF ReceiverType

(***************************************************************************)
(* So does every step of the receiver.                                     *)
(***************************************************************************)
LEMMA ReceiverKeepsType ==
  ASSUME ChannelType, ReceiverType, ReceiverNext
  PROVE  ChannelType' /\ ReceiverType'
<1>1. CASE StartRecv
  BY <1>1 DEF StartRecv, ChannelType, ReceiverType
<1>2. CASE ReceiveFirst
  <2>1. /\ call' = "loop" /\ deadline' = MaxDelay /\ TakeMessage
        /\ UNCHANGED <<receiverOpen, opts, chunk, delivered>>
    BY <1>2 DEF ReceiveFirst
  <2>2. MaxDelay \in 0..MaxDelay
    BY Constants
  <2> QED
    BY <2>1, <2>2, TakeMessageType DEF ChannelType, ReceiverType
<1>3. CASE Receive
  <2>1. TakeMessage
        /\ UNCHANGED <<receiverOpen, opts, call, deadline, chunk, delivered>>
    BY <1>3 DEF Receive
  <2> QED
    BY <2>1, TakeMessageType DEF ChannelType, ReceiverType
<1>4. CASE FlushNow
  <2>1. PICK reason \in FlushReason : ReturnChunk(reason)
    BY <1>4 DEF FlushNow
  <2>2. reason \in {"MaxBytes", "Newline", "MaxDelay", "ChannelClosed"}
    BY <2>1 DEF FlushReason
  <2> QED
    BY <2>1, <2>2, ReturnChunkType
<1>5. CASE Timeout
  BY <1>5, ReturnChunkType DEF Timeout
<1>6. CASE RecvClosed
  <2>1. CASE ReturnNone
    BY <2>1 DEF ReturnNone, ChannelType, ReceiverType
  <2>2. CASE ReturnChunk("ChannelClosed")
    BY <2>2, ReturnChunkType
  <2> QED
    BY <1>6, <2>1, <2>2 DEF RecvClosed
<1>7. CASE CancelRecv
  BY <1>7 DEF CancelRecv, ChannelType, ReceiverType
<1>8. CASE SetOptions
  <2>1. /\ opts' \in [flush_on_newline : Gates, changes : {opts.changes + 1}]
        /\ opts.changes < MaxChanges
        /\ waited' = 0
        /\ UNCHANGED <<channel, receiverOpen, call, buf, merged, chunk,
                       delivered, gathered>>
    BY <1>8 DEF SetOptions
  <2>2. opts.changes + 1 \in 0..MaxChanges
    BY <2>1, Constants DEF ReceiverType
  <2>3. opts' \in [flush_on_newline : BOOLEAN, changes : 0..MaxChanges]
    BY <2>1, <2>2, Constants
  <2>4. deadline' \in {NoDeadline} \cup 0..MaxDelay
    <3>1. MaxDelay \in 0..MaxDelay
      BY Constants
    <3> QED
      BY <1>8, <3>1 DEF SetOptions, ReceiverType
  <2> QED
    BY <2>1, <2>3, <2>4 DEF ChannelType, ReceiverType
<1>9. CASE DropReceiver
  <2>1. /\ receiverOpen' \in BOOLEAN /\ channel' = <<>> /\ buf' = <<>>
        /\ deadline' = NoDeadline
        /\ UNCHANGED <<opts, call, merged, chunk, delivered, gathered, waited>>
    BY <1>9 DEF DropReceiver
  <2>2. <<>> \in Text /\ <<>> \in Seq(Text) /\ Len(<<>>) <= Capacity
    BY Constants DEF Text
  <2> QED
    BY <2>1, <2>2 DEF ChannelType, ReceiverType
<1>10. CASE Tick
  <2>1. /\ deadline > 0 /\ deadline' = deadline - 1 /\ waited' = waited + 1
        /\ UNCHANGED <<channel, receiverOpen, opts, call, buf, merged, chunk,
                       delivered, gathered>>
    BY <1>10 DEF Tick
  <2>2. deadline' \in 0..MaxDelay /\ waited' \in Nat
    BY <2>1, Constants DEF ReceiverType, NoDeadline
  <2> QED
    BY <2>1, <2>2 DEF ChannelType, ReceiverType
<1> QED
  BY <1>1, <1>2, <1>3, <1>4, <1>5, <1>6, <1>7, <1>8, <1>9, <1>10
     DEF ReceiverNext, RecvStep

-----------------------------------------------------------------------------
(***************************************************************************)
(* The type invariant.                                                     *)
(***************************************************************************)
LEMMA InitType == PipelineInit => PipelineTypeOK
<1> SUFFICES ASSUME PipelineInit PROVE PipelineTypeOK
  OBVIOUS
<1>1. SenderType
  BY Constants DEF PipelineInit, SenderType, Sends, Text
<1>2. ChannelType
  BY Constants DEF PipelineInit, ChannelType
<1>3. ReceiverType
  <2>1. opts \in [flush_on_newline : BOOLEAN, changes : 0..MaxChanges]
    BY Constants DEF PipelineInit
  <2>2. chunk \in [reason : {"none", "MaxBytes", "Newline", "MaxDelay",
                             "ChannelClosed"},
                   merged : Nat, messages : Nat]
    BY DEF PipelineInit, NoChunk
  <2>3. /\ call = "idle" /\ buf \in Text /\ deadline = NoDeadline
        /\ merged \in Nat /\ gathered \in Nat /\ waited \in Nat
        /\ delivered \in Text
    BY DEF PipelineInit, Text
  <2> QED
    BY <2>1, <2>2, <2>3 DEF ReceiverType
<1> QED
  BY <1>1, <1>2, <1>3, TypeParts

(***************************************************************************)
(* Every step is one of the sender or of the receiver.                     *)
(***************************************************************************)
LEMMA NextParts == PipelineNext <=> SenderNext \/ ReceiverNext
BY DEF PipelineNext, ReceiverNext

(***************************************************************************)
(* Every step keeps the types.                                             *)
(***************************************************************************)
LEMMA NextType ==
  ASSUME PipelineTypeOK, [PipelineNext]_pipelineVars
  PROVE  PipelineTypeOK'
<1>1. SenderType /\ ChannelType /\ ReceiverType
  BY TypeParts
<1>2. CASE SenderNext
  <2>1. SenderType' /\ ChannelType' /\ receiverVars' = receiverVars
    BY <1>1, <1>2, SenderKeepsType
  <2>2. ReceiverType'
    BY <1>1, <2>1 DEF receiverVars, ReceiverType
  <2> QED
    BY <2>1, <2>2
       DEF PipelineTypeOK, Sends, SenderType, ChannelType, ReceiverType
<1>3. CASE ReceiverNext
  <2>1. ChannelType' /\ ReceiverType'
    BY <1>1, <1>3, ReceiverKeepsType
  <2>2. SenderType'
    BY <1>1, <1>3, ReceiverLeavesSender DEF senderVars, SenderType
  <2> QED
    BY <2>1, <2>2
       DEF PipelineTypeOK, Sends, SenderType, ChannelType, ReceiverType
<1>4. CASE UNCHANGED pipelineVars
  BY <1>4 DEF pipelineVars, senderVars, receiverVars, PipelineTypeOK
<1> QED
  BY <1>2, <1>3, <1>4, NextParts

(***************************************************************************)
(* Every variable of the sender and the receiver keeps its type, and the   *)
(* channel never holds more than its capacity, whatever the options and    *)
(* policies are changed to.                                                *)
(***************************************************************************)
THEOREM TypeHolds == PipelineSpec => []PipelineTypeOK
<1>1. PipelineInit => PipelineTypeOK
  BY InitType
<1>2. PipelineTypeOK /\ [PipelineNext]_pipelineVars => PipelineTypeOK'
  BY NextType
<1> QED
  BY <1>1, <1>2, PTL DEF PipelineSpec

-----------------------------------------------------------------------------
(***************************************************************************)
(* Time: text in buf has a deadline, which together with the time it has   *)
(* waited is within MaxDelay; a call that awaits its first message has no  *)
(* text, so the deadline that message sets cuts none short.                *)
(***************************************************************************)
TimeInv == FlushedInTime /\ (call = "first" => buf = <<>>)

(***************************************************************************)
(* The sender does not touch the clock of the receiver.                    *)
(***************************************************************************)
LEMMA SenderKeepsTime ==
  ASSUME TimeInv, receiverVars' = receiverVars
  PROVE  TimeInv'
BY DEF TimeInv, FlushedInTime, receiverVars

(***************************************************************************)
(* A call that has returned waits for nothing.                             *)
(***************************************************************************)
LEMMA ReturnChunkTime ==
  ASSUME NEW reason, ReturnChunk(reason)
  PROVE  TimeInv'
BY DEF ReturnChunk, TimeInv, FlushedInTime

(***************************************************************************)
(* Every step of the receiver keeps TimeInv.                               *)
(***************************************************************************)
LEMMA ReceiverKeepsTime ==
  ASSUME PipelineTypeOK, TimeInv, ReceiverNext
  PROVE  TimeInv'
<1>0. /\ deadline \in {NoDeadline} \cup 0..MaxDelay /\ waited \in Nat
      /\ MaxDelay \in Nat \ {0} /\ NoDeadline = -1
  BY Constants DEF PipelineTypeOK, NoDeadline
<1>1. CASE StartRecv
  <2>1. buf # <<>> => call' = "loop"
    BY <1>1 DEF StartRecv
  <2>2. buf = <<>> => call' = "first"
    BY <1>1 DEF StartRecv
  <2>3. UNCHANGED <<buf, deadline, waited>>
    BY <1>1 DEF StartRecv
  <2> QED
    BY <2>1, <2>2, <2>3 DEF TimeInv, FlushedInTime
<1>2. CASE ReceiveFirst
  <2>1. call = "first" /\ call' = "loop" /\ deadline' = MaxDelay
    BY <1>2 DEF ReceiveFirst
  <2>2. buf = <<>>
    BY <2>1 DEF TimeInv
  <2>3. waited' = 0
    BY <1>2, <2>2 DEF ReceiveFirst, TakeMessage
  <2>4. deadline' # NoDeadline /\ waited' + deadline' <= MaxDelay
    BY <1>0, <2>1, <2>3
  <2> QED
    BY <2>1, <2>4 DEF TimeInv, FlushedInTime
<1>3. CASE Receive
  <2>1. call = "loop" /\ UNCHANGED <<call, deadline>>
    BY <1>3 DEF Receive
  <2>2. deadline # NoDeadline
    BY <2>1 DEF TimeInv, FlushedInTime
  <2>3. waited' = IF buf = <<>> THEN 0 ELSE waited
    BY <1>3 DEF Receive, TakeMessage
  <2>4. waited' + deadline <= MaxDelay
    <3>1. CASE buf = <<>>
      BY <1>0, <2>2, <2>3, <3>1
    <3>2. CASE buf # <<>>
      BY <2>3, <3>2 DEF TimeInv, FlushedInTime
    <3> QED
      BY <3>1, <3>2
  <2> QED
    BY <2>1, <2>2, <2>4 DEF TimeInv, FlushedInTime
<1>4. CASE FlushNow \/ Timeout
  BY <1>4, ReturnChunkTime DEF FlushNow, Timeout
<1>5. CASE RecvClosed
  <2>1. CASE ReturnNone
    BY <2>1 DEF ReturnNone, TimeInv, FlushedInTime
  <2>2. CASE ReturnChunk("ChannelClosed")
    BY <2>2, ReturnChunkTime
  <2> QED
    BY <1>5, <2>1, <2>2 DEF RecvClosed
<1>6. CASE CancelRecv
  BY <1>6 DEF CancelRecv, TimeInv, FlushedInTime
<1>7. CASE SetOptions
  <2>1. call = "idle" /\ call' = "idle" /\ buf' = buf /\ waited' = 0
    BY <1>7 DEF SetOptions
  <2>2. buf # <<>> => deadline' = MaxDelay
    BY <1>7 DEF SetOptions
  <2>3. buf' # <<>> => deadline' # NoDeadline /\ waited' + deadline' <= MaxDelay
    BY <1>0, <2>1, <2>2
  <2> QED
    BY <2>1, <2>3 DEF TimeInv, FlushedInTime
<1>8. CASE DropReceiver
  <2>1. buf' = <<>> /\ call' \in {"idle", "closed"}
    BY <1>8 DEF DropReceiver
  <2> QED
    BY <2>1 DEF TimeInv, FlushedInTime
<1>9. CASE Tick
  <2>1. /\ deadline > 0 /\ deadline' = deadline - 1 /\ waited' = waited + 1
        /\ UNCHANGED <<call, buf>>
    BY <1>9 DEF Tick
  <2>2. deadline' # NoDeadline /\ waited' + deadline' = waited + deadline
    BY <1>0, <2>1
  <2> QED
    BY <2>1, <2>2 DEF TimeInv, FlushedInTime
<1> QED
  BY <1>1, <1>2, <1>3, <1>4, <1>5, <1>6, <1>7, <1>8, <1>9
     DEF ReceiverNext, RecvStep

(***************************************************************************)
(* recv_with_meta and set_options keep the promise of max_delay, for every *)
(* delay: the text that waits has a deadline, not later than max_delay     *)
(* after it came, also when calls are dropped at any await.                *)
(***************************************************************************)
THEOREM FlushedInTimeHolds == PipelineSpec => []FlushedInTime
<1>1. PipelineInit => PipelineTypeOK /\ TimeInv
  BY InitType DEF PipelineInit, TimeInv, FlushedInTime
<1>2. PipelineTypeOK /\ TimeInv /\ [PipelineNext]_pipelineVars
        => (PipelineTypeOK /\ TimeInv)'
  <2> SUFFICES ASSUME PipelineTypeOK, TimeInv, [PipelineNext]_pipelineVars
               PROVE  TimeInv'
    BY NextType
  <2>1. CASE SenderNext
    BY <2>1, TypeParts, SenderKeepsType, SenderKeepsTime
  <2>2. CASE ReceiverNext
    BY <2>2, ReceiverKeepsTime
  <2>3. CASE UNCHANGED pipelineVars
    BY <2>3, SenderKeepsTime DEF pipelineVars
  <2> QED
    BY <2>1, <2>2, <2>3, NextParts
<1>3. TimeInv => FlushedInTime
  BY DEF TimeInv
<1> QED
  BY <1>1, <1>2, <1>3, PTL DEF PipelineSpec

(***************************************************************************)
(* The count of merged messages is right as long as no step drops a call.  *)
(***************************************************************************)
CountInv == merged = gathered /\ MergedCounted

KeepsCalls == SenderNext \/ RecvStep \/ SetOptions \/ DropReceiver \/ Tick

(***************************************************************************)
(* Every step but a cancelled call keeps the two counts together.          *)
(***************************************************************************)
LEMMA CountKept ==
  ASSUME PipelineTypeOK, CountInv, [KeepsCalls]_pipelineVars
  PROVE  CountInv'
<1>1. CASE receiverVars' = receiverVars
  BY <1>1 DEF receiverVars, CountInv, MergedCounted
<1>2. ASSUME NEW reason, ReturnChunk(reason) PROVE CountInv'
  BY <1>2 DEF ReturnChunk, CountInv, MergedCounted
<1>3. CASE RecvStep \/ SetOptions \/ DropReceiver \/ Tick
  <2>1. CASE UNCHANGED <<merged, gathered, chunk>>
    BY <2>1 DEF CountInv, MergedCounted
  <2>2. CASE TakeMessage /\ UNCHANGED chunk
    BY <2>2 DEF TakeMessage, CountInv, MergedCounted
  <2> QED
    BY <1>2, <1>3, <2>1, <2>2
       DEF RecvStep, StartRecv, ReceiveFirst, Receive, FlushNow, Timeout,
           RecvClosed, ReturnNone, SetOptions, DropReceiver, Tick
<1>4. CASE SenderNext
  BY <1>1, <1>4, TypeParts, SenderKeepsType
<1>5. CASE UNCHANGED pipelineVars
  BY <1>1, <1>5 DEF pipelineVars
<1> QED
  BY <1>3, <1>4, <1>5 DEF KeepsCalls

(***************************************************************************)
(* A consumer that never drops a recv future (the actor is one) is told    *)
(* the number of messages each chunk was made of.                          *)
(***************************************************************************)
THEOREM MergedCountedHolds == ASSUME ~Cancels PROVE PipelineSpec => []MergedCounted
<1>1. PipelineInit => PipelineTypeOK /\ CountInv
  BY InitType DEF PipelineInit, NoChunk, CountInv, MergedCounted
<1>2. PipelineTypeOK /\ CountInv /\ [PipelineNext]_pipelineVars
        => (PipelineTypeOK /\ CountInv)'
  BY NextType, CountKept DEF PipelineNext, KeepsCalls, CancelRecv
<1>3. CountInv => MergedCounted
  BY DEF CountInv
<1> QED
  BY <1>1, <1>2, <1>3, PTL DEF PipelineSpec

-----------------------------------------------------------------------------
(***************************************************************************)
(* Order.  The pieces of a text acc in their places, without the pipeline: *)
(* acc grows at its end, what is left becomes a message, and a message is  *)
(* taken.                                                                  *)
(***************************************************************************)
Ends(ch, acc) == [0..Len(ch) -> 0..Len(acc)]

(***************************************************************************)
(* What is appended to a sequence leaves its segments alone.               *)
(***************************************************************************)
LEMMA SubSeqKept ==
  ASSUME NEW S, NEW s \in Seq(S), NEW t \in Seq(S),
         NEW a \in Nat, NEW b \in 0..Len(s)
  PROVE  SubSeq(s \o t, a + 1, b) = SubSeq(s, a + 1, b)
<1>1. Len(s) \in Nat
  BY LenProperties
<1>2. CASE a + 1 <= b
  <2>1. a + 1 \in 1..Len(s) /\ b \in 1..Len(s)
    BY <1>1, <1>2
  <2> QED
    BY <2>1, SubSeqOfConcat1
<1>3. CASE b < a + 1
  <2>1. a + 1 \in Int /\ b \in Int
    OBVIOUS
  <2> QED
    BY <1>3, <2>1, SubSeqEmpty
<1> QED
  BY <1>1, <1>2, <1>3

(***************************************************************************)
(* It extends those that reach to its end.                                 *)
(***************************************************************************)
LEMMA SubSeqGrows ==
  ASSUME NEW S, NEW s \in Seq(S), NEW t \in Seq(S), NEW a \in 0..Len(s)
  PROVE  SubSeq(s \o t, a + 1, Len(s \o t)) = SubSeq(s, a + 1, Len(s)) \o t
<1>1. /\ s \o t \in Seq(S) /\ Len(s) \in Nat /\ Len(t) \in Nat
      /\ Len(s \o t) = Len(s) + Len(t)
  BY ConcatProperties, LenProperties
<1>2. /\ a + 1 \in 1..Len(s \o t) + 1
      /\ Len(s) \in (a + 1) - 1 .. Len(s \o t)
      /\ Len(s \o t) \in Len(s)..Len(s \o t)
  BY <1>1
<1>3. SubSeq(s \o t, a + 1, Len(s \o t))
        = SubSeq(s \o t, a + 1, Len(s))
            \o SubSeq(s \o t, Len(s) + 1, Len(s \o t))
  BY <1>1, <1>2, ConcatAdjacentSubSeq
<1>4. SubSeq(s \o t, a + 1, Len(s)) = SubSeq(s, a + 1, Len(s))
  BY <1>1, SubSeqKept
<1>5. SubSeq(s \o t, Len(s) + 1, Len(s \o t)) = t
  <2>1. CASE Len(t) = 0
    <3>1. t = <<>>
      BY <2>1, NotEmpty
    <3>2. SubSeq(s \o t, Len(s) + 1, Len(s \o t)) = <<>>
      BY <1>1, <2>1, SubSeqEmpty
    <3> QED
      BY <3>1, <3>2
  <2>2. CASE Len(t) # 0
    <3>1. /\ Len(s) + 1 \in Len(s) + 1 .. Len(s) + Len(t)
          /\ Len(s) + Len(t) \in Len(s) + 1 .. Len(s) + Len(t)
      BY <1>1, <2>2
    <3>2. SubSeq(s \o t, Len(s) + 1, Len(s) + Len(t))
            = SubSeq(t, (Len(s) + 1) - Len(s), (Len(s) + Len(t)) - Len(s))
      BY <3>1, SubSeqOfConcat2
    <3>3. (Len(s) + 1) - Len(s) = 1 /\ (Len(s) + Len(t)) - Len(s) = Len(t)
      BY <1>1
    <3> QED
      BY <1>1, <3>2, <3>3, SubSeqFull
  <2> QED
    BY <2>1, <2>2
<1> QED
  BY <1>3, <1>4, <1>5

(***************************************************************************)
(* Text that is accepted and kept back by the sender leaves every message  *)
(* in its place.                                                           *)
(***************************************************************************)
LEMMA LeftGrows ==
  ASSUME NEW S, NEW ch \in Seq(Seq(S)), NEW acc \in Seq(S), NEW more \in Seq(S),
         NEW ends \in Ends(ch, acc), NEW got, NEW left,
         InPlace(ends, got, ch, acc, left)
  PROVE  /\ ends \in Ends(ch, acc \o more)
         /\ InPlace(ends, got, ch, acc \o more, left \o more)
<1>1. /\ Len(ch) \in Nat /\ Len(acc) \in Nat /\ Len(more) \in Nat
      /\ Len(acc \o more) = Len(acc) + Len(more)
  BY ConcatProperties, LenProperties
<1>2. \A k \in 0..Len(ch) : ends[k] \in 0..Len(acc)
  BY DEF Ends
<1>3. ends \in Ends(ch, acc \o more)
  BY <1>1 DEF Ends
<1>4. got = SubSeq(acc \o more, 1, ends[0])
  <2>1. ends[0] \in 0..Len(acc) /\ 0 \in Nat
    BY <1>1, <1>2
  <2>2. SubSeq(acc \o more, 0 + 1, ends[0]) = SubSeq(acc, 0 + 1, ends[0])
    BY <2>1, SubSeqKept
  <2>3. 0 + 1 = 1
    OBVIOUS
  <2> QED
    BY <2>2, <2>3 DEF InPlace
<1>5. ASSUME NEW k \in 1..Len(ch)
      PROVE  /\ ends[k - 1] <= ends[k]
             /\ ch[k] = SubSeq(acc \o more, ends[k - 1] + 1, ends[k])
  <2>1. k \in 0..Len(ch) /\ k - 1 \in 0..Len(ch)
    BY <1>1
  <2>2. ends[k - 1] \in Nat /\ ends[k] \in 0..Len(acc)
    BY <1>1, <1>2, <2>1
  <2>3. SubSeq(acc \o more, ends[k - 1] + 1, ends[k])
          = SubSeq(acc, ends[k - 1] + 1, ends[k])
    BY <2>2, SubSeqKept
  <2> QED
    BY <2>3 DEF InPlace
<1>6. left \o more = SubSeq(acc \o more, ends[Len(ch)] + 1, Len(acc \o more))
  <2>1. ends[Len(ch)] \in 0..Len(acc)
    BY <1>1, <1>2
  <2> QED
    BY <2>1, SubSeqGrows DEF InPlace
<1> QED
  BY <1>3, <1>4, <1>5, <1>6 DEF InPlace

(***************************************************************************)
(* Text that the sender sends gets the place behind the last message.      *)
(***************************************************************************)
LEMMA LeftIsPut ==
  ASSUME NEW S, NEW ch \in Seq(Seq(S)), NEW acc \in Seq(S),
         NEW ends \in Ends(ch, acc), NEW got, NEW left \in Seq(S),
         InPlace(ends, got, ch, acc, left)
  PROVE  \E e \in Ends(Append(ch, left), acc) :
           InPlace(e, got, Append(ch, left), acc, <<>>)
<1> DEFINE n == Len(ch)
           e == [k \in 0..n + 1 |-> IF k <= n THEN ends[k] ELSE Len(acc)]
<1>1. n \in Nat /\ Len(acc) \in Nat
  BY LenProperties
<1>2. /\ Len(Append(ch, left)) = n + 1
      /\ \A k \in 1..n : Append(ch, left)[k] = ch[k]
      /\ Append(ch, left)[n + 1] = left
  BY AppendProperties
<1>3. \A k \in 0..n : ends[k] \in 0..Len(acc)
  BY DEF Ends
<1>4. /\ \A k \in 0..n : e[k] = ends[k]
      /\ e[n + 1] = Len(acc)
  BY <1>1
<1>5. e \in Ends(Append(ch, left), acc)
  <2>1. \A k \in 0..n + 1 :
          (IF k <= n THEN ends[k] ELSE Len(acc)) \in 0..Len(acc)
    <3> SUFFICES ASSUME NEW k \in 0..n + 1
                 PROVE  (IF k <= n THEN ends[k] ELSE Len(acc)) \in 0..Len(acc)
      OBVIOUS
    <3>1. k <= n => k \in 0..n
      BY <1>1
    <3> QED
      BY <1>1, <1>3, <3>1
  <2>2. e \in [0..n + 1 -> 0..Len(acc)]
    BY <2>1
  <2> QED
    BY <1>2, <2>2 DEF Ends
<1> HIDE DEF e
<1>6. got = SubSeq(acc, 1, e[0])
  <2>1. e[0] = ends[0]
    BY <1>1, <1>4
  <2> QED
    BY <2>1 DEF InPlace
<1>7. ASSUME NEW k \in 1..n + 1
      PROVE  /\ e[k - 1] <= e[k]
             /\ Append(ch, left)[k] = SubSeq(acc, e[k - 1] + 1, e[k])
  <2>1. CASE k <= n
    <3>1. k \in 1..n /\ k \in 0..n /\ k - 1 \in 0..n
      BY <1>1, <2>1
    <3>2. e[k] = ends[k] /\ e[k - 1] = ends[k - 1]
          /\ Append(ch, left)[k] = ch[k]
      BY <1>2, <1>4, <3>1
    <3> QED
      BY <3>1, <3>2 DEF InPlace
  <2>2. CASE k = n + 1
    <3>1. e[k] = Len(acc) /\ e[k - 1] = ends[n] /\ Append(ch, left)[k] = left
      BY <1>1, <1>2, <1>4, <2>2
    <3>2. ends[n] <= Len(acc)
      BY <1>1, <1>3
    <3> QED
      BY <3>1, <3>2 DEF InPlace
  <2>3. k <= n \/ k = n + 1
    BY <1>1
  <2> QED
    BY <2>1, <2>2, <2>3
<1>8. <<>> = SubSeq(acc, e[n + 1] + 1, Len(acc))
  <2>1. e[n + 1] + 1 \in Int /\ Len(acc) \in Int /\ Len(acc) < e[n + 1] + 1
    BY <1>1, <1>4
  <2> QED
    BY <2>1, SubSeqEmpty
<1>9. InPlace(e, got, Append(ch, left), acc, <<>>)
  BY <1>2, <1>6, <1>7, <1>8 DEF InPlace
<1> QED
  BY <1>5, <1>9

(***************************************************************************)
(* The first message is taken from the place behind what was received.     *)
(***************************************************************************)
LEMMA FirstIsTaken ==
  ASSUME NEW S, NEW ch \in Seq(Seq(S)), ch # <<>>, NEW acc \in Seq(S),
         NEW ends \in Ends(ch, acc), NEW got, NEW left,
         InPlace(ends, got, ch, acc, left)
  PROVE  \E e \in Ends(Tail(ch), acc) :
           InPlace(e, got \o Head(ch), Tail(ch), acc, left)
<1> DEFINE n == Len(ch)
           e == [k \in 0..n - 1 |-> ends[k + 1]]
<1>1. n \in Nat \ {0} /\ Len(acc) \in Nat
  BY NotEmpty, LenProperties
<1>2. /\ Len(Tail(ch)) = n - 1
      /\ \A k \in 1..n - 1 : Tail(ch)[k] = ch[k + 1]
  BY HeadTailProperties
<1>3. \A k \in 0..n : ends[k] \in 0..Len(acc)
  BY DEF Ends
<1>4. \A k \in 0..n - 1 : e[k] = ends[k + 1]
  OBVIOUS
<1>5. e \in Ends(Tail(ch), acc)
  BY <1>1, <1>2, <1>3 DEF Ends
<1>6. got \o Head(ch) = SubSeq(acc, 1, e[0])
  <2>1. Head(ch) = ch[1] /\ 1 \in 1..n /\ 0 \in 0..n /\ 1 \in 0..n
    BY <1>1
  <2>2. ends[0] \in 0..Len(acc) /\ ends[1] \in 0..Len(acc) /\ ends[0] <= ends[1]
        /\ ch[1] = SubSeq(acc, ends[0] + 1, ends[1])
    BY <1>3, <2>1 DEF InPlace
  <2>3. /\ 1 \in 1..Len(acc) + 1 /\ ends[0] \in 1 - 1 .. Len(acc)
        /\ ends[1] \in ends[0]..Len(acc)
    BY <1>1, <2>2
  <2>4. SubSeq(acc, 1, ends[0]) \o SubSeq(acc, ends[0] + 1, ends[1])
          = SubSeq(acc, 1, ends[1])
    BY <2>3, ConcatAdjacentSubSeq
  <2>5. e[0] = ends[1]
    BY <1>1
  <2> QED
    BY <2>1, <2>2, <2>4, <2>5 DEF InPlace
<1>7. ASSUME NEW k \in 1..n - 1
      PROVE  /\ e[k - 1] <= e[k]
             /\ Tail(ch)[k] = SubSeq(acc, e[k - 1] + 1, e[k])
  <2>1. k + 1 \in 1..n /\ k \in 0..n - 1 /\ k - 1 \in 0..n - 1
        /\ (k - 1) + 1 = k /\ (k + 1) - 1 = k
    BY <1>1
  <2>2. e[k] = ends[k + 1] /\ e[k - 1] = ends[k] /\ Tail(ch)[k] = ch[k + 1]
    BY <1>2, <1>4, <2>1
  <2>3. /\ ends[(k + 1) - 1] <= ends[k + 1]
        /\ ch[k + 1] = SubSeq(acc, ends[(k + 1) - 1] + 1, ends[k + 1])
    BY <2>1 DEF InPlace
  <2> QED
    BY <2>1, <2>2, <2>3
<1>8. left = SubSeq(acc, e[n - 1] + 1, Len(acc))
  <2>1. n - 1 \in 0..n - 1 /\ (n - 1) + 1 = n
    BY <1>1
  <2>2. e[n - 1] = ends[n]
    BY <1>4, <2>1
  <2> QED
    BY <2>2 DEF InPlace
<1> HIDE DEF e
<1>9. InPlace(e, got \o Head(ch), Tail(ch), acc, left)
  BY <1>2, <1>6, <1>7, <1>8 DEF InPlace
<1> QED
  BY <1>5, <1>9

-----------------------------------------------------------------------------
(***************************************************************************)
(* Of the pipeline: local_buf is empty while a send or a flush awaits, and *)
(* for every policy but CoalesceLocal, because the producer flushes before *)
(* it changes the policy.  A call that has answered None has seen the end  *)
(* of the channel.                                                         *)
(***************************************************************************)
LocalIsEmpty ==
  /\ policy # "CoalesceLocal" => local = <<>>
  /\ sending # <<>> => local = <<>>
  /\ ~senderOpen => sending = <<>> /\ local = <<>>

SidesInv ==
  /\ LocalIsEmpty
  /\ ~receiverOpen => call \in {"idle", "closed"}
  /\ receiverOpen /\ call = "closed" => ChannelClosed /\ buf = <<>>

OrderInv == PipelineTypeOK /\ SidesInv /\ AllInPlace

Left == Flushing \o local

(***************************************************************************)
(* What the sender still has is a text.                                    *)
(***************************************************************************)
LEMMA LeftType ==
  ASSUME SenderType
  PROVE  /\ Flushing \in Text /\ Left \in Text
         /\ sending = <<>> => Flushing = <<>> /\ Left = local
         /\ local = <<>> => Left = Flushing
<1>1. Flushing \in Text
  <2>1. CASE sending = <<>>
    BY <2>1 DEF Flushing, Text
  <2>2. CASE sending # <<>>
    BY <2>2, SendingText DEF Flushing, Text
  <2> QED
    BY <2>1, <2>2
<1>2. local \in Text
  BY DEF SenderType
<1>3. sending = <<>> => Flushing = <<>>
  BY DEF Flushing
<1>4. <<>> \o local = local /\ Flushing \o <<>> = Flushing
  BY <1>1, <1>2, ConcatEmptySeq DEF Text
<1> QED
  BY <1>1, <1>2, <1>3, <1>4, Concatenation DEF Left

(***************************************************************************)
(* AllInPlace when the sender accepts text and keeps it.                   *)
(***************************************************************************)
LEMMA PlacesGrow ==
  ASSUME PipelineTypeOK, AllInPlace, NEW more \in Text,
         receiverOpen' => receiverOpen,
         UNCHANGED <<channel, delivered, buf>>,
         accepted' = accepted \o more,
         Left' = Left \o more
  PROVE  AllInPlace'
<1> SUFFICES ASSUME receiverOpen'
             PROVE  \E ends \in Ends(channel, accepted \o more) :
                      InPlace(ends, delivered \o buf, channel,
                              accepted \o more, Left \o more)
  BY DEF AllInPlace, Ends, Left
<1>1. PICK ends \in Ends(channel, accepted) :
        InPlace(ends, delivered \o buf, channel, accepted, Left)
  BY DEF AllInPlace, Ends, Left
<1>2. channel \in Seq(Seq(Piece)) /\ accepted \in Seq(Piece) /\ more \in Seq(Piece)
  BY DEF PipelineTypeOK, Text
<1> QED
  BY <1>1, <1>2, LeftGrows

(***************************************************************************)
(* AllInPlace when the sender sends all it has.                            *)
(***************************************************************************)
LEMMA PlacesPut ==
  ASSUME PipelineTypeOK, AllInPlace, NEW more \in Text,
         UNCHANGED <<receiverOpen, delivered, buf>>,
         channel' = Append(channel, Left \o more),
         accepted' = accepted \o more,
         Left' = <<>>
  PROVE  AllInPlace'
<1> SUFFICES ASSUME receiverOpen
             PROVE  \E ends \in Ends(Append(channel, Left \o more),
                                     accepted \o more) :
                      InPlace(ends, delivered \o buf,
                              Append(channel, Left \o more),
                              accepted \o more, <<>>)
  BY DEF AllInPlace, Ends, Left
<1>1. PICK ends \in Ends(channel, accepted) :
        InPlace(ends, delivered \o buf, channel, accepted, Left)
  BY DEF AllInPlace, Ends, Left
<1>2. channel \in Seq(Seq(Piece)) /\ accepted \in Seq(Piece) /\ more \in Seq(Piece)
  BY DEF PipelineTypeOK, Text
<1>3. Left \in Seq(Piece)
  BY TypeParts, LeftType DEF Text
<1>4. Left \o more \in Seq(Piece) /\ accepted \o more \in Seq(Piece)
  BY <1>2, <1>3, ConcatProperties
<1>5. /\ ends \in Ends(channel, accepted \o more)
      /\ InPlace(ends, delivered \o buf, channel, accepted \o more,
                 Left \o more)
  BY <1>1, <1>2, LeftGrows
<1> QED
  BY <1>2, <1>4, <1>5, LeftIsPut

(***************************************************************************)
(* AllInPlace when the receiver takes a message.                           *)
(***************************************************************************)
LEMMA PlacesTake ==
  ASSUME PipelineTypeOK, AllInPlace, TakeMessage,
         UNCHANGED <<senderVars, receiverOpen, delivered>>
  PROVE  AllInPlace'
<1>1. /\ Left' = Left /\ accepted' = accepted
      /\ channel # <<>> /\ channel' = Tail(channel)
      /\ buf' = buf \o Head(channel)
  BY DEF senderVars, Left, Flushing, TakeMessage
<1>2. delivered' \o buf' = (delivered \o buf) \o Head(channel)
  <2>1. ChannelType /\ delivered \in Text /\ buf \in Text
    BY TypeParts DEF ReceiverType
  <2>2. Head(channel) \in Text
    BY <1>1, <2>1, TakeType
  <2>3. delivered \o (buf \o Head(channel)) = (delivered \o buf) \o Head(channel)
    BY <2>1, <2>2, Regrouped
  <2> QED
    BY <1>1, <2>3
<1> SUFFICES ASSUME receiverOpen
             PROVE  \E ends \in Ends(Tail(channel), accepted) :
                      InPlace(ends, (delivered \o buf) \o Head(channel),
                              Tail(channel), accepted, Left)
  BY <1>1, <1>2 DEF AllInPlace, Ends, Left
<1>3. PICK ends \in Ends(channel, accepted) :
        InPlace(ends, delivered \o buf, channel, accepted, Left)
  BY DEF AllInPlace, Ends, Left
<1>4. channel \in Seq(Seq(Piece)) /\ accepted \in Seq(Piece)
  BY DEF PipelineTypeOK, Text
<1> QED
  BY <1>1, <1>3, <1>4, FirstIsTaken

(***************************************************************************)
(* AllInPlace when text only moves between the buffer of the receiver and  *)
(* what it has returned.                                                   *)
(***************************************************************************)
LEMMA PlacesKept ==
  ASSUME AllInPlace, receiverOpen' => receiverOpen,
         UNCHANGED <<channel, accepted, sending, local>>,
         delivered' \o buf' = delivered \o buf
  PROVE  AllInPlace'
BY DEF AllInPlace, Flushing

(***************************************************************************)
(* Every step of the sender keeps AllInPlace.                              *)
(***************************************************************************)
LEMMA SenderKeepsPlaces ==
  ASSUME FlushesFirst, PipelineTypeOK, SidesInv, AllInPlace, SenderNext
  PROVE  AllInPlace'
<1>0. SenderType /\ ChannelType /\ <<>> \in Text
  BY TypeParts DEF Text
<1>1. receiverVars' = receiverVars /\ SenderType'
  BY <1>0, SenderKeepsType
<1>2. buf' = buf /\ delivered' = delivered
  BY <1>1 DEF receiverVars
<1>3. accepted \o <<>> = accepted /\ Left \o <<>> = Left
  BY <1>0, LeftType, ConcatEmptySeq DEF SenderType, Text
<1>4. ASSUME accepted' = accepted, channel' = channel, Left' = Left,
             receiverOpen' => receiverOpen
      PROVE  AllInPlace'
  <2>1. accepted' = accepted \o <<>> /\ Left' = Left \o <<>>
    BY <1>3, <1>4
  <2> QED
    BY <1>0, <1>2, <1>4, <2>1, PlacesGrow
<1>5. ASSUME NEW delta \in Delta, SendBlock(delta)
      PROVE  AllInPlace'
  <2>1. sending = <<>> /\ sending' = <<[text |-> delta, flush |-> FALSE]>>
        /\ UNCHANGED <<local, accepted, channel, receiverOpen>>
    BY <1>5 DEF SendBlock, MaySend
  <2>2. Flushing = <<>> /\ Flushing' = <<>>
    BY <2>1 DEF Flushing
  <2> QED
    BY <1>4, <2>1, <2>2 DEF Left
<1>6. ASSUME NEW delta \in Delta, SendDropNew(delta)
      PROVE  AllInPlace'
  <2>1. delta \in Text
    BY <1>0, <1>6, DeltaType DEF SendDropNew, MaySend, SenderType
  <2>2. sending = <<>> /\ local = <<>>
        /\ UNCHANGED <<sending, local, receiverOpen>>
    BY <1>6 DEF SendDropNew, MaySend, SidesInv, LocalIsEmpty
  <2>3. Left = <<>> /\ Left' = <<>>
    BY <1>0, <2>2, LeftType DEF Left, Flushing
  <2>4. CASE receiverOpen /\ HasRoom
    <3>1. channel' = Append(channel, delta) /\ accepted' = accepted \o delta
      BY <1>6, <2>4 DEF SendDropNew
    <3>2. Left \o delta = delta
      BY <2>1, <2>3, ConcatEmptySeq DEF Text
    <3> QED
      BY <1>2, <2>1, <2>2, <2>3, <3>1, <3>2, PlacesPut
  <2>5. CASE ~(receiverOpen /\ HasRoom)
    BY <1>4, <1>6, <2>2, <2>3, <2>5 DEF SendDropNew
  <2> QED
    BY <2>4, <2>5
<1>7. ASSUME NEW delta \in Delta, SendCoalesceLocal(delta)
      PROVE  AllInPlace'
  <2>1. delta \in Text
    BY <1>0, <1>7, DeltaType DEF SendCoalesceLocal, MaySend, SenderType
  <2>2. sending = <<>> /\ UNCHANGED <<sending, receiverOpen>>
    BY <1>7 DEF SendCoalesceLocal, MaySend
  <2>3. Left = local
    BY <1>0, <2>2, LeftType
  <2>4. Left' = local'
    <3>1. Flushing' = <<>> /\ local' \in Seq(Piece)
      BY <1>1, <2>2 DEF Flushing, SenderType, Text
    <3> QED
      BY <3>1, ConcatEmptySeq DEF Left
  <2>5. CASE TriesToFlush(local \o delta) /\ ~receiverOpen
    BY <2>2, <2>5 DEF AllInPlace
  <2>6. CASE ~(TriesToFlush(local \o delta) /\ ~receiverOpen)
    <3>1. accepted' = accepted \o delta
      BY <1>7, <2>6 DEF SendCoalesceLocal
    <3>2. CASE KeepLocal(local \o delta)
      <4>1. channel' = channel /\ Left' = Left \o delta
        BY <2>3, <2>4, <3>2 DEF KeepLocal
      <4> QED
        BY <1>2, <2>1, <2>2, <3>1, <4>1, PlacesGrow
    <3>3. CASE PushLocal(local \o delta)
      <4>1. channel' = Append(channel, Left \o delta) /\ Left' = <<>>
        BY <2>3, <2>4, <3>3 DEF PushLocal
      <4> QED
        BY <1>2, <2>1, <2>2, <3>1, <4>1, PlacesPut
    <3> QED
      BY <1>7, <2>6, <3>2, <3>3 DEF SendCoalesceLocal
  <2> QED
    BY <2>5, <2>6
<1>8. CASE Flush
  <2>1. sending = <<>> /\ sending' = <<[text |-> local, flush |-> TRUE]>>
        /\ local' = <<>> /\ UNCHANGED <<accepted, channel, receiverOpen>>
    BY <1>8 DEF Flush
  <2>2. Flushing' = local /\ local \in Seq(Piece)
    BY <1>0, <2>1 DEF Flushing, SenderType, Text
  <2>3. Left = local /\ Left' = local
    BY <1>0, <2>1, <2>2, LeftType, ConcatEmptySeq DEF Left
  <2> QED
    BY <1>4, <2>1, <2>3
<1>9. CASE CompleteSend
  <2>1. /\ sending # <<>> /\ sending' = <<>>
        /\ channel' = Append(channel, sending[1].text)
        /\ UNCHANGED <<local, receiverOpen>>
    BY <1>9 DEF CompleteSend
  <2>2. local = <<>>
    BY <2>1 DEF SidesInv, LocalIsEmpty
  <2>3. sending[1].text \in Text
    BY <1>0, <2>1, SendingText
  <2>4. Left = Flushing /\ Left' = <<>>
    BY <1>0, <2>1, <2>2, LeftType DEF Left, Flushing
  <2>5. CASE sending[1].flush
    <3>1. Left = sending[1].text
      BY <2>1, <2>4, <2>5 DEF Flushing
    <3>2. accepted' = accepted
      BY <1>9, <2>5 DEF CompleteSend
    <3>3. channel' = Append(channel, Left \o <<>>) /\ accepted' = accepted \o <<>>
      BY <1>3, <2>1, <3>1, <3>2
    <3> QED
      BY <1>0, <1>2, <2>1, <2>4, <3>3, PlacesPut
  <2>6. CASE ~sending[1].flush
    <3>1. Left = <<>>
      BY <2>4, <2>6 DEF Flushing
    <3>2. accepted' = accepted \o sending[1].text
      BY <1>9, <2>6 DEF CompleteSend
    <3>3. Left \o sending[1].text = sending[1].text
      BY <2>3, <3>1, ConcatEmptySeq DEF Text
    <3> QED
      BY <1>2, <2>1, <2>3, <2>4, <3>2, <3>3, PlacesPut
  <2> QED
    BY <2>5, <2>6
<1>10. CASE FailSend
  BY <1>10 DEF FailSend, AllInPlace
<1>11. CASE SetPolicy
  BY <1>4, <1>11 DEF SetPolicy, Left, Flushing
<1>12. CASE DropSender
  <2>1. local = <<>> /\ local' = <<>>
        /\ UNCHANGED <<sending, accepted, channel, receiverOpen>>
    BY <1>12 DEF DropSender
  <2> QED
    BY <1>4, <2>1 DEF Left, Flushing
<1> QED
  BY <1>5, <1>6, <1>7, <1>8, <1>9, <1>10, <1>11, <1>12 DEF SenderNext

(***************************************************************************)
(* So does every step of the receiver.                                     *)
(***************************************************************************)
LEMMA ReceiverKeepsPlaces ==
  ASSUME PipelineTypeOK, AllInPlace, ReceiverNext
  PROVE  AllInPlace'
<1>0. /\ delivered \in Seq(Piece) /\ buf \in Seq(Piece)
      /\ senderVars' = senderVars
  BY ReceiverLeavesSender DEF PipelineTypeOK, Text
<1>1. accepted' = accepted /\ sending' = sending /\ local' = local
  BY <1>0 DEF senderVars
<1>2. ASSUME UNCHANGED <<channel, receiverOpen>>,
             delivered' \o buf' = delivered \o buf
      PROVE  AllInPlace'
  BY <1>1, <1>2, PlacesKept
<1>3. ASSUME NEW reason, ReturnChunk(reason)
      PROVE  AllInPlace'
  <2>1. /\ delivered' = delivered \o buf /\ buf' = <<>>
        /\ UNCHANGED <<channel, receiverOpen>>
    BY <1>3 DEF ReturnChunk
  <2>2. delivered \o buf \in Seq(Piece)
    BY <1>0, ConcatProperties
  <2>3. (delivered \o buf) \o <<>> = delivered \o buf
    BY <2>2, ConcatEmptySeq
  <2> QED
    BY <1>2, <2>1, <2>3
<1>4. CASE StartRecv
  BY <1>2, <1>4 DEF StartRecv
<1>5. CASE ReceiveFirst
  BY <1>5, PlacesTake DEF ReceiveFirst
<1>6. CASE Receive
  BY <1>6, PlacesTake DEF Receive
<1>7. CASE FlushNow
  BY <1>3, <1>7 DEF FlushNow
<1>8. CASE Timeout
  BY <1>3, <1>8 DEF Timeout
<1>9. CASE RecvClosed
  <2>1. CASE ReturnNone
    BY <1>2, <2>1 DEF ReturnNone
  <2>2. CASE ReturnChunk("ChannelClosed")
    BY <1>3, <2>2
  <2> QED
    BY <1>9, <2>1, <2>2 DEF RecvClosed
<1>10. CASE CancelRecv
  BY <1>2, <1>10 DEF CancelRecv
<1>11. CASE SetOptions
  BY <1>2, <1>11 DEF SetOptions
<1>12. CASE DropReceiver
  BY <1>12 DEF DropReceiver, AllInPlace
<1>13. CASE Tick
  BY <1>2, <1>13 DEF Tick
<1> QED
  BY <1>4, <1>5, <1>6, <1>7, <1>8, <1>9, <1>10, <1>11, <1>12, <1>13
     DEF ReceiverNext, RecvStep

(***************************************************************************)
(* Every step of the sender keeps SidesInv.                                *)
(***************************************************************************)
LEMMA SenderKeepsSides ==
  ASSUME FlushesFirst, SidesInv, SenderNext
  PROVE  SidesInv'
<1>1. call' = call /\ buf' = buf
  BY DEF SenderNext, SendBlock, SendDropNew, SendCoalesceLocal, Flush,
         CompleteSend, FailSend, SetPolicy, DropSender, receiverVars
<1>2. receiverOpen' = receiverOpen
  BY DEF SenderNext, SendBlock, SendDropNew, SendCoalesceLocal, Flush,
         CompleteSend, FailSend, SetPolicy, DropSender
<1>3. LocalIsEmpty'
  <2>1. ASSUME NEW delta \in Delta, SendBlock(delta)
        PROVE  LocalIsEmpty'
    BY <2>1 DEF SendBlock, MaySend, SidesInv, LocalIsEmpty
  <2>2. ASSUME NEW delta \in Delta, SendDropNew(delta)
        PROVE  LocalIsEmpty'
    BY <2>2 DEF SendDropNew, SidesInv, LocalIsEmpty
  <2>3. ASSUME NEW delta \in Delta, SendCoalesceLocal(delta)
        PROVE  LocalIsEmpty'
    BY <2>3 DEF SendCoalesceLocal, MaySend, LocalIsEmpty
  <2>4. CASE Flush
    BY <2>4 DEF Flush, LocalIsEmpty
  <2>5. CASE CompleteSend
    BY <2>5 DEF CompleteSend, SidesInv, LocalIsEmpty
  <2>6. CASE FailSend
    BY <2>6 DEF FailSend, SidesInv, LocalIsEmpty
  <2>7. CASE SetPolicy
    BY <2>7 DEF SetPolicy, LocalIsEmpty
  <2>8. CASE DropSender
    BY <2>8 DEF DropSender, LocalIsEmpty
  <2> QED
    BY <2>1, <2>2, <2>3, <2>4, <2>5, <2>6, <2>7, <2>8 DEF SenderNext
<1>4. ASSUME ChannelClosed
      PROVE  ChannelClosed'
  BY <1>4 DEF ChannelClosed, SenderNext, SendBlock, SendDropNew,
              SendCoalesceLocal, MaySend, Flush, CompleteSend, FailSend,
              SetPolicy, DropSender
<1> QED
  BY <1>1, <1>2, <1>3, <1>4 DEF SidesInv

(***************************************************************************)
(* So does every step of the receiver.                                     *)
(***************************************************************************)
LEMMA ReceiverKeepsSides ==
  ASSUME SidesInv, ReceiverNext
  PROVE  SidesInv'
<1>1. UNCHANGED <<policy, sending, local, senderOpen>>
  BY ReceiverLeavesSender DEF senderVars
<1>2. /\ ~receiverOpen' => call' \in {"idle", "closed"}
      /\ receiverOpen' /\ call' = "closed" => ChannelClosed' /\ buf' = <<>>
  <2>1. CASE StartRecv
    BY <2>1 DEF StartRecv
  <2>2. CASE ReceiveFirst
    BY <2>2 DEF ReceiveFirst, SidesInv
  <2>3. CASE Receive
    BY <2>3 DEF Receive, SidesInv
  <2>4. CASE \E reason : ReturnChunk(reason)
    BY <2>4 DEF ReturnChunk
  <2>5. CASE ChannelClosed /\ Awaiting /\ buf = <<>> /\ ReturnNone
    BY <2>5 DEF ReturnNone, ChannelClosed, Awaiting, senderVars, SidesInv
  <2>6. CASE CancelRecv
    BY <2>6 DEF CancelRecv
  <2>7. CASE SetOptions
    BY <2>7 DEF SetOptions
  <2>8. CASE DropReceiver
    BY <2>8 DEF DropReceiver
  <2>9. CASE Tick
    BY <1>1, <2>9 DEF Tick, ChannelClosed, SidesInv
  <2> QED
    BY <2>1, <2>2, <2>3, <2>4, <2>5, <2>6, <2>7, <2>8, <2>9
       DEF ReceiverNext, RecvStep, FlushNow, Timeout, RecvClosed
<1> QED
  BY <1>1, <1>2 DEF SidesInv, LocalIsEmpty

(***************************************************************************)
(* OrderInv holds at the start.                                            *)
(***************************************************************************)
LEMMA InitOrder == PipelineInit => OrderInv
<1> SUFFICES ASSUME PipelineInit
             PROVE  OrderInv
  OBVIOUS
<1>1. SidesInv
  BY DEF PipelineInit, SidesInv, LocalIsEmpty
<1>2. AllInPlace
  <2> DEFINE ends == [k \in 0..0 |-> 0]
  <2>1. Len(channel) = 0 /\ Len(accepted) = 0
    BY DEF PipelineInit
  <2>2. ends \in Ends(channel, accepted) /\ ends[0] = 0
    BY <2>1 DEF Ends
  <2>3. delivered \o buf = <<>> /\ Flushing \o local = <<>>
    BY DEF PipelineInit, Flushing
  <2>4. SubSeq(accepted, 1, 0) = <<>> /\ SubSeq(accepted, 0 + 1, 0) = <<>>
    <3>1. accepted \in Seq(Piece)
      BY DEF PipelineInit
    <3> QED
      BY <3>1, SubSeqEmpty
  <2> HIDE DEF ends
  <2>5. InPlace(ends, delivered \o buf, channel, accepted, Flushing \o local)
    BY <2>1, <2>2, <2>3, <2>4 DEF InPlace
  <2> QED
    BY <2>2, <2>5 DEF AllInPlace, Ends
<1> QED
  BY <1>1, <1>2, InitType DEF OrderInv

(***************************************************************************)
(* Every step keeps OrderInv.                                              *)
(***************************************************************************)
LEMMA NextOrder ==
  ASSUME FlushesFirst, OrderInv, [PipelineNext]_pipelineVars
  PROVE  OrderInv'
<1>1. PipelineTypeOK'
  BY NextType DEF OrderInv
<1>2. CASE SenderNext
  BY <1>1, <1>2, SenderKeepsPlaces, SenderKeepsSides DEF OrderInv
<1>3. CASE ReceiverNext
  BY <1>1, <1>3, ReceiverKeepsPlaces, ReceiverKeepsSides DEF OrderInv
<1>4. CASE UNCHANGED pipelineVars
  <2>1. SidesInv'
    BY <1>4 DEF OrderInv, SidesInv, LocalIsEmpty, ChannelClosed, pipelineVars, senderVars,
                receiverVars
  <2>2. AllInPlace'
    BY <1>4 DEF OrderInv, AllInPlace, Flushing, pipelineVars, senderVars,
                receiverVars
  <2> QED
    BY <1>1, <2>1, <2>2 DEF OrderInv
<1> QED
  BY <1>2, <1>3, <1>4, NextParts

(***************************************************************************)
(* OrderInv holds throughout.                                              *)
(***************************************************************************)
LEMMA OrderHolds == ASSUME FlushesFirst PROVE PipelineSpec => []OrderInv
<1>1. OrderInv /\ [PipelineNext]_pipelineVars => OrderInv'
  BY NextOrder
<1> QED
  BY <1>1, InitOrder, PTL DEF PipelineSpec

(***************************************************************************)
(* A producer that flushes before it changes the policy or goes loses and  *)
(* duplicates nothing and keeps the order: every piece that send accepted  *)
(* is in exactly one place on its way, whatever the other side does.       *)
(***************************************************************************)
THEOREM AllInPlaceHolds ==
  ASSUME FlushesFirst PROVE PipelineSpec => []AllInPlace
<1>1. OrderInv => AllInPlace
  BY DEF OrderInv
<1> QED
  BY <1>1, OrderHolds, PTL

(***************************************************************************)
(* When no message is under way and nothing is left, all has been got.     *)
(***************************************************************************)
LEMMA AllIsGot ==
  ASSUME NEW S, NEW ch \in Seq(Seq(S)), Len(ch) = 0, NEW acc \in Seq(S),
         NEW ends \in Ends(ch, acc), NEW got, InPlace(ends, got, ch, acc, <<>>)
  PROVE  got = acc
<1>1. Len(acc) \in Nat
  BY LenProperties
<1>2. /\ got = SubSeq(acc, 1, ends[0])
      /\ <<>> = SubSeq(acc, ends[0] + 1, Len(acc))
  BY DEF InPlace
<1>3. ends[0] \in 0..Len(acc)
  BY DEF Ends
<1>4. ends[0] = Len(acc)
  <2> SUFFICES ASSUME ends[0] < Len(acc)
               PROVE  FALSE
    BY <1>1, <1>3
  <2>1. ends[0] + 1 \in 1..Len(acc) + 1
        /\ Len(acc) \in (ends[0] + 1) - 1 .. Len(acc)
    BY <1>1, <1>3
  <2>2. Len(SubSeq(acc, ends[0] + 1, Len(acc))) = Len(acc) - (ends[0] + 1) + 1
    BY <1>1, <2>1, SubSeqProperties
  <2>3. Len(acc) - (ends[0] + 1) + 1 = Len(<<>>)
    BY <1>2, <2>2
  <2> QED
    BY <1>1, <1>3, <2>3
<1> QED
  BY <1>2, <1>4, SubSeqFull

(***************************************************************************)
(* Nothing is in the channel or left behind when recv answers None.        *)
(***************************************************************************)
LEMMA OrderComplete == OrderInv => EndsComplete
<1> SUFFICES ASSUME OrderInv, call = "closed", receiverOpen
             PROVE  delivered = accepted
  BY DEF EndsComplete
<1>1. /\ channel = <<>> /\ buf = <<>> /\ sending = <<>> /\ local = <<>>
      /\ AllInPlace
  BY DEF OrderInv, SidesInv, LocalIsEmpty, ChannelClosed
<1>2. /\ accepted \in Seq(Piece) /\ delivered \in Seq(Piece)
      /\ channel \in Seq(Seq(Piece)) /\ Len(channel) = 0
  BY <1>1 DEF OrderInv, PipelineTypeOK, Text
<1>3. delivered \o buf = delivered /\ Flushing \o local = <<>>
  BY <1>1, <1>2, ConcatEmptySeq DEF Flushing
<1>4. PICK ends \in Ends(channel, accepted) :
        InPlace(ends, delivered \o buf, channel, accepted, Flushing \o local)
  BY <1>1 DEF AllInPlace, Ends
<1>5. InPlace(ends, delivered, channel, accepted, <<>>)
  BY <1>3, <1>4
<1>6. accepted \in Seq(Piece) /\ ends \in Ends(channel, accepted)
  BY <1>2
<1> QED
  BY <1>2, <1>5, <1>6, AllIsGot

(***************************************************************************)
(* When recv has answered None, the consumer has all that send accepted.   *)
(***************************************************************************)
THEOREM EndsCompleteHolds ==
  ASSUME FlushesFirst PROVE PipelineSpec => []EndsComplete
BY OrderComplete, OrderHolds, PTL

-----------------------------------------------------------------------------
(***************************************************************************)
(* A step of the pipeline is a step of Delivery or none.  What send_block  *)
(* puts into the channel is one delta.                                     *)
(***************************************************************************)
OneDelta == sending # <<>> /\ ~sending[1].flush => Len(sending[1].text) <= 1

PromiseInv == OrderInv /\ OneDelta

(***************************************************************************)
(* A prefix of n elements has n elements.                                  *)
(***************************************************************************)
LEMMA SubSeqLength ==
  ASSUME NEW S, NEW s \in Seq(S), NEW n \in 0..Len(s)
  PROVE  Len(SubSeq(s, 1, n)) = n
<1>1. \A i \in 1..n : s[i] \in S
  BY ElementOfSeq
<1>2. 1 \in Int /\ n \in Int
  OBVIOUS
<1>3. Len(SubSeq(s, 1, n)) = IF 1 <= n THEN n - 1 + 1 ELSE 0
  BY <1>1, <1>2, SubSeqProperties
<1> QED
  BY <1>3

(***************************************************************************)
(* A text of at most one piece is that piece.                              *)
(***************************************************************************)
LEMMA OnePiece ==
  ASSUME NEW text \in Text, Len(text) <= 1, text # <<>>
  PROVE  text[1] \in Piece /\ text = <<text[1]>>
<1>1. text \in Seq(Piece)
  BY DEF Text
<1>2. Len(text) = 1
  <2>1. Len(text) \in Nat \ {0}
    BY <1>1, NotEmpty
  <2>2. \A n \in Nat \ {0} : n <= 1 => n = 1
    OBVIOUS
  <2> QED
    BY ONLY <2>1, <2>2, Len(text) <= 1
<1>3. text[1] \in Piece
  <2>1. 1 \in 1..Len(text)
    BY <1>2
  <2> QED
    BY <1>1, <2>1, ElementOfSeq
<1>4. <<text[1]>> \in Seq(Piece) /\ Len(<<text[1]>>) = 1
  BY <1>3
<1>5. \A i \in 1..Len(text) : text[i] = <<text[1]>>[i]
  BY <1>2
<1> QED
  BY <1>1, <1>2, <1>4, <1>5, SeqEqual

Accepts == accepted' = accepted \/ \E p \in Piece : accepted' = Append(accepted, p)

(***************************************************************************)
(* To accept such a text is to accept a piece, or nothing.                 *)
(***************************************************************************)
LEMMA AcceptsOne ==
  ASSUME NEW text \in Text, Len(text) <= 1, accepted \in Text,
         accepted' = accepted \o text
  PROVE  Accepts
<1>1. accepted \in Seq(Piece)
  BY DEF Text
<1>2. CASE text = <<>>
  <2>1. accepted' = accepted
    BY <1>1, <1>2, ConcatEmptySeq
  <2> QED
    BY <2>1 DEF Accepts
<1>3. CASE text # <<>>
  <2>1. text[1] \in Piece /\ text = <<text[1]>>
    BY <1>3, OnePiece
  <2>2. accepted \o <<text[1]>> = Append(accepted, text[1])
    BY <1>1, <2>1, AppendIsConcat
  <2>3. accepted' = Append(accepted, text[1])
    BY <2>1, <2>2
  <2> QED
    BY <2>1, <2>3 DEF Accepts
<1> QED
  BY <1>2, <1>3

(***************************************************************************)
(* A delta is such a text.                                                 *)
(***************************************************************************)
LEMMA DeltaIsOne ==
  ASSUME NEW delta \in Delta
  PROVE  Len(delta) <= 1
<1>1. CASE delta = <<>>
  BY <1>1
<1>2. CASE delta # <<>>
  <2>1. PICK b \in BOOLEAN : delta = <<[no |-> sent + 1, newline |-> b]>>
    BY <1>2 DEF Delta
  <2>2. Len(delta) = 1
    BY <2>1
  <2> QED
    BY <2>2
<1> QED
  BY <1>1, <1>2

(***************************************************************************)
(* Every step of the sender accepts at most one piece.                     *)
(***************************************************************************)
LEMMA SenderAccepts ==
  ASSUME PipelineTypeOK, OneDelta, SenderNext
  PROVE  OneDelta' /\ Accepts
<1>0. SenderType /\ accepted \in Text
  BY TypeParts DEF SenderType
<1>2. ASSUME accepted' = accepted
      PROVE  Accepts
  BY <1>2 DEF Accepts
<1>3. ASSUME NEW delta \in Delta, MaySend(policy), accepted' = accepted \o delta
      PROVE  Accepts
  <2>1. delta \in Text /\ Len(delta) <= 1
    BY <1>0, <1>3, DeltaType, DeltaIsOne DEF MaySend, SenderType
  <2> QED
    BY <1>0, <1>3, <2>1, AcceptsOne
<1>4. ASSUME sending' = <<>> \/ sending' = sending
      PROVE  OneDelta'
  BY <1>4 DEF OneDelta
<1>5. ASSUME NEW delta \in Delta, SendBlock(delta)
      PROVE  OneDelta' /\ Accepts
  <2>1. sending' = <<[text |-> delta, flush |-> FALSE]>> /\ accepted' = accepted
    BY <1>5 DEF SendBlock
  <2>2. sending'[1].text = delta /\ Len(delta) <= 1
    BY <2>1, DeltaIsOne
  <2> QED
    BY <1>2, <2>1, <2>2 DEF OneDelta
<1>6. ASSUME NEW delta \in Delta, SendDropNew(delta)
      PROVE  OneDelta' /\ Accepts
  BY <1>2, <1>3, <1>4, <1>6 DEF SendDropNew, MaySend
<1>7. ASSUME NEW delta \in Delta, SendCoalesceLocal(delta)
      PROVE  OneDelta' /\ Accepts
  <2>1. MaySend(policy) /\ sending' = sending
        /\ (accepted' = accepted \/ accepted' = accepted \o delta)
    BY <1>7 DEF SendCoalesceLocal, MaySend
  <2> QED
    BY <1>2, <1>3, <1>4, <2>1
<1>8. CASE Flush
  <2>1. sending' = <<[text |-> local, flush |-> TRUE]>> /\ accepted' = accepted
    BY <1>8 DEF Flush
  <2> QED
    BY <1>2, <2>1 DEF OneDelta
<1>9. CASE CompleteSend
  <2>1. /\ sending # <<>> /\ sending' = <<>>
        /\ accepted' = IF sending[1].flush THEN accepted
                       ELSE accepted \o sending[1].text
    BY <1>9 DEF CompleteSend
  <2>2. sending[1].text \in Text
    BY <1>0, <2>1, SendingText
  <2>3. CASE sending[1].flush
    BY <1>2, <1>4, <2>1, <2>3
  <2>4. CASE ~sending[1].flush
    <3>1. Len(sending[1].text) <= 1 /\ accepted' = accepted \o sending[1].text
      BY <2>1, <2>4 DEF OneDelta
    <3> QED
      BY <1>0, <1>4, <2>1, <2>2, <3>1, AcceptsOne
  <2> QED
    BY <2>3, <2>4
<1>10. CASE FailSend \/ SetPolicy \/ DropSender
  BY <1>2, <1>4, <1>10 DEF FailSend, SetPolicy, DropSender
<1> QED
  BY <1>5, <1>6, <1>7, <1>8, <1>9, <1>10 DEF SenderNext

(***************************************************************************)
(* To accept a piece is a step of the promise.                             *)
(***************************************************************************)
LEMMA AcceptedIsPromised ==
  ASSUME Accepts, UNCHANGED <<delivered, receiverOpen>>
  PROVE  [Promise!Next]_Promise!dvars
BY DEF Accepts, Promise!Next, Promise!Accept, Promise!dvars

(***************************************************************************)
(* To return a chunk is another: it is the next part of what was accepted. *)
(***************************************************************************)
LEMMA ChunkDelivers ==
  ASSUME OrderInv, NEW reason, ReturnChunk(reason), receiverOpen
  PROVE  [Promise!Next]_Promise!dvars
<1>1. /\ delivered' = delivered \o buf
      /\ accepted' = accepted /\ receiverOpen' = receiverOpen
  BY ReceiverLeavesSender DEF ReturnChunk, senderVars
<1>2. /\ delivered \in Seq(Piece) /\ buf \in Seq(Piece)
      /\ accepted \in Seq(Piece) /\ receiverOpen = TRUE
  BY DEF OrderInv, PipelineTypeOK, Text
<1>3. CASE buf = <<>>
  <2>1. delivered' = delivered
    BY <1>1, <1>2, <1>3, ConcatEmptySeq
  <2> QED
    BY <1>1, <2>1 DEF Promise!dvars
<1>4. CASE buf # <<>>
  <2>1. PICK ends \in Ends(channel, accepted) :
          InPlace(ends, delivered \o buf, channel, accepted, Flushing \o local)
    BY DEF OrderInv, AllInPlace, Ends
  <2>2. channel \in Seq(Text)
    BY DEF OrderInv, PipelineTypeOK
  <2>3. ends[0] \in 0..Len(accepted)
    <3>1. 0 \in 0..Len(channel)
      BY <2>2, LenProperties
    <3> QED
      BY <2>1, <3>1 DEF Ends
  <2>4. delivered \o buf = SubSeq(accepted, 1, ends[0])
    BY <2>1 DEF InPlace
  <2>5. Len(SubSeq(accepted, 1, ends[0])) = ends[0]
    BY <1>2, <2>3, SubSeqLength
  <2>6. Len(delivered \o buf) = Len(delivered) + Len(buf)
    BY <1>2, ConcatProperties
  <2>7. Len(buf) \in Nat \ {0} /\ Len(delivered) \in Nat
    BY <1>2, <1>4, NotEmpty, LenProperties
  <2>8. ends[0] \in Len(delivered) + 1 .. Len(accepted)
    BY <2>3, <2>4, <2>5, <2>6, <2>7
  <2> QED
    BY <1>1, <1>2, <2>4, <2>8 DEF Promise!Next, Promise!Deliver
<1> QED
  BY <1>3, <1>4

(***************************************************************************)
(* Every step of the receiver is a step of the promise or none at all.     *)
(***************************************************************************)
LEMMA ReceiverDelivers ==
  ASSUME OrderInv, ReceiverNext
  PROVE  [Promise!Next]_Promise!dvars
<1>1. accepted' = accepted
  BY ReceiverLeavesSender DEF senderVars
<1>2. ASSUME delivered' = delivered, receiverOpen' = receiverOpen
      PROVE  [Promise!Next]_Promise!dvars
  BY <1>1, <1>2 DEF Promise!dvars
<1>3. call \in {"first", "loop"} => receiverOpen
  BY DEF OrderInv, SidesInv
<1>4. CASE StartRecv \/ ReceiveFirst \/ Receive \/ CancelRecv \/ SetOptions \/ Tick
  BY <1>2, <1>4
     DEF StartRecv, ReceiveFirst, Receive, CancelRecv, SetOptions, Tick
<1>5. CASE FlushNow
  BY <1>3, <1>5, ChunkDelivers DEF FlushNow
<1>6. CASE Timeout
  BY <1>3, <1>6, ChunkDelivers DEF Timeout
<1>7. CASE RecvClosed
  <2>1. CASE ReturnNone
    BY <1>2, <2>1 DEF ReturnNone
  <2>2. CASE ReturnChunk("ChannelClosed")
    <3>1. receiverOpen
      BY <1>3, <1>7 DEF RecvClosed, Awaiting
    <3> QED
      BY <2>2, <3>1, ChunkDelivers
  <2> QED
    BY <1>7, <2>1, <2>2 DEF RecvClosed
<1>8. CASE DropReceiver
  <2>1. receiverOpen = TRUE /\ receiverOpen' = FALSE /\ delivered' = delivered
    BY <1>8 DEF DropReceiver, OrderInv, PipelineTypeOK
  <2> QED
    BY <1>1, <2>1 DEF Promise!Next, Promise!Leave
<1> QED
  BY <1>4, <1>5, <1>6, <1>7, <1>8 DEF ReceiverNext, RecvStep

(***************************************************************************)
(* The receiver does not touch the send under way.                         *)
(***************************************************************************)
LEMMA ReceiverKeepsDelta ==
  ASSUME OneDelta, ReceiverNext
  PROVE  OneDelta'
BY ReceiverLeavesSender DEF OneDelta, senderVars

(***************************************************************************)
(* The pipeline implements the safety of Delivery: what recv returns is a  *)
(* growing prefix of what send accepted, and nothing is delivered once the *)
(* other side is gone.                                                     *)
(***************************************************************************)
THEOREM PipelineDelivers ==
  ASSUME FlushesFirst
  PROVE  PipelineSpec => Promise!Init /\ [][Promise!Next]_Promise!dvars
<1>1. PipelineInit => PromiseInv /\ Promise!Init
  BY InitOrder DEF PipelineInit, PromiseInv, OneDelta, Promise!Init
<1>2. PromiseInv /\ [PipelineNext]_pipelineVars
        => PromiseInv' /\ [Promise!Next]_Promise!dvars
  <2> SUFFICES ASSUME PromiseInv, [PipelineNext]_pipelineVars
               PROVE  PromiseInv' /\ [Promise!Next]_Promise!dvars
    OBVIOUS
  <2>1. OrderInv' /\ OrderInv /\ OneDelta /\ PipelineTypeOK
    BY NextOrder DEF PromiseInv, OrderInv
  <2>2. CASE SenderNext
    <3>1. OneDelta' /\ Accepts
      BY <2>1, <2>2, SenderAccepts
    <3>2. UNCHANGED <<delivered, receiverOpen>>
      BY <2>2
         DEF SenderNext, SendBlock, SendDropNew, SendCoalesceLocal, Flush,
             CompleteSend, FailSend, SetPolicy, DropSender, receiverVars
    <3> QED
      BY <2>1, <3>1, <3>2, AcceptedIsPromised DEF PromiseInv
  <2>3. CASE ReceiverNext
    BY <2>1, <2>3, ReceiverDelivers, ReceiverKeepsDelta DEF PromiseInv
  <2>4. CASE UNCHANGED pipelineVars
    BY <2>1, <2>4 DEF PromiseInv, OneDelta, Promise!dvars, pipelineVars,
                      senderVars, receiverVars
  <2> QED
    BY <2>2, <2>3, <2>4, NextParts
<1> QED
  BY <1>1, <1>2, PTL DEF PipelineSpec

-----------------------------------------------------------------------------
(***************************************************************************)
(* The actor.  What was shown of the pipeline is used step by step: a step *)
(* of the actor is one of the pipeline or leaves the pipeline alone.       *)
(***************************************************************************)

(***************************************************************************)
(* Where the task is, and where the recv call is that it makes: it drops   *)
(* its receiver only at the end, and it sends only between two calls, the  *)
(* update of finalize after the call that has answered None.               *)
(***************************************************************************)
ActorControl ==
  /\ actor # "done" => receiverOpen
  /\ actor = "recv" => call # "closed"
  /\ actor = "send" =>
       IF held.final THEN call = "closed" /\ held.text = <<>>
       ELSE call = "idle"

(***************************************************************************)
(* What a step of recv does to the task: the call goes on, or it returns   *)
(* what was in buf, or it has seen the end of the channel.                 *)
(***************************************************************************)
GoesOn == call' \in {"first", "loop"} /\ delivered' = delivered

GivesChunk == call' = "idle" /\ delivered' = delivered \o buf

GivesNone == call' = "closed" /\ delivered' = delivered

(***************************************************************************)
(* One step of recv goes on with the call, ends it with the chunk that was *)
(* gathered, or ends it with none because the channel is closed.           *)
(***************************************************************************)
LEMMA RecvGives ==
  ASSUME RecvStep
  PROVE  /\ GoesOn \/ GivesChunk \/ GivesNone
         /\ UNCHANGED <<senderVars, receiverOpen>>
<1>1. CASE StartRecv
  BY <1>1 DEF StartRecv, GoesOn
<1>2. CASE ReceiveFirst
  BY <1>2 DEF ReceiveFirst, GoesOn
<1>3. CASE Receive
  BY <1>3 DEF Receive, GoesOn
<1>4. CASE \E reason : ReturnChunk(reason)
  BY <1>4 DEF ReturnChunk, GivesChunk
<1>5. CASE ReturnNone
  BY <1>5 DEF ReturnNone, GivesNone
<1> QED
  BY <1>1, <1>2, <1>3, <1>4, <1>5
     DEF RecvStep, FlushNow, Timeout, RecvClosed

(***************************************************************************)
(* What the loop of the actor does with each of the three.                 *)
(***************************************************************************)
LEMMA AwaitCases ==
  ASSUME AwaitChunk
  PROVE  \/ GoesOn /\ UNCHANGED <<actor, held>>
         \/ GivesChunk /\ actor' = "send" /\ held' = UpdateOf(buf, FALSE)
         \/ GivesNone /\ actor' = "send" /\ held' = UpdateOf(<<>>, TRUE)
<1>1. RecvStep
  BY DEF AwaitChunk
<1>2. GoesOn \/ GivesChunk \/ GivesNone
  BY <1>1, RecvGives
<1> QED
  BY <1>2 DEF AwaitChunk, GoesOn, GivesChunk, GivesNone

(***************************************************************************)
(* Dropping the receiver with the task is DropReceiver, because the task   *)
(* is not in a call then.                                                  *)
(***************************************************************************)
LEMMA DroppedBetweenCalls ==
  ASSUME ActorControl, actor = "send", ReceiverDropped
  PROVE  DropReceiver
BY DEF ActorControl, ReceiverDropped, DropReceiver

(***************************************************************************)
(* Every step of the actor is a step of the pipeline, or leaves it alone;  *)
(* and none drops the future of recv.                                      *)
(***************************************************************************)
LEMMA ActorStep ==
  ASSUME ActorControl, [ActorNext]_allVars
  PROVE  \/ SenderNext /\ UNCHANGED actorVars
         \/ Tick /\ UNCHANGED actorVars
         \/ AwaitChunk /\ RecvStep
         \/ DropReceiver /\ (SendUpdate \/ SendUpdateFails)
         \/ /\ UNCHANGED pipelineVars
            /\ SendUpdate \/ TakeUpdate \/ DropUpdates \/ UNCHANGED actorVars
<1>1. CASE SendUpdate
  BY <1>1, DroppedBetweenCalls DEF SendUpdate
<1>2. CASE SendUpdateFails
  BY <1>2, DroppedBetweenCalls DEF SendUpdateFails
<1>3. CASE UNCHANGED allVars
  BY <1>3 DEF allVars
<1> QED
  BY <1>1, <1>2, <1>3 DEF ActorNext, AwaitChunk, TakeUpdate, DropUpdates

(***************************************************************************)
(* A step of the actor is a step of the pipeline or leaves it alone.       *)
(***************************************************************************)
LEMMA ActorIsPipeline ==
  ASSUME ActorControl, [ActorNext]_allVars
  PROVE  [PipelineNext]_pipelineVars
BY ActorStep DEF PipelineNext

(***************************************************************************)
(* Every step keeps ActorControl.                                          *)
(***************************************************************************)
LEMMA ControlKept ==
  ASSUME ActorControl, [ActorNext]_allVars
  PROVE  ActorControl'
<1>1. CASE SenderNext /\ UNCHANGED actorVars
  <2>1. UNCHANGED <<actor, held, receiverOpen, call>>
    BY <1>1 DEF actorVars, SenderNext, SendBlock, SendDropNew,
                SendCoalesceLocal, Flush, CompleteSend, FailSend, SetPolicy,
                DropSender, receiverVars
  <2> QED
    BY <2>1 DEF ActorControl
<1>2. CASE Tick /\ UNCHANGED actorVars
  BY <1>2 DEF ActorControl, Tick, actorVars
<1>3. CASE AwaitChunk /\ RecvStep
  <2>1. actor = "recv" /\ receiverOpen' = receiverOpen /\ receiverOpen
    BY <1>3, RecvGives DEF AwaitChunk, ActorControl
  <2> QED
    BY <1>3, <2>1, AwaitCases
       DEF ActorControl, GoesOn, GivesChunk, GivesNone, UpdateOf
<1>4. CASE DropReceiver /\ (SendUpdate \/ SendUpdateFails)
  <2>1. receiverOpen' = FALSE
    BY <1>4 DEF DropReceiver
  <2>2. actor' = "done"
    <3>1. CASE SendUpdateFails
      BY <3>1 DEF SendUpdateFails
    <3>2. CASE SendUpdate
      <4>1. receiverOpen
        BY <3>2 DEF SendUpdate, ActorControl
      <4> QED
        BY <3>2, <2>1, <4>1 DEF SendUpdate, pipelineVars
    <3> QED
      BY <1>4, <3>1, <3>2
  <2> QED
    BY <2>2 DEF ActorControl
<1>5. CASE UNCHANGED pipelineVars /\ SendUpdate
  <2>1. UNCHANGED <<receiverOpen, call>>
    BY <1>5 DEF pipelineVars, receiverVars
  <2> QED
    BY <1>5, <2>1 DEF SendUpdate, ActorControl
<1>6. CASE /\ UNCHANGED pipelineVars
           /\ TakeUpdate \/ DropUpdates \/ UNCHANGED actorVars
  <2>1. UNCHANGED <<receiverOpen, call, actor, held>>
    BY <1>6 DEF pipelineVars, receiverVars, TakeUpdate, DropUpdates, actorVars
  <2> QED
    BY <2>1 DEF ActorControl
<1> QED
  BY <1>1, <1>2, <1>3, <1>4, <1>5, <1>6, ActorStep

(***************************************************************************)
(* ActorControl holds at the start.                                        *)
(***************************************************************************)
LEMMA InitControl == ActorInit => ActorControl
BY DEF ActorInit, PipelineInit, ActorControl

-----------------------------------------------------------------------------
(***************************************************************************)
(* Types.                                                                  *)
(***************************************************************************)
TaskTypeOK ==
  /\ actor \in {"recv", "send", "done"}
  /\ held \in Updates
  /\ out \in Seq(Updates) /\ Len(out) <= OutCapacity
  /\ uiOpen \in BOOLEAN
  /\ shown \in Text
  /\ finished \in BOOLEAN

(***************************************************************************)
(* What apply_chunk returns is an update.                                  *)
(***************************************************************************)
LEMMA UpdateType ==
  ASSUME NEW text \in Text, NEW final \in BOOLEAN
  PROVE  UpdateOf(text, final) \in Updates
BY DEF UpdateOf, Updates

(***************************************************************************)
(* Every step keeps the type of the actor's own variables.                 *)
(***************************************************************************)
LEMMA TaskTypeKept ==
  ASSUME PipelineTypeOK, TaskTypeOK, ActorControl, [ActorNext]_allVars
  PROVE  TaskTypeOK'
<1>0. /\ actor \in {"recv", "send", "done"} /\ held \in Updates
      /\ out \in Seq(Updates) /\ Len(out) <= OutCapacity
      /\ uiOpen \in BOOLEAN /\ shown \in Text /\ finished \in BOOLEAN
      /\ OutCapacity \in Nat \ {0}
  BY OutCapacityAssumption DEF TaskTypeOK
<1>1. CASE UNCHANGED actorVars
  BY <1>1 DEF TaskTypeOK, actorVars
<1>2. CASE AwaitChunk
  <2>1. buf \in Text /\ <<>> \in Text
    BY DEF PipelineTypeOK, Text
  <2>2. UpdateOf(buf, FALSE) \in Updates /\ UpdateOf(<<>>, TRUE) \in Updates
    BY <2>1, UpdateType
  <2>3. held' \in Updates /\ actor' \in {"recv", "send", "done"}
    BY <1>0, <1>2, <2>2, AwaitCases
  <2>4. UNCHANGED <<out, uiOpen, shown, finished>>
    BY <1>2 DEF AwaitChunk
  <2> QED
    BY <2>3, <2>4 DEF TaskTypeOK
<1>3. CASE SendUpdate
  <2>1. out' = Append(out, held) /\ Len(out) < OutCapacity
        /\ actor' \in {"recv", "done"} /\ UNCHANGED <<held, uiOpen, shown, finished>>
    BY <1>3 DEF SendUpdate
  <2>2. out' \in Seq(Updates) /\ Len(out') = Len(out) + 1 /\ Len(out) \in Nat
    BY <1>0, <2>1, AppendProperties, LenProperties
  <2>3. Len(out') <= OutCapacity
    BY <1>0, <2>1, <2>2
  <2> QED
    BY <2>1, <2>2, <2>3 DEF TaskTypeOK
<1>4. CASE SendUpdateFails
  <2>1. actor' = "done" /\ UNCHANGED <<held, out, uiOpen, shown, finished>>
    BY <1>4 DEF SendUpdateFails
  <2> QED
    BY <2>1 DEF TaskTypeOK
<1>5. CASE TakeUpdate
  <2>1. /\ out # <<>> /\ out' = Tail(out) /\ shown' = shown \o Head(out).text
        /\ finished' = Head(out).final /\ UNCHANGED <<actor, held, uiOpen>>
    BY <1>5 DEF TakeUpdate
  <2>2. Head(out) \in Updates /\ Tail(out) \in Seq(Updates)
        /\ Len(Tail(out)) = Len(out) - 1 /\ Len(out) \in Nat
    BY <1>0, <2>1, HeadTailProperties, LenProperties
  <2>3. Head(out).text \in Text /\ Head(out).final \in BOOLEAN
    BY <2>2 DEF Updates
  <2>4. shown' \in Text
    BY <1>0, <2>1, <2>3, Concatenation
  <2>5. Len(out') <= OutCapacity
    BY <1>0, <2>1, <2>2
  <2> QED
    BY <2>1, <2>2, <2>3, <2>4, <2>5 DEF TaskTypeOK
<1>6. CASE DropUpdates
  <2>1. out' = <<>> /\ uiOpen' = FALSE /\ UNCHANGED <<actor, held, shown, finished>>
    BY <1>6 DEF DropUpdates
  <2>2. Len(<<>>) <= OutCapacity /\ <<>> \in Seq(Updates)
    BY <1>0
  <2> QED
    BY <1>0, <2>1, <2>2 DEF TaskTypeOK
<1> QED
  BY <1>1, <1>2, <1>3, <1>4, <1>5, <1>6, ActorStep

(***************************************************************************)
(* They have their types at the start.                                     *)
(***************************************************************************)
LEMMA InitTask == ActorInit => TaskTypeOK
<1> SUFFICES ASSUME ActorInit
             PROVE  TaskTypeOK
  OBVIOUS
<1>1. <<>> \in Text /\ <<>> \in Seq(Updates) /\ Len(<<>>) <= OutCapacity
  BY OutCapacityAssumption DEF Text
<1>2. UpdateOf(<<>>, FALSE) \in Updates
  BY <1>1, UpdateType
<1> QED
  BY <1>1, <1>2 DEF ActorInit, TaskTypeOK

(***************************************************************************)
(* Types and control hold throughout.                                      *)
(***************************************************************************)
LEMMA TypeAndControl == ActorSpec => [](PipelineTypeOK /\ TaskTypeOK /\ ActorControl)
<1>1. ActorInit => PipelineTypeOK /\ TaskTypeOK /\ ActorControl
  BY InitType, InitTask, InitControl DEF ActorInit
<1>2. PipelineTypeOK /\ TaskTypeOK /\ ActorControl /\ [ActorNext]_allVars
        => (PipelineTypeOK /\ TaskTypeOK /\ ActorControl)'
  BY ActorIsPipeline, NextType, TaskTypeKept, ControlKept
<1> QED
  BY <1>1, <1>2, PTL DEF ActorSpec

(***************************************************************************)
(* Every variable of the actor and of its pipeline keeps its type, and     *)
(* both channels their capacity.                                           *)
(***************************************************************************)
THEOREM ActorTypeHolds == ActorSpec => []ActorTypeOK
<1>1. PipelineTypeOK /\ TaskTypeOK /\ ActorControl => ActorTypeOK
  BY DEF TaskTypeOK, ActorTypeOK
<1> QED
  BY <1>1, TypeAndControl, PTL

(***************************************************************************)
(* The actor never drops a recv future, so each of its chunks counts the   *)
(* messages it was made of, whatever Cancels says of other consumers.      *)
(***************************************************************************)
THEOREM ActorCounts == ActorSpec => []MergedCounted
<1> DEFINE I == PipelineTypeOK /\ ActorControl /\ CountInv
<1>1. ActorInit => I
  BY InitType, InitControl
     DEF ActorInit, PipelineInit, NoChunk, CountInv, MergedCounted
<1>2. I /\ [ActorNext]_allVars => I'
  <2> SUFFICES ASSUME I, [ActorNext]_allVars
               PROVE  I'
    OBVIOUS
  <2>1. [PipelineNext]_pipelineVars /\ ActorControl'
    BY ActorIsPipeline, ControlKept
  <2>2. PipelineTypeOK'
    BY <2>1, NextType
  <2>3. CountInv'
    BY ActorStep, CountKept DEF KeepsCalls
  <2> QED
    BY <2>1, <2>2, <2>3
<1>3. I => MergedCounted
  BY DEF CountInv
<1> QED
  BY <1>1, <1>2, <1>3, PTL DEF ActorSpec

-----------------------------------------------------------------------------
(***************************************************************************)
(* The text of the updates in the channel to the application, and the text *)
(* of the one that the task is sending.                                    *)
(***************************************************************************)
Texts(updates) == [k \in 1..Len(updates) |-> updates[k].text]

Pending == IF actor = "send" THEN held.text ELSE <<>>

(***************************************************************************)
(* The texts of a queue of updates are a sequence as long as it.           *)
(***************************************************************************)
LEMMA TextsType ==
  ASSUME NEW updates \in Seq(Updates)
  PROVE  /\ Texts(updates) \in Seq(Seq(Piece))
         /\ Len(Texts(updates)) = Len(updates)
         /\ \A k \in 1..Len(updates) : Texts(updates)[k] = updates[k].text
<1>1. Len(updates) \in Nat
  BY LenProperties
<1>2. \A k \in 1..Len(updates) : updates[k].text \in Seq(Piece)
  <2>1. \A k \in 1..Len(updates) : updates[k] \in Updates
    BY ElementOfSeq
  <2> QED
    BY <2>1 DEF Updates, Text
<1> QED
  BY <1>1, <1>2 DEF Texts

(***************************************************************************)
(* An update that is sent adds its text at the end.                        *)
(***************************************************************************)
LEMMA TextsPut ==
  ASSUME NEW updates \in Seq(Updates), NEW u \in Updates
  PROVE  Texts(Append(updates, u)) = Append(Texts(updates), u.text)
<1> DEFINE n == Len(updates)
<1>1. /\ Append(updates, u) \in Seq(Updates) /\ Len(Append(updates, u)) = n + 1
      /\ \A k \in 1..n : Append(updates, u)[k] = updates[k]
      /\ Append(updates, u)[n + 1] = u
      /\ n \in Nat
  BY AppendProperties, LenProperties
<1>2. u.text \in Seq(Piece)
  BY DEF Updates, Text
<1>3. /\ Append(Texts(updates), u.text) \in Seq(Seq(Piece))
      /\ Len(Append(Texts(updates), u.text)) = n + 1
      /\ \A k \in 1..n : Append(Texts(updates), u.text)[k] = Texts(updates)[k]
      /\ Append(Texts(updates), u.text)[n + 1] = u.text
  BY <1>2, TextsType, AppendProperties
<1>4. /\ Texts(Append(updates, u)) \in Seq(Seq(Piece))
      /\ Len(Texts(Append(updates, u))) = n + 1
      /\ \A k \in 1..n + 1 :
           Texts(Append(updates, u))[k] = Append(updates, u)[k].text
  BY <1>1, TextsType
<1>5. ASSUME NEW k \in 1..n + 1
      PROVE  Texts(Append(updates, u))[k] = Append(Texts(updates), u.text)[k]
  <2>1. CASE k \in 1..n
    <3>1. Texts(updates)[k] = updates[k].text
      BY <2>1, TextsType
    <3> QED
      BY <1>1, <1>3, <1>4, <2>1, <3>1
  <2>2. CASE k = n + 1
    BY <1>1, <1>3, <1>4, <2>2
  <2>3. n \in Nat /\ k \in 1..n + 1
    BY <1>1, <1>5
  <2>4. k \in 1..n \/ k = n + 1
    BY ONLY <2>3
  <2> QED
    BY <2>1, <2>2, <2>4
<1> HIDE DEF n
<1> QED
  BY <1>3, <1>4, <1>5, SeqEqual

(***************************************************************************)
(* An update that is taken takes the first text.                           *)
(***************************************************************************)
LEMMA TextsTaken ==
  ASSUME NEW updates \in Seq(Updates), updates # <<>>
  PROVE  /\ Texts(updates) # <<>>
         /\ Texts(Tail(updates)) = Tail(Texts(updates))
         /\ Head(Texts(updates)) = Head(updates).text
<1> DEFINE n == Len(updates)
<1>1. /\ n \in Nat \ {0} /\ Tail(updates) \in Seq(Updates)
      /\ Len(Tail(updates)) = n - 1
      /\ \A k \in 1..n - 1 : Tail(updates)[k] = updates[k + 1]
  BY NotEmpty, HeadTailProperties
<1>2. /\ Texts(updates) \in Seq(Seq(Piece)) /\ Len(Texts(updates)) = n
      /\ \A k \in 1..n : Texts(updates)[k] = updates[k].text
  BY TextsType
<1>3. Texts(updates) # <<>>
  BY <1>1, <1>2
<1>4. /\ Tail(Texts(updates)) \in Seq(Seq(Piece))
      /\ Len(Tail(Texts(updates))) = n - 1
      /\ \A k \in 1..n - 1 : Tail(Texts(updates))[k] = Texts(updates)[k + 1]
  BY <1>2, <1>3, HeadTailProperties
<1>5. /\ Texts(Tail(updates)) \in Seq(Seq(Piece))
      /\ Len(Texts(Tail(updates))) = n - 1
      /\ \A k \in 1..n - 1 : Texts(Tail(updates))[k] = Tail(updates)[k].text
  BY <1>1, TextsType
<1>6. ASSUME NEW k \in 1..n - 1
      PROVE  Texts(Tail(updates))[k] = Tail(Texts(updates))[k]
  <2>1. k + 1 \in 1..n
    BY <1>1
  <2> QED
    BY <1>1, <1>2, <1>4, <1>5, <2>1
<1>7. Head(Texts(updates)) = Head(updates).text
  <2>1. 1 \in 1..n
    BY <1>1
  <2> QED
    BY <1>2, <2>1
<1> HIDE DEF n
<1>8. Texts(Tail(updates)) = Tail(Texts(updates))
  BY <1>4, <1>5, <1>6, SeqEqual
<1> QED
  BY <1>3, <1>7, <1>8

(***************************************************************************)
(* What the chunks gave to the task is in the application, in its channel  *)
(* or in the update being sent, once each and in order.  The update of     *)
(* finalize is the last, and the task is done only when everything that    *)
(* send accepted has come through and nothing can follow.                  *)
(***************************************************************************)
ShownInPlace ==
  uiOpen =>
    \E ends \in Ends(Texts(out), delivered) :
      InPlace(ends, shown, Texts(out), delivered, Pending)

FinalIsLast ==
  \A k \in 1..Len(out) :
    out[k].final => k = Len(out) /\ actor = "done" /\ out[k].text = <<>>

Stopped == ~senderOpen /\ sending = <<>>

DoneIsAll == actor = "done" /\ uiOpen => Stopped /\ delivered = accepted

FinishedIsAll ==
  finished => Stopped /\ out = <<>> /\ actor = "done" /\ shown = accepted

TaskInv == ShownInPlace /\ FinalIsLast /\ DoneIsAll /\ FinishedIsAll

ActorInv == PromiseInv /\ TaskTypeOK /\ ActorControl /\ TaskInv

(***************************************************************************)
(* A sender that has stopped takes no step.                                *)
(***************************************************************************)
LEMMA NoStepsStopped == SenderNext => ~Stopped
BY DEF SenderNext, SendBlock, SendDropNew, SendCoalesceLocal, MaySend, Flush,
       CompleteSend, FailSend, SetPolicy, DropSender, Stopped

(***************************************************************************)
(* The sender moves nothing that the actor has.                            *)
(***************************************************************************)
LEMMA SenderKeepsTask ==
  ASSUME TaskInv, SenderNext, UNCHANGED actorVars
  PROVE  TaskInv'
<1>1. delivered' = delivered
  BY DEF SenderNext, SendBlock, SendDropNew, SendCoalesceLocal, Flush,
         CompleteSend, FailSend, SetPolicy, DropSender, receiverVars
<1>2. UNCHANGED <<actor, held, out, uiOpen, shown, finished>>
  BY DEF actorVars
<1>3. ShownInPlace'
  BY <1>1, <1>2 DEF TaskInv, ShownInPlace, Pending
<1>4. FinalIsLast'
  BY <1>2 DEF TaskInv, FinalIsLast
<1>5. ~Stopped
  BY NoStepsStopped
<1> QED
  BY <1>2, <1>3, <1>4, <1>5 DEF TaskInv, DoneIsAll, FinishedIsAll

(***************************************************************************)
(* A step that changes nothing TaskInv is about keeps it.                  *)
(***************************************************************************)
LEMMA SameTask ==
  ASSUME TaskInv, UNCHANGED actorVars,
         UNCHANGED <<delivered, senderOpen, sending, accepted>>
  PROVE  TaskInv'
BY DEF actorVars, TaskInv, ShownInPlace, Pending, FinalIsLast, Stopped,
       DoneIsAll, FinishedIsAll

(***************************************************************************)
(* A chunk goes on as the update that is sent.                             *)
(***************************************************************************)
LEMMA AwaitKeepsTask ==
  ASSUME PipelineTypeOK, TaskTypeOK, TaskInv, AwaitChunk
  PROVE  TaskInv'
<1>1. actor = "recv" /\ UNCHANGED <<out, uiOpen, shown, finished>>
  BY DEF AwaitChunk
<1>2. actor' # "done"
  BY <1>1, AwaitCases
<1>3. FinalIsLast' /\ DoneIsAll' /\ FinishedIsAll'
  BY <1>1, <1>2 DEF TaskInv, FinalIsLast, DoneIsAll, FinishedIsAll
<1>4. ASSUME uiOpen
      PROVE  \E ends \in Ends(Texts(out), delivered') :
               InPlace(ends, shown, Texts(out), delivered', Pending')
  <2>1. PICK ends \in Ends(Texts(out), delivered) :
          InPlace(ends, shown, Texts(out), delivered, <<>>)
    BY <1>1, <1>4 DEF TaskInv, ShownInPlace, Pending
  <2>2. /\ delivered \in Seq(Piece) /\ buf \in Seq(Piece)
        /\ Texts(out) \in Seq(Seq(Piece))
    BY TextsType DEF PipelineTypeOK, TaskTypeOK, Text
  <2>3. CASE delivered' = delivered /\ Pending' = <<>>
    BY <2>1, <2>3
  <2>4. CASE delivered' = delivered \o buf /\ Pending' = buf
    <3>1. /\ ends \in Ends(Texts(out), delivered \o buf)
          /\ InPlace(ends, shown, Texts(out), delivered \o buf, <<>> \o buf)
      BY <2>1, <2>2, LeftGrows
    <3>2. <<>> \o buf = buf
      BY <2>2, ConcatEmptySeq
    <3> QED
      BY <2>4, <3>1, <3>2
  <2>5. \/ delivered' = delivered /\ Pending' = <<>>
        \/ delivered' = delivered \o buf /\ Pending' = buf
    BY <1>1, AwaitCases DEF GoesOn, GivesChunk, GivesNone, Pending, UpdateOf
  <2> QED
    BY <2>3, <2>4, <2>5
<1>5. ShownInPlace'
  BY <1>1, <1>4 DEF ShownInPlace
<1> QED
  BY <1>3, <1>5 DEF TaskInv

(***************************************************************************)
(* An update that is sent goes behind the others.  With the update of      *)
(* finalize the task is done, and recv has given all that send accepted.   *)
(***************************************************************************)
LEMMA SendKeepsTask ==
  ASSUME OrderInv, TaskTypeOK, ActorControl, TaskInv, SendUpdate,
         UNCHANGED <<delivered, senderOpen, sending, accepted>>
  PROVE  TaskInv'
<1>1. /\ actor = "send" /\ uiOpen /\ out' = Append(out, held)
      /\ actor' = IF held.final THEN "done" ELSE "recv"
      /\ UNCHANGED <<uiOpen, shown, finished>>
  BY DEF SendUpdate
<1>2. /\ delivered \in Seq(Piece) /\ held \in Updates /\ out \in Seq(Updates)
      /\ held.text \in Seq(Piece) /\ Texts(out) \in Seq(Seq(Piece))
  BY TextsType DEF OrderInv, PipelineTypeOK, TaskTypeOK, Updates, Text
<1>3. ShownInPlace'
  <2>1. PICK ends \in Ends(Texts(out), delivered) :
          InPlace(ends, shown, Texts(out), delivered, held.text)
    BY <1>1 DEF TaskInv, ShownInPlace, Pending
  <2>2. \E e \in Ends(Append(Texts(out), held.text), delivered) :
          InPlace(e, shown, Append(Texts(out), held.text), delivered, <<>>)
    BY <1>2, <2>1, LeftIsPut
  <2>3. Texts(out') = Append(Texts(out), held.text) /\ Pending' = <<>>
    BY <1>1, <1>2, TextsPut DEF Pending
  <2> QED
    BY <1>1, <2>2, <2>3 DEF ShownInPlace
<1>4. FinalIsLast'
  <2>1. /\ Len(out') = Len(out) + 1 /\ Len(out) \in Nat
        /\ \A k \in 1..Len(out) : out'[k] = out[k]
        /\ out'[Len(out) + 1] = held
    BY <1>1, <1>2, AppendProperties, LenProperties
  <2>2. \A k \in 1..Len(out) : ~out[k].final
    BY <1>1 DEF TaskInv, FinalIsLast
  <2>3. held.final => held.text = <<>> /\ actor' = "done"
    BY <1>1 DEF ActorControl
  <2>4. ASSUME NEW k \in 1..Len(out'), out'[k].final
        PROVE  k = Len(out') /\ actor' = "done" /\ out'[k].text = <<>>
    <3>1. k = Len(out) + 1
      BY <2>1, <2>2, <2>4
    <3> QED
      BY <2>1, <2>3, <2>4, <3>1
  <2> QED
    BY <2>4 DEF FinalIsLast
<1>5. DoneIsAll'
  <2>1. ASSUME held.final
        PROVE  Stopped /\ delivered = accepted
    <3>1. call = "closed" /\ receiverOpen
      BY <1>1, <2>1 DEF ActorControl
    <3>2. Stopped
      BY <3>1 DEF OrderInv, SidesInv, ChannelClosed, Stopped
    <3>3. delivered = accepted
      BY <3>1, OrderComplete DEF EndsComplete
    <3> QED
      BY <3>2, <3>3
  <2> QED
    BY <1>1, <2>1 DEF DoneIsAll, Stopped
<1>6. FinishedIsAll'
  BY <1>1 DEF TaskInv, FinishedIsAll
<1> QED
  BY <1>3, <1>4, <1>5, <1>6 DEF TaskInv

(***************************************************************************)
(* The application takes the first update: the final one is the last, and  *)
(* there is nothing in the channel or on its way then.                     *)
(***************************************************************************)
LEMMA TakeKeepsTask ==
  ASSUME PipelineTypeOK, TaskTypeOK, TaskInv, TakeUpdate
  PROVE  TaskInv'
<1>1. /\ uiOpen /\ out # <<>> /\ out' = Tail(out)
      /\ shown' = shown \o Head(out).text /\ finished' = Head(out).final
      /\ UNCHANGED <<actor, held, uiOpen>>
      /\ UNCHANGED <<delivered, senderOpen, sending, accepted>>
  BY DEF TakeUpdate, pipelineVars, senderVars, receiverVars
<1>2. /\ delivered \in Seq(Piece) /\ out \in Seq(Updates)
      /\ Texts(out) \in Seq(Seq(Piece))
  BY TextsType DEF PipelineTypeOK, TaskTypeOK, Text
<1>3. PICK e \in Ends(Texts(out'), delivered) :
        InPlace(e, shown', Texts(out'), delivered, Pending)
  <2>1. PICK ends \in Ends(Texts(out), delivered) :
          InPlace(ends, shown, Texts(out), delivered, Pending)
    BY <1>1 DEF TaskInv, ShownInPlace
  <2>2. /\ Texts(out) # <<>> /\ Texts(Tail(out)) = Tail(Texts(out))
        /\ Head(Texts(out)) = Head(out).text
    BY <1>1, <1>2, TextsTaken
  <2>3. \E e \in Ends(Tail(Texts(out)), delivered) :
          InPlace(e, shown \o Head(Texts(out)), Tail(Texts(out)), delivered,
                  Pending)
    BY <1>2, <2>1, <2>2, FirstIsTaken
  <2> QED
    BY <1>1, <2>2, <2>3
<1>4. ShownInPlace'
  <2>1. Pending' = Pending
    BY <1>1 DEF Pending
  <2> QED
    BY <1>1, <1>3, <2>1 DEF ShownInPlace
<1>5. /\ Len(out') = Len(out) - 1 /\ Len(out) \in Nat \ {0}
      /\ \A k \in 1..Len(out') : out'[k] = out[k + 1]
      /\ out' \in Seq(Updates)
  BY <1>1, <1>2, HeadTailProperties, NotEmpty
<1>6. FinalIsLast'
  <2>1. ASSUME NEW k \in 1..Len(out'), out'[k].final
        PROVE  k = Len(out') /\ actor' = "done" /\ out'[k].text = <<>>
    <3>1. k + 1 \in 1..Len(out) /\ out'[k] = out[k + 1]
      BY <1>5
    <3>2. k + 1 = Len(out) /\ actor = "done" /\ out[k + 1].text = <<>>
      BY <2>1, <3>1 DEF TaskInv, FinalIsLast
    <3>3. k = Len(out')
      BY <1>5, <3>2
    <3> QED
      BY <1>1, <3>1, <3>2, <3>3
  <2> QED
    BY <2>1 DEF FinalIsLast
<1>7. DoneIsAll'
  BY <1>1 DEF TaskInv, DoneIsAll, Stopped
<1>8. FinishedIsAll'
  <2> SUFFICES ASSUME finished'
               PROVE  Stopped /\ out' = <<>> /\ actor = "done" /\ shown' = accepted
    BY <1>1 DEF FinishedIsAll, Stopped
  <2>1. out[1].final /\ 1 \in 1..Len(out)
    <3>1. Head(out) = out[1] /\ 1 \in 1..Len(out)
      BY <1>5
    <3> QED
      BY <1>1, <3>1
  <2>2. Len(out) = 1 /\ actor = "done"
    BY <2>1 DEF TaskInv, FinalIsLast
  <2>3. Stopped /\ delivered = accepted /\ Pending = <<>>
    BY <1>1, <2>2 DEF TaskInv, DoneIsAll, Pending
  <2>4. Len(out') = 0 /\ out' = <<>>
    <3>1. Len(out') = 0
      BY <1>5, <2>2
    <3> QED
      BY <1>5, <3>1, NotEmpty
  <2>5. Texts(out') \in Seq(Seq(Piece)) /\ Len(Texts(out')) = 0
    BY <1>5, <2>4, TextsType
  <2>6. InPlace(e, shown', Texts(out'), delivered, <<>>)
    BY <1>3, <2>3
  <2>7. shown' = delivered
    BY <1>2, <1>3, <2>5, <2>6, AllIsGot
  <2> QED
    BY <2>2, <2>3, <2>4, <2>7
<1> QED
  BY <1>4, <1>6, <1>7, <1>8 DEF TaskInv

(***************************************************************************)
(* Once the application has dropped its receiver, nothing is claimed of    *)
(* what it shows.                                                          *)
(***************************************************************************)
LEMMA LeavingKeepsTask ==
  ASSUME TaskInv, SendUpdateFails \/ DropUpdates,
         UNCHANGED <<senderOpen, sending, accepted>>
  PROVE  TaskInv'
<1>1. CASE SendUpdateFails
  <2>1. ~uiOpen /\ actor = "send" /\ UNCHANGED <<out, uiOpen, shown, finished>>
    BY <1>1 DEF SendUpdateFails
  <2> QED
    BY <2>1 DEF TaskInv, ShownInPlace, FinalIsLast, DoneIsAll, FinishedIsAll
<1>2. CASE DropUpdates
  <2>1. ~uiOpen' /\ out' = <<>> /\ UNCHANGED <<actor, shown, finished>>
    BY <1>2 DEF DropUpdates
  <2>2. Len(out') = 0
    BY <2>1
  <2>3. ShownInPlace' /\ FinalIsLast' /\ DoneIsAll'
    BY <2>1, <2>2 DEF ShownInPlace, FinalIsLast, DoneIsAll
  <2>4. FinishedIsAll'
    BY <2>1 DEF TaskInv, FinishedIsAll, Stopped
  <2> QED
    BY <2>3, <2>4 DEF TaskInv
<1> QED
  BY <1>1, <1>2

-----------------------------------------------------------------------------
(***************************************************************************)
(* All of the invariant is kept, and accepted grows by one piece or not at *)
(* all.                                                                    *)
(***************************************************************************)
LEMMA PromiseKept ==
  ASSUME FlushesFirst, PromiseInv, [PipelineNext]_pipelineVars
  PROVE  PromiseInv' /\ Accepts
<1>1. OrderInv' /\ OneDelta /\ PipelineTypeOK
  BY NextOrder DEF PromiseInv, OrderInv
<1>2. CASE SenderNext
  BY <1>1, <1>2, SenderAccepts DEF PromiseInv
<1>3. CASE ReceiverNext
  <2>1. accepted' = accepted
    BY <1>3, ReceiverLeavesSender DEF senderVars
  <2> QED
    BY <1>1, <1>3, <2>1, ReceiverKeepsDelta DEF PromiseInv, Accepts
<1>4. CASE UNCHANGED pipelineVars
  BY <1>1, <1>4 DEF PromiseInv, OneDelta, Accepts, pipelineVars, senderVars
<1> QED
  BY <1>2, <1>3, <1>4, NextParts

(***************************************************************************)
(* Every step keeps TaskInv.                                               *)
(***************************************************************************)
LEMMA TaskKept ==
  ASSUME ActorInv, [ActorNext]_allVars
  PROVE  TaskInv'
<1>1. /\ OrderInv /\ PipelineTypeOK /\ TaskTypeOK /\ ActorControl /\ TaskInv
  BY DEF ActorInv, PromiseInv, OrderInv
<1>2. CASE SenderNext /\ UNCHANGED actorVars
  BY <1>1, <1>2, SenderKeepsTask
<1>3. CASE Tick /\ UNCHANGED actorVars
  BY <1>1, <1>3, SameTask DEF Tick, senderVars
<1>4. CASE AwaitChunk /\ RecvStep
  BY <1>1, <1>4, AwaitKeepsTask
<1>5. CASE SendUpdate
  <2>1. UNCHANGED <<delivered, senderOpen, sending, accepted>>
    BY <1>5 DEF SendUpdate, ReceiverDropped, pipelineVars, senderVars,
                receiverVars
  <2> QED
    BY <1>1, <1>5, <2>1, SendKeepsTask
<1>6. CASE SendUpdateFails
  <2>1. UNCHANGED <<senderOpen, sending, accepted>>
    BY <1>6 DEF SendUpdateFails, ReceiverDropped, senderVars
  <2> QED
    BY <1>1, <1>6, <2>1, LeavingKeepsTask
<1>7. CASE TakeUpdate
  BY <1>1, <1>7, TakeKeepsTask
<1>8. CASE DropUpdates
  <2>1. UNCHANGED <<senderOpen, sending, accepted>>
    BY <1>8 DEF DropUpdates, pipelineVars, senderVars
  <2> QED
    BY <1>1, <1>8, <2>1, LeavingKeepsTask
<1>9. CASE UNCHANGED pipelineVars /\ UNCHANGED actorVars
  BY <1>1, <1>9, SameTask DEF pipelineVars, senderVars, receiverVars
<1> QED
  BY <1>1, <1>2, <1>3, <1>4, <1>5, <1>6, <1>7, <1>8, <1>9, ActorStep

(***************************************************************************)
(* Every step keeps the whole invariant.                                   *)
(***************************************************************************)
LEMMA ActorKept ==
  ASSUME FlushesFirst, ActorInv, [ActorNext]_allVars
  PROVE  ActorInv' /\ Accepts
<1>1. /\ PromiseInv /\ PipelineTypeOK /\ TaskTypeOK /\ ActorControl
  BY DEF ActorInv, PromiseInv, OrderInv
<1>2. [PipelineNext]_pipelineVars
  BY <1>1, ActorIsPipeline
<1>3. PromiseInv' /\ Accepts
  BY <1>1, <1>2, PromiseKept
<1>4. TaskTypeOK' /\ ActorControl'
  BY <1>1, TaskTypeKept, ControlKept
<1>5. TaskInv'
  BY TaskKept
<1> QED
  BY <1>3, <1>4, <1>5 DEF ActorInv

(***************************************************************************)
(* The invariant holds at the start.                                       *)
(***************************************************************************)
LEMMA InitActor == ActorInit => ActorInv
<1> SUFFICES ASSUME ActorInit
             PROVE  ActorInv
  OBVIOUS
<1>1. PromiseInv
  BY InitOrder DEF ActorInit, PipelineInit, PromiseInv, OneDelta
<1>2. TaskTypeOK /\ ActorControl
  BY InitTask, InitControl
<1>3. /\ out = <<>> /\ Len(out) = 0 /\ actor = "recv" /\ finished = FALSE
      /\ shown = <<>> /\ delivered = <<>> /\ delivered \in Seq(Piece)
  BY DEF ActorInit, PipelineInit
<1>4. ShownInPlace
  <2> DEFINE ends == [k \in 0..0 |-> 0]
  <2>1. Texts(out) \in Seq(Seq(Piece)) /\ Len(Texts(out)) = 0
    <3>1. out \in Seq(Updates)
      BY <1>3
    <3> QED
      BY <1>3, <3>1, TextsType
  <2>2. ends \in Ends(Texts(out), delivered) /\ ends[0] = 0
    BY <1>3, <2>1 DEF Ends
  <2>3. SubSeq(delivered, 1, 0) = <<>> /\ SubSeq(delivered, 0 + 1, 0) = <<>>
    BY <1>3, SubSeqEmpty
  <2> HIDE DEF ends
  <2>4. InPlace(ends, shown, Texts(out), delivered, Pending)
    BY <1>3, <2>1, <2>2, <2>3 DEF InPlace, Pending
  <2> QED
    BY <2>2, <2>4 DEF ShownInPlace
<1>5. FinalIsLast /\ DoneIsAll /\ FinishedIsAll
  BY <1>3 DEF FinalIsLast, DoneIsAll, FinishedIsAll
<1> QED
  BY <1>1, <1>2, <1>4, <1>5 DEF ActorInv, TaskInv

(***************************************************************************)
(* The invariant holds throughout.                                         *)
(***************************************************************************)
LEMMA ActorHolds == ASSUME FlushesFirst PROVE ActorSpec => []ActorInv
<1>1. ActorInv /\ [ActorNext]_allVars => ActorInv'
  BY ActorKept
<1> QED
  BY <1>1, InitActor, PTL DEF ActorSpec

(***************************************************************************)
(* The update of finalize tells the application that it has everything:    *)
(* all that the producer's side accepted was in the updates before it, and *)
(* nothing follows it, because the task is done and the producer too.      *)
(***************************************************************************)
THEOREM FinalMeansAllHolds ==
  ASSUME FlushesFirst PROVE ActorSpec => []FinalMeansAll
<1>1. ActorInv => FinalMeansAll
  BY DEF ActorInv, TaskInv, FinishedIsAll, FinalMeansAll
<1> QED
  BY <1>1, ActorHolds, PTL

-----------------------------------------------------------------------------
(***************************************************************************)
(* What a chunk gave is a prefix of what send accepted: as long as the     *)
(* receiver is there it is on its way in order, and when the task has      *)
(* dropped it, it was all of it.                                           *)
(***************************************************************************)
LEMMA DeliveredIsPrefix ==
  ASSUME OrderInv, ActorControl, DoneIsAll, uiOpen, TaskTypeOK,
         NEW n \in 0..Len(delivered)
  PROVE  /\ n \in 0..Len(accepted)
         /\ SubSeq(delivered, 1, n) = SubSeq(accepted, 1, n)
<1>1. /\ delivered \in Seq(Piece) /\ buf \in Seq(Piece)
      /\ accepted \in Seq(Piece)
  BY DEF OrderInv, PipelineTypeOK, Text
<1>2. CASE ~receiverOpen
  <2>1. delivered = accepted
    BY <1>2 DEF ActorControl, DoneIsAll
  <2> QED
    BY <2>1
<1>3. CASE receiverOpen
  <2>1. PICK ends \in Ends(channel, accepted) :
          InPlace(ends, delivered \o buf, channel, accepted, Flushing \o local)
    BY <1>3 DEF OrderInv, AllInPlace, Ends
  <2>2. ends[0] \in 0..Len(accepted)
    <3>1. 0 \in 0..Len(channel)
      BY LenProperties DEF OrderInv, PipelineTypeOK
    <3> QED
      BY <2>1, <3>1 DEF Ends
  <2>3. delivered \o buf = SubSeq(accepted, 1, ends[0])
    BY <2>1 DEF InPlace
  <2>4. Len(delivered) + Len(buf) = ends[0]
        /\ Len(delivered) \in Nat /\ Len(buf) \in Nat /\ Len(accepted) \in Nat
    <3>1. Len(delivered) \in Nat /\ Len(buf) \in Nat /\ Len(accepted) \in Nat
      BY <1>1, LenProperties
    <3>2. Len(delivered \o buf) = Len(delivered) + Len(buf)
      BY <1>1, ConcatProperties
    <3>3. Len(SubSeq(accepted, 1, ends[0])) = ends[0]
      <4>1. PICK e : e = ends[0] /\ e \in Nat /\ e <= Len(accepted)
        BY <2>2, <3>1
      <4>2. Len(SubSeq(accepted, 1, e)) = e
        BY <1>1, <4>1
      <4>3. QED
        BY <4>1, <4>2
    <3>4. QED
      BY <2>3, <3>1, <3>2, <3>3
  <2>5. n \in 0..ends[0] /\ n \in 0..Len(accepted)
    BY <2>2, <2>4
  <2>6. SubSeq(delivered \o buf, 1, n) = SubSeq(delivered, 1, n)
    <3>1. SubSeq(delivered \o buf, 0 + 1, n) = SubSeq(delivered, 0 + 1, n)
      BY <1>1, SubSeqKept
    <3>2. 0 + 1 = 1
      OBVIOUS
    <3> QED
      BY <3>1, <3>2
  <2>7. SubSeq(SubSeq(accepted, 1, ends[0]), 1, n) = SubSeq(accepted, 1, n)
    <3>1. CASE n = 0
      BY <3>1, SubSeqEmpty
    <3>2. CASE n # 0
      <4>1. /\ 1 \in 1..Len(accepted) /\ ends[0] \in 1..Len(accepted)
            /\ 1 \in 1..ends[0] - 1 + 1 /\ n \in 1..ends[0] - 1 + 1
        BY <2>2, <2>5, <3>2
      <4>2. SubSeq(SubSeq(accepted, 1, ends[0]), 1, n)
              = SubSeq(accepted, 1 + 1 - 1, 1 + n - 1)
        BY <1>1, <4>1, SubSeqOfSubSeq
      <4>3. 1 + 1 - 1 = 1 /\ 1 + n - 1 = n
        BY <2>5
      <4> QED
        BY <4>2, <4>3
    <3> QED
      BY <3>1, <3>2
  <2> QED
    BY <2>3, <2>5, <2>6, <2>7
<1> QED
  BY <1>2, <1>3

(***************************************************************************)
(* Taking an update delivers a longer prefix of what was accepted, or an   *)
(* empty text.                                                             *)
(***************************************************************************)
LEMMA TakeDelivers ==
  ASSUME ActorInv, TakeUpdate
  PROVE  [Shown!Next]_Shown!dvars
<1>1. /\ uiOpen /\ out # <<>> /\ shown' = shown \o Head(out).text
      /\ UNCHANGED <<uiOpen, accepted>>
  BY DEF TakeUpdate, pipelineVars, senderVars
<1>2. /\ OrderInv /\ ActorControl /\ TaskTypeOK /\ ShownInPlace /\ DoneIsAll
  BY DEF ActorInv, PromiseInv, TaskInv
<1>3. /\ delivered \in Seq(Piece) /\ out \in Seq(Updates) /\ shown \in Seq(Piece)
      /\ Texts(out) \in Seq(Seq(Piece)) /\ uiOpen = TRUE
  BY <1>1, <1>2, TextsType DEF OrderInv, PipelineTypeOK, TaskTypeOK, Text
<1>4. Texts(out) # <<>> /\ Head(Texts(out)) = Head(out).text
  BY <1>1, <1>3, TextsTaken
<1>5. Head(out).text \in Seq(Piece)
  <2>1. Head(out) \in Updates
    BY <1>1, <1>3, HeadTailProperties
  <2> QED
    BY <2>1 DEF Updates, Text
<1>6. PICK ends \in Ends(Texts(out), delivered) :
        InPlace(ends, shown, Texts(out), delivered, Pending)
  BY <1>1, <1>2 DEF ShownInPlace
<1>7. PICK e \in Ends(Tail(Texts(out)), delivered) :
        InPlace(e, shown \o Head(Texts(out)), Tail(Texts(out)), delivered,
                Pending)
  BY <1>3, <1>4, <1>6, FirstIsTaken
<1>8. e[0] \in 0..Len(delivered)
  <2>1. Tail(Texts(out)) \in Seq(Seq(Piece))
    BY <1>3, <1>4, HeadTailProperties
  <2>2. 0 \in 0..Len(Tail(Texts(out)))
    BY <2>1, LenProperties
  <2> QED
    BY <1>7, <2>2 DEF Ends
<1>9. shown' = SubSeq(delivered, 1, e[0])
  BY <1>1, <1>4, <1>7 DEF InPlace
<1>10. e[0] \in 0..Len(accepted) /\ shown' = SubSeq(accepted, 1, e[0])
  BY <1>1, <1>2, <1>8, <1>9, DeliveredIsPrefix
<1>11. Len(shown') = e[0]
  <2>1. accepted \in Seq(Piece)
    BY <1>2 DEF OrderInv, PipelineTypeOK, Text
  <2> QED
    BY <1>10, <2>1, SubSeqLength
<1>12. CASE Head(out).text = <<>>
  <2>1. shown' = shown
    BY <1>1, <1>3, <1>12, ConcatEmptySeq
  <2> QED
    BY <1>1, <2>1 DEF Shown!dvars
<1>13. CASE Head(out).text # <<>>
  <2>1. /\ Len(shown') = Len(shown) + Len(Head(out).text)
        /\ Len(shown) \in Nat /\ Len(Head(out).text) \in Nat \ {0}
    BY <1>1, <1>3, <1>5, <1>13, ConcatProperties, LenProperties, NotEmpty
  <2>2. e[0] \in Len(shown) + 1 .. Len(accepted)
    BY <1>10, <1>11, <2>1
  <2> QED
    BY <1>1, <1>3, <1>10, <2>2 DEF Shown!Next, Shown!Deliver
<1> QED
  BY <1>12, <1>13

(***************************************************************************)
(* Every step of the actor is a step of the promise or none at all.        *)
(***************************************************************************)
LEMMA ActorStepDelivers ==
  ASSUME FlushesFirst, ActorInv, [ActorNext]_allVars
  PROVE  [Shown!Next]_Shown!dvars
<1>1. Accepts
  BY ActorKept
<1>2. ActorControl /\ TaskTypeOK
  BY DEF ActorInv
<1>3. CASE UNCHANGED <<shown, uiOpen>>
  BY <1>1, <1>3 DEF Accepts, Shown!Next, Shown!Accept, Shown!dvars
<1>4. CASE TakeUpdate
  BY <1>4, TakeDelivers
<1>5. CASE DropUpdates
  <2>1. uiOpen = TRUE /\ uiOpen' = FALSE /\ UNCHANGED <<accepted, shown>>
    BY <1>2, <1>5 DEF DropUpdates, TaskTypeOK, pipelineVars, senderVars
  <2> QED
    BY <2>1 DEF Shown!Next, Shown!Leave
<1>6. TakeUpdate \/ DropUpdates \/ UNCHANGED <<shown, uiOpen>>
  BY <1>2, ActorStep
     DEF actorVars, AwaitChunk, SendUpdate, SendUpdateFails
<1> QED
  BY <1>3, <1>4, <1>5, <1>6

(***************************************************************************)
(* The actor implements the safety of Delivery from the producer to the    *)
(* application, through both channels: what the updates have told is a     *)
(* growing prefix of what send accepted, each piece once.                  *)
(***************************************************************************)
THEOREM ActorDelivers ==
  ASSUME FlushesFirst
  PROVE  ActorSpec => Shown!Init /\ [][Shown!Next]_Shown!dvars
<1>1. ActorInit => ActorInv /\ Shown!Init
  BY InitActor DEF ActorInit, PipelineInit, Shown!Init
<1>2. ActorInv /\ [ActorNext]_allVars
        => ActorInv' /\ [Shown!Next]_Shown!dvars
  BY ActorKept, ActorStepDelivers
<1> QED
  BY <1>1, <1>2, PTL DEF ActorSpec
=============================================================================
