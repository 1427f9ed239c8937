--------------------------- MODULE DeltaPipeline ---------------------------
(***************************************************************************)
(* The Tokio helpers of mdstream (mdstream-tokio/src/lib.rs): a            *)
(* DeltaSender puts deltas into a bounded channel under a backpressure     *)
(* policy, a CoalescingReceiver merges what arrives into larger chunks.    *)
(*                                                                         *)
(* A delta is empty or one piece of text, one byte long, with a number of  *)
(* its own; text is a sequence of pieces.  An await is a place where the   *)
(* other side, the clock, or whoever drops the future may step in; what    *)
(* the code does between two awaits is one action.  Time is counted in     *)
(* ticks and only while a deadline is running.                             *)
(***************************************************************************)
EXTENDS Integers, Sequences

CONSTANTS
  Policies,      \* the backpressure policies that the producer uses
  Capacity,      \* of the bounded channel
  LocalMax,      \* local_max_bytes
  MaxBytes,      \* opts.max_bytes
  MaxDelay,      \* opts.max_delay, in ticks
  Gates,         \* the values of flush_on_newline that the consumer uses
  Cancels,       \* the consumer drops recv futures, as select! does
  FlushesFirst,  \* the producer flushes before it changes the policy or
                 \* drops the sender
  MaxDeltas,     \* bound on the deltas sent
  MaxChanges     \* bound on the changes of options

Policy == {"Block", "DropNew", "CoalesceLocal"}

ASSUME PipelineAssumption ==
  /\ Policies \subseteq Policy /\ Policies # {}
  /\ Gates \subseteq BOOLEAN /\ Gates # {}
  /\ {Capacity, LocalMax, MaxBytes, MaxDelay, MaxDeltas} \subseteq Nat \ {0}
  /\ MaxChanges \in Nat
  /\ Cancels \in BOOLEAN
  /\ FlushesFirst \in BOOLEAN

VARIABLES
  policy,        \* the sender's policy
  local,         \* local_buf
  sending,       \* the tx.send(..).await in progress, at most one
  senderOpen,    \* the sender has not been dropped
  sent,          \* number of calls of send
  channel,       \* messages in the channel
  receiverOpen,  \* the receiver has not been dropped
  opts,          \* the options, and how often they were changed
  call,          \* where recv_with_meta is: "idle" between calls
  buf,           \* the receiver's buf
  deadline,      \* ticks until the deadline, NoDeadline for None
  merged,        \* merged_messages of the call in progress
  chunk,         \* the last CoalescedChunk returned, its text aside
  accepted,      \* history: pieces that send did not drop or refuse
  delivered,     \* history: pieces in the chunks returned so far
  gathered,      \* history: messages whose text is in buf
  waited         \* history: ticks since buf was filled or options set

senderVars == <<policy, local, sending, senderOpen, sent, accepted>>
receiverVars == <<opts, call, buf, deadline, merged, chunk, delivered,
                  gathered, waited>>
pipelineVars == <<senderVars, channel, receiverOpen, receiverVars>>

Piece == [no : 1..MaxDeltas, newline : BOOLEAN]

NoDeadline == -1

NoChunk == [reason |-> "none", merged |-> 0, messages |-> 0]

PipelineInit ==
  /\ policy \in Policies
  /\ local = <<>> /\ sending = <<>> /\ senderOpen = TRUE /\ sent = 0
  /\ channel = <<>> /\ receiverOpen = TRUE
  /\ opts \in [flush_on_newline : Gates, changes : {0}]
  /\ call = "idle" /\ buf = <<>> /\ deadline = NoDeadline /\ merged = 0
  /\ chunk = NoChunk
  /\ accepted = <<>> /\ delivered = <<>> /\ gathered = 0 /\ waited = 0

HasNewline(text) == \E k \in DOMAIN text : text[k].newline

HasRoom == Len(channel) < Capacity

-----------------------------------------------------------------------------
(***************************************************************************)
(* DeltaSender::send.                                                      *)
(***************************************************************************)
Delta ==
  {<<>>} \cup {<<[no |-> sent + 1, newline |-> b]>> : b \in BOOLEAN}

MaySend(p) == senderOpen /\ sending = <<>> /\ policy = p /\ sent < MaxDeltas

SendBlock(delta) ==
  /\ MaySend("Block")
  /\ sending' = <<[text |-> delta, flush |-> FALSE]>>
  /\ sent' = sent + 1
  /\ UNCHANGED <<policy, local, senderOpen, accepted, channel, receiverOpen,
                 receiverVars>>

SendDropNew(delta) ==
  /\ MaySend("DropNew")
  /\ sent' = sent + 1
  /\ IF receiverOpen /\ HasRoom
     THEN channel' = Append(channel, delta) /\ accepted' = accepted \o delta
     ELSE UNCHANGED <<channel, accepted>>
  /\ UNCHANGED <<policy, local, sending, senderOpen, receiverOpen,
                 receiverVars>>

(***************************************************************************)
(* send_coalesce_local: the delta goes into local_buf, and the whole of    *)
(* local_buf into the channel when it is long enough or has a newline.  A  *)
(* full channel gives it back, a closed one does not.                      *)
(***************************************************************************)
TriesToFlush(text) == Len(text) >= LocalMax \/ HasNewline(text)

KeepLocal(text) == local' = text /\ UNCHANGED channel

PushLocal(text) == channel' = Append(channel, text) /\ local' = <<>>

LoseLocal == local' = <<>> /\ UNCHANGED channel

\* Faulty variant: text that a full channel gives back is dropped.
SendCoalesceLocalOnce(delta) ==
  LET text == local \o delta
  IN  /\ MaySend("CoalesceLocal")
      /\ sent' = sent + 1
      /\ IF ~TriesToFlush(text) THEN KeepLocal(text)
         ELSE IF receiverOpen /\ HasRoom THEN PushLocal(text) ELSE LoseLocal
      /\ accepted' = accepted \o delta
      /\ UNCHANGED <<policy, sending, senderOpen, receiverOpen, receiverVars>>

SendCoalesceLocal(delta) ==
  LET text == local \o delta
  IN  /\ MaySend("CoalesceLocal")
      /\ sent' = sent + 1
      /\ \/ ~TriesToFlush(text) /\ KeepLocal(text)
         \/ TriesToFlush(text) /\ receiverOpen /\ HasRoom /\ PushLocal(text)
         \/ TriesToFlush(text) /\ receiverOpen /\ ~HasRoom /\ KeepLocal(text)
         \/ TriesToFlush(text) /\ ~receiverOpen /\ LoseLocal
      /\ accepted' = IF TriesToFlush(text) /\ ~receiverOpen THEN accepted
                     ELSE accepted \o delta
      /\ UNCHANGED <<policy, sending, senderOpen, receiverOpen, receiverVars>>

(***************************************************************************)
(* flush takes local_buf before it awaits room in the channel.             *)
(***************************************************************************)
\* Faulty variant: flush sends a copy and leaves local_buf as it is.
FlushCopies ==
  /\ senderOpen /\ sending = <<>> /\ local # <<>>
  /\ sending' = <<[text |-> local, flush |-> TRUE]>>
  /\ UNCHANGED <<policy, local, senderOpen, sent, accepted, channel,
                 receiverOpen, receiverVars>>

Flush ==
  /\ senderOpen /\ sending = <<>> /\ local # <<>>
  /\ sending' = <<[text |-> local, flush |-> TRUE]>>
  /\ local' = <<>>
  /\ UNCHANGED <<policy, senderOpen, sent, accepted, channel, receiverOpen,
                 receiverVars>>

(***************************************************************************)
(* The end of a tx.send(..).await, of send_block or of flush.              *)
(***************************************************************************)
\* Faulty variant: the channel has no bound.
CompleteSendUnbounded ==
  /\ sending # <<>> /\ receiverOpen
  /\ channel' = Append(channel, sending[1].text)
  /\ accepted' = IF sending[1].flush THEN accepted
                 ELSE accepted \o sending[1].text
  /\ sending' = <<>>
  /\ UNCHANGED <<policy, local, senderOpen, sent, receiverOpen, receiverVars>>

CompleteSend ==
  /\ sending # <<>> /\ receiverOpen /\ HasRoom
  /\ channel' = Append(channel, sending[1].text)
  /\ accepted' = IF sending[1].flush THEN accepted
                 ELSE accepted \o sending[1].text
  /\ sending' = <<>>
  /\ UNCHANGED <<policy, local, senderOpen, sent, receiverOpen, receiverVars>>

\* Faulty variant: a send that finds the receiver gone tries again.
FailSendRetrying ==
  /\ sending # <<>> /\ ~receiverOpen
  /\ UNCHANGED pipelineVars

FailSend ==
  /\ sending # <<>> /\ ~receiverOpen
  /\ sending' = <<>>
  /\ UNCHANGED <<policy, local, senderOpen, sent, accepted, channel,
                 receiverOpen, receiverVars>>

SetPolicy ==
  /\ senderOpen /\ sending = <<>>
  /\ FlushesFirst => local = <<>>
  /\ policy' \in Policies \ {policy}
  /\ UNCHANGED <<local, sending, senderOpen, sent, accepted, channel,
                 receiverOpen, receiverVars>>

(***************************************************************************)
(* The sender is dropped, with whatever is in local_buf.                   *)
(***************************************************************************)
DropSender ==
  /\ senderOpen /\ sending = <<>>
  /\ FlushesFirst => local = <<>>
  /\ senderOpen' = FALSE
  /\ local' = <<>>
  /\ UNCHANGED <<policy, sending, sent, accepted, channel, receiverOpen,
                 receiverVars>>

-----------------------------------------------------------------------------
(***************************************************************************)
(* CoalescingReceiver::recv_with_meta: up to the first await, "first" when *)
(* buf is empty, else "loop".                                              *)
(***************************************************************************)
\* Faulty variant: every call starts a new delay.
StartRecvRearming ==
  /\ receiverOpen /\ call = "idle"
  /\ call' = IF buf = <<>> THEN "first" ELSE "loop"
  /\ deadline' = IF buf = <<>> THEN deadline ELSE MaxDelay
  /\ UNCHANGED <<senderVars, channel, receiverOpen, opts, buf, merged, chunk,
                 delivered, gathered, waited>>

StartRecv ==
  /\ receiverOpen /\ call = "idle"
  /\ call' = IF buf = <<>> THEN "first" ELSE "loop"
  /\ UNCHANGED <<senderVars, channel, receiverOpen, opts, buf, deadline,
                 merged, chunk, delivered, gathered, waited>>

(***************************************************************************)
(* should_flush_reason, as the set of the reason there is.                 *)
(***************************************************************************)
FlushReason ==
  IF Len(buf) >= MaxBytes THEN {"MaxBytes"}
  ELSE IF opts.flush_on_newline /\ HasNewline(buf) THEN {"Newline"}
  ELSE {}

Awaiting == call = "first" \/ (call = "loop" /\ FlushReason = {})

TakeMessage ==
  /\ channel # <<>>
  /\ channel' = Tail(channel)
  /\ buf' = buf \o Head(channel)
  /\ merged' = merged + 1
  /\ gathered' = gathered + 1
  /\ waited' = IF buf = <<>> THEN 0 ELSE waited

ReceiveFirst ==
  /\ call = "first"
  /\ TakeMessage
  /\ deadline' = MaxDelay
  /\ call' = "loop"
  /\ UNCHANGED <<senderVars, receiverOpen, opts, chunk, delivered>>

\* Faulty variant: only the first message of a chunk is counted.
ReceiveUncounted ==
  /\ call = "loop" /\ FlushReason = {}
  /\ channel # <<>>
  /\ channel' = Tail(channel)
  /\ buf' = buf \o Head(channel)
  /\ gathered' = gathered + 1
  /\ waited' = IF buf = <<>> THEN 0 ELSE waited
  /\ UNCHANGED <<senderVars, receiverOpen, opts, call, deadline, merged,
                 chunk, delivered>>

Receive ==
  /\ call = "loop" /\ FlushReason = {}
  /\ TakeMessage
  /\ UNCHANGED <<senderVars, receiverOpen, opts, call, deadline, chunk,
                 delivered>>

(***************************************************************************)
(* take_buf, and the chunk that is returned.                               *)
(***************************************************************************)
ReturnChunk(reason) ==
  /\ chunk' = [reason |-> reason, merged |-> merged, messages |-> gathered]
  /\ delivered' = delivered \o buf
  /\ buf' = <<>> /\ deadline' = NoDeadline
  /\ merged' = 0 /\ gathered' = 0 /\ waited' = 0
  /\ call' = "idle"
  /\ UNCHANGED <<senderVars, channel, receiverOpen, opts>>

FlushNow ==
  /\ call = "loop"
  /\ \E reason \in FlushReason : ReturnChunk(reason)

(***************************************************************************)
(* timeout_at polls the channel before the timer, but not when the task's  *)
(* budget of polls is used up: at the deadline either may win.             *)
(***************************************************************************)
Timeout ==
  /\ call = "loop" /\ FlushReason = {}
  /\ deadline = 0
  /\ ReturnChunk("MaxDelay")

ChannelClosed == channel = <<>> /\ ~senderOpen /\ sending = <<>>

ReturnNone ==
  /\ call' = "closed"
  /\ UNCHANGED <<senderVars, channel, receiverOpen, opts, buf, deadline,
                 merged, chunk, delivered, gathered, waited>>

\* Faulty variant: a closed channel flushes buf but does not end the loop.
RecvClosedGoesOn ==
  /\ Awaiting
  /\ ChannelClosed
  /\ buf # <<>> /\ ReturnChunk("ChannelClosed")

\* Faulty variant: a closed channel ends the call whatever is in buf.
RecvClosedAtOnce ==
  /\ Awaiting
  /\ ChannelClosed
  /\ ReturnNone

RecvClosed ==
  /\ Awaiting
  /\ ChannelClosed
  /\ IF buf = <<>> THEN ReturnNone ELSE ReturnChunk("ChannelClosed")

(***************************************************************************)
(* The future of recv_with_meta is dropped at an await: buf and deadline   *)
(* stay, the count of merged messages is lost with the future.             *)
(***************************************************************************)
CancelRecv ==
  /\ Cancels
  /\ Awaiting
  /\ call' = "idle"
  /\ merged' = 0
  /\ UNCHANGED <<senderVars, channel, receiverOpen, opts, buf, deadline,
                 chunk, delivered, gathered, waited>>

SetOptions ==
  /\ receiverOpen /\ call = "idle"
  /\ opts.changes < MaxChanges
  /\ opts' \in [flush_on_newline : Gates, changes : {opts.changes + 1}]
  /\ deadline' = IF buf = <<>> THEN deadline ELSE MaxDelay
  /\ waited' = 0
  /\ UNCHANGED <<senderVars, channel, receiverOpen, call, buf, merged, chunk,
                 delivered, gathered>>

DropReceiver ==
  /\ receiverOpen /\ call \in {"idle", "closed"}
  /\ receiverOpen' = FALSE
  /\ channel' = <<>> /\ buf' = <<>> /\ deadline' = NoDeadline
  /\ UNCHANGED <<senderVars, opts, call, merged, chunk, delivered, gathered,
                 waited>>

(***************************************************************************)
(* The clock.  A call that waits returns as soon as its deadline is over.  *)
(***************************************************************************)
Tick ==
  /\ deadline > 0
  /\ call = "loop" => FlushReason = {}
  /\ deadline' = deadline - 1
  /\ waited' = waited + 1
  /\ UNCHANGED <<senderVars, channel, receiverOpen, opts, call, buf, merged,
                 chunk, delivered, gathered>>

-----------------------------------------------------------------------------
SenderNext ==
  \/ \E delta \in Delta :
       SendBlock(delta) \/ SendDropNew(delta) \/ SendCoalesceLocal(delta)
  \/ Flush
  \/ CompleteSend
  \/ FailSend
  \/ SetPolicy
  \/ DropSender

RecvStep ==
  \/ StartRecv
  \/ ReceiveFirst
  \/ Receive
  \/ FlushNow
  \/ Timeout
  \/ RecvClosed

PipelineNext ==
  \/ SenderNext
  \/ RecvStep
  \/ CancelRecv
  \/ SetOptions
  \/ DropReceiver
  \/ Tick

(***************************************************************************)
(* The runtime runs a task whose await is ready and the clock goes on.  A  *)
(* consumer calls recv again and again.  If it drops the future, as the    *)
(* select! of agent_tui.rs does, every new call polls the channel and the  *)
(* deadline before it can be dropped, so a message or a timeout that is    *)
(* there again and again is taken once (strong fairness).  A producer that *)
(* has buffered text flushes it, as the end of demo_stream does.           *)
(***************************************************************************)
SenderFairness ==
  /\ WF_pipelineVars(CompleteSend)
  /\ WF_pipelineVars(FailSend)
  /\ WF_pipelineVars(Flush)

ReceiverFairness ==
  /\ WF_pipelineVars(StartRecv)
  /\ SF_pipelineVars(ReceiveFirst)
  /\ SF_pipelineVars(Receive)
  /\ WF_pipelineVars(FlushNow)
  /\ SF_pipelineVars(Timeout)
  /\ SF_pipelineVars(RecvClosed)
  /\ WF_pipelineVars(Tick)

PipelineSpec ==
  /\ PipelineInit /\ [][PipelineNext]_pipelineVars
  /\ SenderFairness /\ ReceiverFairness

-----------------------------------------------------------------------------
Text == Seq(Piece)

(***************************************************************************)
(* Every variable keeps its type, and the channel its capacity.            *)
(***************************************************************************)
PipelineTypeOK ==
  /\ policy \in Policy
  /\ local \in Text
  /\ sending \in Seq([text : Text, flush : BOOLEAN]) /\ Len(sending) <= 1
  /\ senderOpen \in BOOLEAN
  /\ sent \in 0..MaxDeltas
  /\ channel \in Seq(Text) /\ Len(channel) <= Capacity
  /\ receiverOpen \in BOOLEAN
  /\ opts \in [flush_on_newline : BOOLEAN, changes : 0..MaxChanges]
  /\ call \in {"idle", "first", "loop", "closed"}
  /\ buf \in Text
  /\ deadline \in {NoDeadline} \cup 0..MaxDelay
  /\ merged \in Nat /\ gathered \in Nat /\ waited \in Nat
  /\ chunk \in [reason : {"none", "MaxBytes", "Newline", "MaxDelay",
                          "ChannelClosed"},
                merged : Nat, messages : Nat]
  /\ accepted \in Text
  /\ delivered \in Text

Flushing ==
  IF sending # <<>> /\ sending[1].flush THEN sending[1].text ELSE <<>>

(***************************************************************************)
(* The text got, the messages of ch and the text left are together the     *)
(* text acc: ch[k] has its pieces up to number ends[k].                    *)
(***************************************************************************)
InPlace(ends, got, ch, acc, left) ==
  /\ got = SubSeq(acc, 1, ends[0])
  /\ \A k \in 1..Len(ch) :
       /\ ends[k - 1] <= ends[k]
       /\ ch[k] = SubSeq(acc, ends[k - 1] + 1, ends[k])
  /\ left = SubSeq(acc, ends[Len(ch)] + 1, Len(acc))

(***************************************************************************)
(* As long as the consumer is there, every accepted piece is in exactly    *)
(* one place, and the places hold them in order: in buf, in the channel,   *)
(* in a flush that waits for room, or in local_buf.                        *)
(***************************************************************************)
AllInPlace ==
  receiverOpen =>
    \E ends \in [0..Len(channel) -> 0..Len(accepted)] :
      InPlace(ends, delivered \o buf, channel, accepted, Flushing \o local)

Promise == INSTANCE Delivery WITH open <- receiverOpen

(***************************************************************************)
(* The pipeline implements in-order delivery: what recv returns is a       *)
(* growing prefix of what send accepted, and in the end all of it.         *)
(***************************************************************************)
InOrderDelivery == Promise!Spec

(***************************************************************************)
(* max_delay is a "progress guarantee": text waits in buf at most MaxDelay *)
(* ticks from its arrival, or from a change of options, until a call       *)
(* returns it, however often calls are dropped; and a call that waits in   *)
(* the loop has a deadline, so it cannot wait for ever.                    *)
(***************************************************************************)
FlushedInTime ==
  /\ buf # <<>> => deadline # NoDeadline /\ waited + deadline <= MaxDelay
  /\ call = "loop" => deadline # NoDeadline

(***************************************************************************)
(* CoalescedChunk: merged_messages is the "Number of input messages merged *)
(* into this output chunk".                                                *)
(***************************************************************************)
MergedCounted == chunk.merged = chunk.messages

(***************************************************************************)
(* recv returns None only after it has returned every accepted piece, so a *)
(* consumer may finalize the document then.                                *)
(***************************************************************************)
EndsComplete == call = "closed" /\ receiverOpen => delivered = accepted

(***************************************************************************)
(* Once the producer drops the sender, a consumer that goes on calling     *)
(* recv is told so.                                                        *)
(***************************************************************************)
ProducerGoneIsSeen == ~senderOpen ~> (call = "closed" \/ ~receiverOpen)

(***************************************************************************)
(* Backpressure is not a deadlock: a producer that awaits room gets it, or *)
(* is told that the receiver is gone.                                      *)
(***************************************************************************)
SendReturns == sending # <<>> ~> sending = <<>>
=============================================================================
