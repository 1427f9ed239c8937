---------------------------- MODULE StreamActor ----------------------------
(***************************************************************************)
(* spawn_mdstream_actor (mdstream-tokio/src/lib.rs): a task that owns the  *)
(* MdStream, feeds it the chunks of a CoalescingReceiver and sends every   *)
(* Update to the application over a second bounded channel.                *)
(*                                                                         *)
(* An update stands for the text it was made from: what the updates tell   *)
(* together is the subject of DocumentSync.                                *)
(***************************************************************************)
EXTENDS DeltaPipeline

CONSTANT OutCapacity   \* of the channel of updates

ASSUME OutCapacityAssumption == OutCapacity \in Nat \ {0}

VARIABLES
  actor,     \* what the task awaits: "recv", "send", or "done"
  held,      \* the update that it is sending
  out,       \* updates in the channel to the application
  uiOpen,    \* the application has not dropped its receiver
  shown,     \* history: pieces in the updates the application has received
  finished   \* the application has received the update of finalize

actorVars == <<actor, held, out, uiOpen, shown, finished>>
allVars == <<pipelineVars, actorVars>>

UpdateOf(text, final) == [text |-> text, final |-> final]

ActorInit ==
  /\ PipelineInit
  /\ actor = "recv" /\ held = UpdateOf(<<>>, FALSE)
  /\ out = <<>> /\ uiOpen = TRUE /\ shown = <<>> /\ finished = FALSE

(***************************************************************************)
(* recv().await in the loop.  A chunk is appended to the stream and the    *)
(* end of the channel finalizes it, both without an await before the send  *)
(* of the update.                                                          *)
(***************************************************************************)
\* Faulty variant: the end of the channel ends the task.
AwaitChunkOnly ==
  /\ actor = "recv"
  /\ RecvStep
  /\ \/ call' \in {"first", "loop"} /\ UNCHANGED <<actor, held>>
     \/ call' = "idle" /\ actor' = "send" /\ held' = UpdateOf(buf, FALSE)
     \/ call' = "closed" /\ actor' = "done" /\ UNCHANGED held
  /\ UNCHANGED <<out, uiOpen, shown, finished>>

AwaitChunk ==
  /\ actor = "recv"
  /\ RecvStep
  /\ \/ call' \in {"first", "loop"} /\ UNCHANGED <<actor, held>>
     \/ call' = "idle" /\ actor' = "send" /\ held' = UpdateOf(buf, FALSE)
     \/ call' = "closed" /\ actor' = "send" /\ held' = UpdateOf(<<>>, TRUE)
  /\ UNCHANGED <<out, uiOpen, shown, finished>>

(***************************************************************************)
(* tx_out.send(u).await: the update of finalize is the last.  The task     *)
(* also ends when the application is gone.  At its end the receiver is     *)
(* dropped with what is in it.                                             *)
(***************************************************************************)
ReceiverDropped ==
  /\ receiverOpen' = FALSE
  /\ channel' = <<>> /\ buf' = <<>> /\ deadline' = NoDeadline
  /\ UNCHANGED <<senderVars, opts, call, merged, chunk, delivered, gathered,
                 waited>>

\* Faulty variant: the channel of updates has no bound.
SendUpdateUnbounded ==
  /\ actor = "send" /\ uiOpen
  /\ out' = Append(out, held)
  /\ IF held.final THEN actor' = "done" /\ ReceiverDropped
     ELSE actor' = "recv" /\ UNCHANGED pipelineVars
  /\ UNCHANGED <<held, uiOpen, shown, finished>>

\* Faulty variant: an update that finds the channel full is dropped.
SendUpdateOrDrop ==
  /\ actor = "send" /\ uiOpen
  /\ out' = IF Len(out) < OutCapacity THEN Append(out, held) ELSE out
  /\ IF held.final THEN actor' = "done" /\ ReceiverDropped
     ELSE actor' = "recv" /\ UNCHANGED pipelineVars
  /\ UNCHANGED <<held, uiOpen, shown, finished>>

SendUpdate ==
  /\ actor = "send" /\ uiOpen /\ Len(out) < OutCapacity
  /\ out' = Append(out, held)
  /\ IF held.final THEN actor' = "done" /\ ReceiverDropped
     ELSE actor' = "recv" /\ UNCHANGED pipelineVars
  /\ UNCHANGED <<held, uiOpen, shown, finished>>

\* Faulty variant: the task goes on when nobody receives its updates.
SendUpdateInVain ==
  /\ actor = "send" /\ ~uiOpen
  /\ UNCHANGED <<pipelineVars, actorVars>>

SendUpdateFails ==
  /\ actor = "send" /\ ~uiOpen
  /\ actor' = "done"
  /\ ReceiverDropped
  /\ UNCHANGED <<held, out, uiOpen, shown, finished>>

(***************************************************************************)
(* The application takes an update, or drops its receiver.                 *)
(***************************************************************************)
TakeUpdate ==
  /\ uiOpen /\ out # <<>>
  /\ out' = Tail(out)
  /\ shown' = shown \o Head(out).text
  /\ finished' = Head(out).final
  /\ UNCHANGED <<pipelineVars, actor, held, uiOpen>>

DropUpdates ==
  /\ uiOpen
  /\ uiOpen' = FALSE
  /\ out' = <<>>
  /\ UNCHANGED <<pipelineVars, actor, held, shown, finished>>

ActorNext ==
  \/ SenderNext /\ UNCHANGED actorVars
  \/ Tick /\ UNCHANGED actorVars
  \/ AwaitChunk
  \/ SendUpdate
  \/ SendUpdateFails
  \/ TakeUpdate
  \/ DropUpdates

(***************************************************************************)
(* The runtime runs a task whose await is ready, the clock goes on, and an *)
(* application that keeps its receiver goes on taking updates.             *)
(***************************************************************************)
ActorSpec ==
  /\ ActorInit /\ [][ActorNext]_allVars
  /\ WF_allVars(CompleteSend /\ UNCHANGED actorVars)
  /\ WF_allVars(FailSend /\ UNCHANGED actorVars)
  /\ WF_allVars(Flush /\ UNCHANGED actorVars)
  /\ WF_allVars(Tick /\ UNCHANGED actorVars)
  /\ WF_allVars(AwaitChunk)
  /\ WF_allVars(SendUpdate)
  /\ WF_allVars(SendUpdateFails)
  /\ WF_allVars(TakeUpdate)

-----------------------------------------------------------------------------
Updates == [text : Text, final : BOOLEAN]

(***************************************************************************)
(* Every variable keeps its type, and both channels their capacity.        *)
(***************************************************************************)
ActorTypeOK ==
  /\ PipelineTypeOK
  /\ actor \in {"recv", "send", "done"}
  /\ held \in Updates
  /\ out \in Seq(Updates) /\ Len(out) <= OutCapacity
  /\ uiOpen \in BOOLEAN
  /\ shown \in Text
  /\ finished \in BOOLEAN

Shown == INSTANCE Delivery WITH delivered <- shown, open <- uiOpen

(***************************************************************************)
(* From the producer to the application, through two bounded channels,     *)
(* each accepted piece arrives once and in order, and as long as the       *)
(* application keeps its receiver all of them do.                          *)
(***************************************************************************)
InOrderUpdates == Shown!Spec

(***************************************************************************)
(* The update of finalize comes after all of the text, and nothing follows *)
(* it: an application that has it may stop.                                *)
(***************************************************************************)
FinalMeansAll == finished => shown = accepted /\ out = <<>> /\ actor = "done"

(***************************************************************************)
(* Once the producer drops the sender the application gets that update.    *)
(***************************************************************************)
FinalUpdateArrives == ~senderOpen ~> (finished \/ ~uiOpen)

(***************************************************************************)
(* An application that goes away does not leave a producer waiting, with   *)
(* two channels in a row: its send fails, so it can stop.                  *)
(***************************************************************************)
ProducerIsReleased == (sending # <<>> /\ ~uiOpen) ~> sending = <<>>
=============================================================================
