----------------------------- MODULE RelaySocket -----------------------------
(***************************************************************************)
(* WebSocketUdpSocket of crates/tunnel/src/relay.rs: one end of a relayed  *)
(* tunnel.  QUIC believes it has a UDP socket; its datagrams pass through  *)
(* two bounded buffers and two tasks that own the halves of a websocket:   *)
(*                                                                         *)
(*   writer -> SendBuffer -> sender -> websocket -> receiver -> RecvBuffer *)
(*   -> reader                                                             *)
(*                                                                         *)
(* Writer and reader are QUIC's tasks (quinn is external): they poll, and  *)
(* when there is nothing to do leave a waker and park.  Sender and         *)
(* receiver are tasks of relay.rs that await a Notify.  The four run on    *)
(* several threads and meet only in a mutex around each queue, an atomic   *)
(* flag, a waker and a Notify per buffer, so each access is a step.        *)
(*                                                                         *)
(* Which datagram is in a queue does not matter to who waits for whom: a   *)
(* queue is its length, and the behaviours need no other bound.            *)
(***************************************************************************)
EXTENDS Naturals

CONSTANT Capacity   \* datagrams a buffer holds (DEFAULT_BUFFER_CAPACITY)

ASSUME CapacityAssumption == Capacity \in Nat \ {0}

VARIABLES
    sendLen,       \* length of SendBuffer.queue
    sendClosed,    \* SendBuffer.closed
    dataReady,     \* SendBuffer.data_ready holds a permit
    spaceWaker,    \* SendBuffer.space_waker is registered
    writer,        \* where the task that sends datagrams is
    writerWoken,   \* it has been woken since its poll began
    sender,        \* where run_sender_generic is
    recvLen,       \* length of RecvBuffer.queue
    recvClosed,    \* RecvBuffer.closed
    spaceReady,    \* RecvBuffer.space_available holds a permit
    dataWaker,     \* RecvBuffer.data_waker is registered
    reader,        \* where the task that receives datagrams is
    readerWoken,   \* it has been woken since its poll began
    receiver,      \* where run_receiver_generic is
    dropping,      \* how far the drop of the socket is
    raced          \* history: data or the end came between the reader's check
                   \* and its registration

sendVars == <<sendLen, sendClosed, dataReady, spaceWaker, writer, writerWoken, sender>>
recvVars == <<recvLen, recvClosed, spaceReady, dataWaker, reader, readerWoken,
              receiver, raced>>
vars == <<sendVars, recvVars, dropping>>

Init ==
    /\ sendLen = 0 /\ recvLen = 0
    /\ sendClosed = FALSE /\ recvClosed = FALSE
    /\ dataReady = FALSE /\ spaceReady = FALSE
    /\ spaceWaker = FALSE /\ dataWaker = FALSE
    /\ writer = "idle" /\ writerWoken = FALSE
    /\ sender = "dequeue"
    /\ reader = "dequeue" /\ readerWoken = FALSE
    /\ receiver = "next"
    /\ dropping = "no"
    /\ raced = FALSE

----------------------------------------------------------------------------
(* Wakers and notifications, which are tokio's and futures'.                *)

\* space_waker.wake(): takes the waker, if there is one, and has its task polled.
WakeWriter ==
    /\ writerWoken' = (writerWoken \/ spaceWaker)
    /\ spaceWaker' = FALSE

\* data_waker.wake().
WakeReader ==
    /\ readerWoken' = (readerWoken \/ dataWaker)
    /\ dataWaker' = FALSE

\* Mutant: the sender is notified only if it waits; no permit is kept.
NotifySenderIfWaiting ==
    /\ sender' = IF sender = "waiting" THEN "dequeue" ELSE sender
    /\ UNCHANGED dataReady

\* data_ready.notify_one(): resumes a waiting task, or keeps a permit.
NotifySender ==
    IF sender = "waiting" THEN sender' = "dequeue" /\ UNCHANGED dataReady
                          ELSE dataReady' = TRUE /\ UNCHANGED sender

\* Mutant: the receiver is notified only if it waits; no permit is kept.
NotifyReceiverIfWaiting ==
    /\ receiver' = IF receiver = "waiting" THEN "check" ELSE receiver
    /\ UNCHANGED spaceReady

\* space_available.notify_one().
NotifyReceiver ==
    IF receiver = "waiting" THEN receiver' = "check" /\ UNCHANGED spaceReady
                            ELSE spaceReady' = TRUE /\ UNCHANGED receiver

\* The sender's dequeue holds the mutex of the queue while it wakes the writer.
QueueFree == sender # "wake"

----------------------------------------------------------------------------
(* The writer: poll_writable, then try_send.                                *)

writerStep == <<recvVars, dropping, sendClosed>>

\* The connection is over, after an error of the socket or otherwise, and its
\* task with it: its waker wakes nobody.
WriterEnds == writer' = "gone" /\ spaceWaker' = FALSE /\ writerWoken' = FALSE

\* QUIC has a datagram to send, or polls again: because it was woken, or for a
\* reason of its own.
WriterPoll ==
    /\ writer \in {"idle", "parked"}
    /\ writer' = "writable"
    /\ writerWoken' = FALSE
    /\ UNCHANGED <<writerStep, sendLen, dataReady, spaceWaker, sender>>

\* has_capacity, before the waker is registered and again after it.
PollWritable ==
    /\ writer = "writable" /\ QueueFree
    /\ writer' = IF sendLen < Capacity THEN "enqueue" ELSE "register"
    /\ UNCHANGED <<writerStep, sendLen, dataReady, spaceWaker, writerWoken, sender>>

\* Mutant: the capacity is not looked at again after the registration.
RegisterAndPark ==
    /\ writer = "register"
    /\ spaceWaker' = TRUE
    /\ writer' = "closed?"
    /\ UNCHANGED <<writerStep, sendLen, dataReady, writerWoken, sender>>

RegisterWriter ==
    /\ writer = "register"
    /\ spaceWaker' = TRUE
    /\ writer' = "recheck"
    /\ UNCHANGED <<writerStep, sendLen, dataReady, writerWoken, sender>>

RecheckWritable ==
    /\ writer = "recheck" /\ QueueFree
    /\ writer' = IF sendLen < Capacity THEN "enqueue" ELSE "closed?"
    /\ UNCHANGED <<writerStep, sendLen, dataReady, spaceWaker, writerWoken, sender>>

PendOrFail ==
    /\ writer = "closed?"
    /\ IF sendClosed THEN WriterEnds
                     ELSE writer' = "parked" /\ UNCHANGED <<spaceWaker, writerWoken>>
    /\ UNCHANGED <<writerStep, sendLen, dataReady, sender>>

\* try_send: enqueue refuses when the buffer is closed...
EnqueueCheck ==
    /\ writer = "enqueue"
    /\ IF sendClosed THEN WriterEnds
                     ELSE writer' = "push" /\ UNCHANGED <<spaceWaker, writerWoken>>
    /\ UNCHANGED <<writerStep, sendLen, dataReady, sender>>

\* ...or, with WouldBlock, when it is full, and QUIC asks for room again.
Enqueue ==
    /\ writer = "push" /\ QueueFree
    /\ IF sendLen < Capacity
          THEN sendLen' = sendLen + 1 /\ writer' = "notify"
          ELSE writer' = "writable" /\ UNCHANGED sendLen
    /\ UNCHANGED <<writerStep, dataReady, spaceWaker, writerWoken, sender>>

EnqueueNotify ==
    /\ writer = "notify"
    /\ NotifySender
    /\ writer' = "idle"
    /\ UNCHANGED <<writerStep, sendLen, spaceWaker, writerWoken>>

\* The connection is over for another reason.
WriterGone ==
    /\ writer \in {"idle", "parked"}
    /\ WriterEnds
    /\ UNCHANGED <<writerStep, sendLen, dataReady, sender>>

----------------------------------------------------------------------------
(* run_sender_generic.                                                      *)

senderStep == <<recvVars, dropping, writer>>

\* next_datagram: pops a datagram; the mutex is kept until the writer is woken.
SendDequeue ==
    /\ sender = "dequeue"
    /\ IF sendLen > 0 THEN sendLen' = sendLen - 1 /\ sender' = "wake"
                      ELSE sender' = "closed?" /\ UNCHANGED sendLen
    /\ UNCHANGED <<senderStep, sendClosed, dataReady, spaceWaker, writerWoken>>

\* Mutant: the writer is not told of the room.
SendDequeueSilent ==
    /\ sender = "wake"
    /\ sender' = "send"
    /\ UNCHANGED <<senderStep, sendLen, sendClosed, dataReady, spaceWaker, writerWoken>>

SendDequeueWake ==
    /\ sender = "wake"
    /\ WakeWriter
    /\ sender' = "send"
    /\ UNCHANGED <<senderStep, sendLen, sendClosed, dataReady>>

NextDatagramClosed ==
    /\ sender = "closed?"
    /\ sender' = IF sendClosed THEN "close" ELSE "await"
    /\ UNCHANGED <<senderStep, sendLen, sendClosed, dataReady, spaceWaker, writerWoken>>

\* data_ready.notified().await: takes the permit, or waits.
NextDatagramWait ==
    /\ sender = "await"
    /\ sender' = IF dataReady THEN "dequeue" ELSE "waiting"
    /\ dataReady' = FALSE
    /\ UNCHANGED <<senderStep, sendLen, sendClosed, spaceWaker, writerWoken>>

\* Mutant: no keepalive interval.
NoKeepalive == FALSE /\ UNCHANGED vars

\* Nothing to send for WEBSOCKET_KEEPALIVE_INTERVAL: a ping is due.
KeepaliveDue ==
    /\ sender = "waiting"
    /\ sender' = "ping"
    /\ UNCHANGED <<senderStep, sendLen, sendClosed, dataReady, spaceWaker, writerWoken>>

\* The websocket takes the datagram or the ping, or fails.
SinkSend ==
    /\ sender \in {"send", "ping"}
    /\ sender' \in {"dequeue", "close"}
    /\ UNCHANGED <<senderStep, sendLen, sendClosed, dataReady, spaceWaker, writerWoken>>

\* close: the flag, then waiting tasks (notify_waiters keeps no permit, and the
\* only task that waits there is the one that runs), then the waker.
SenderClose ==
    /\ sender = "close"
    /\ sendClosed' = TRUE
    /\ sender' = "closing"
    /\ UNCHANGED <<senderStep, sendLen, dataReady, spaceWaker, writerWoken>>

SenderCloseWake ==
    /\ sender = "closing"
    /\ WakeWriter
    /\ sender' = "done"
    /\ UNCHANGED <<senderStep, sendLen, sendClosed, dataReady>>

----------------------------------------------------------------------------
(* run_receiver_generic.                                                    *)

receiverStep == <<sendVars, dropping, reader>>

\* The websocket delivers a datagram, or ends.
StreamNext ==
    /\ receiver = "next"
    /\ receiver' \in {"check", "close"}
    /\ UNCHANGED <<receiverStep, recvLen, recvClosed, spaceReady, dataWaker,
                   readerWoken, raced>>

\* push: refused once the buffer is closed, and the task ends.
PushCheck ==
    /\ receiver = "check"
    /\ receiver' = IF recvClosed THEN "close" ELSE "push"
    /\ UNCHANGED <<receiverStep, recvLen, recvClosed, spaceReady, dataWaker,
                   readerWoken, raced>>

\* Mutant: one datagram more than the capacity.
PushOverfull ==
    /\ receiver = "push"
    /\ IF recvLen <= Capacity
          THEN /\ recvLen' = recvLen + 1
               /\ receiver' = "wake"
               /\ raced' = (raced \/ reader \in {"closed?", "register"})
          ELSE receiver' = "await" /\ UNCHANGED <<recvLen, raced>>
    /\ UNCHANGED <<receiverStep, recvClosed, spaceReady, dataWaker, readerWoken>>

Push ==
    /\ receiver = "push"
    /\ IF recvLen < Capacity
          THEN /\ recvLen' = recvLen + 1
               /\ receiver' = "wake"
               /\ raced' = (raced \/ reader \in {"closed?", "register"})
          ELSE receiver' = "await" /\ UNCHANGED <<recvLen, raced>>
    /\ UNCHANGED <<receiverStep, recvClosed, spaceReady, dataWaker, readerWoken>>

\* Mutant: the reader is not told of the datagram.
PushSilent ==
    /\ receiver = "wake"
    /\ receiver' = "next"
    /\ UNCHANGED <<receiverStep, recvLen, recvClosed, spaceReady, dataWaker,
                   readerWoken, raced>>

PushWake ==
    /\ receiver = "wake"
    /\ WakeReader
    /\ receiver' = "next"
    /\ UNCHANGED <<receiverStep, recvLen, recvClosed, spaceReady, raced>>

\* space_available.notified().await: takes the permit, or waits.
PushWait ==
    /\ receiver = "await"
    /\ receiver' = IF spaceReady THEN "check" ELSE "waiting"
    /\ spaceReady' = FALSE
    /\ UNCHANGED <<receiverStep, recvLen, recvClosed, dataWaker, readerWoken, raced>>

ReceiverClose ==
    /\ receiver = "close"
    /\ recvClosed' = TRUE
    /\ raced' = (raced \/ reader = "register")
    /\ receiver' = "closing"
    /\ UNCHANGED <<receiverStep, recvLen, spaceReady, dataWaker, readerWoken>>

ReceiverCloseWake ==
    /\ receiver = "closing"
    /\ WakeReader
    /\ receiver' = "done"
    /\ UNCHANGED <<receiverStep, recvLen, recvClosed, spaceReady, raced>>

----------------------------------------------------------------------------
(* The reader: poll_recv until it is pending or fails.                      *)

readerStep == <<sendVars, dropping, recvClosed>>

\* The endpoint is over, after an error of the socket or otherwise.
ReaderEnds ==
    reader' = "gone" /\ dataWaker' = FALSE /\ readerWoken' = FALSE /\ raced' = FALSE

\* The reader was woken, or QUIC polls it for a reason of its own.
ReaderPoll ==
    /\ reader = "parked"
    /\ reader' = "dequeue"
    /\ readerWoken' = FALSE
    /\ raced' = FALSE
    /\ UNCHANGED <<readerStep, recvLen, spaceReady, dataWaker, receiver>>

\* dequeue notifies under the mutex: one step for the receiver.  A datagram
\* larger than QUIC's buffer is lost, and an error of the socket.
RecvDequeue ==
    /\ reader = "dequeue"
    /\ IF recvLen > 0
          THEN /\ recvLen' = recvLen - 1
               /\ NotifyReceiver
               /\ \/ ReaderEnds
                  \/ UNCHANGED <<reader, dataWaker, readerWoken, raced>>
          ELSE /\ reader' = "closed?"
               /\ UNCHANGED <<recvLen, spaceReady, receiver, dataWaker, readerWoken, raced>>
    /\ UNCHANGED readerStep

PollRecvClosed ==
    /\ reader = "closed?"
    /\ IF recvClosed THEN ReaderEnds
                     ELSE reader' = "register" /\ UNCHANGED <<dataWaker, readerWoken, raced>>
    /\ UNCHANGED <<readerStep, recvLen, spaceReady, receiver>>

\* QUIC's endpoint answers some datagrams itself, with a try_send that has not
\* asked for room and whose failure it ignores.
ReplyCheck ==
    /\ reader = "dequeue"
    /\ ~sendClosed
    /\ reader' = "push"
    /\ UNCHANGED <<readerStep, recvLen, spaceReady, dataWaker, readerWoken, receiver,
                   raced>>

Reply ==
    /\ reader = "push" /\ QueueFree
    /\ IF sendLen < Capacity
          THEN sendLen' = sendLen + 1 /\ reader' = "notify"
          ELSE reader' = "dequeue" /\ UNCHANGED sendLen
    /\ UNCHANGED <<dropping, recvClosed, recvLen, spaceReady, dataWaker, readerWoken,
                   receiver, raced, sendClosed, dataReady, spaceWaker, writer,
                   writerWoken, sender>>

ReplyNotify ==
    /\ reader = "notify"
    /\ NotifySender
    /\ reader' = "dequeue"
    /\ UNCHANGED <<dropping, recvClosed, recvLen, spaceReady, dataWaker, readerWoken,
                   receiver, raced, sendLen, sendClosed, spaceWaker, writer,
                   writerWoken>>

\* The waker is registered last; the queue is not looked at again.
RegisterReader ==
    /\ reader = "register"
    /\ dataWaker' = TRUE
    /\ reader' = "parked"
    /\ UNCHANGED <<readerStep, recvLen, spaceReady, readerWoken, receiver, raced>>

ReaderGone ==
    /\ reader = "parked"
    /\ ReaderEnds
    /\ UNCHANGED <<readerStep, recvLen, spaceReady, receiver>>

----------------------------------------------------------------------------
(* Drop: both of QUIC's tasks have let go of the socket.  Nobody is left to *)
(* be woken; each close is the flag, then notify_waiters.                   *)

DropSendClose ==
    /\ dropping = "no" /\ writer = "gone" /\ reader = "gone"
    /\ sendClosed' = TRUE
    /\ dropping' = "send"
    /\ UNCHANGED <<recvVars, sendLen, dataReady, spaceWaker, writer, writerWoken, sender>>

DropSendNotify ==
    /\ dropping = "send"
    /\ sender' = IF sender = "waiting" THEN "dequeue" ELSE sender
    /\ dropping' = "recv"
    /\ UNCHANGED <<recvVars, sendLen, sendClosed, dataReady, spaceWaker, writer,
                   writerWoken>>

DropRecvClose ==
    /\ dropping = "recv"
    /\ recvClosed' = TRUE
    /\ dropping' = "notify"
    /\ UNCHANGED <<sendVars, recvLen, spaceReady, dataWaker, reader, readerWoken,
                   receiver, raced>>

DropRecvNotify ==
    /\ dropping = "notify"
    /\ receiver' = IF receiver = "waiting" THEN "check" ELSE receiver
    /\ dropping' = "done"
    /\ UNCHANGED <<sendVars, recvLen, recvClosed, spaceReady, dataWaker, reader,
                   readerWoken, raced>>

----------------------------------------------------------------------------

WriterStep ==
    \/ WriterPoll \/ PollWritable \/ RegisterWriter \/ RecheckWritable \/ PendOrFail
    \/ EnqueueCheck \/ Enqueue \/ EnqueueNotify \/ WriterGone

SenderStep ==
    \/ SendDequeue \/ SendDequeueWake \/ NextDatagramClosed \/ NextDatagramWait
    \/ KeepaliveDue \/ SinkSend \/ SenderClose \/ SenderCloseWake

ReceiverStep ==
    \/ StreamNext \/ PushCheck \/ Push \/ PushWake \/ PushWait
    \/ ReceiverClose \/ ReceiverCloseWake

ReaderStep ==
    \/ ReaderPoll \/ RecvDequeue \/ ReplyCheck \/ Reply \/ ReplyNotify
    \/ PollRecvClosed \/ RegisterReader \/ ReaderGone

DropStep == DropSendClose \/ DropSendNotify \/ DropRecvClose \/ DropRecvNotify

Next == WriterStep \/ SenderStep \/ ReceiverStep \/ ReaderStep \/ DropStep

Spec == Init /\ [][Next]_vars

\* tokio runs the sender when it can run, its timer fires, and a parked task that
\* was woken is polled again.  Weak fairness of SinkSend assumes of the peer and the
\* network that the websocket takes a frame or fails in the end: a send that hangs
\* for ever is excluded.  Nothing is assumed of the reader, or of what QUIC sends.
FairSpec ==
    /\ Spec
    /\ WF_vars(SenderStep)
    /\ WF_vars(WriterPoll /\ writer = "parked" /\ writerWoken)

----------------------------------------------------------------------------
(* Properties.                                                              *)

Lengths == sendLen \in 0 .. Capacity /\ recvLen \in 0 .. Capacity

Flags ==
    /\ sendClosed \in BOOLEAN /\ recvClosed \in BOOLEAN
    /\ dataReady \in BOOLEAN /\ spaceReady \in BOOLEAN
    /\ spaceWaker \in BOOLEAN /\ dataWaker \in BOOLEAN
    /\ writerWoken \in BOOLEAN /\ readerWoken \in BOOLEAN /\ raced \in BOOLEAN

Steps ==
    /\ writer \in {"idle", "writable", "register", "recheck", "closed?", "parked",
                   "enqueue", "push", "notify", "gone"}
    /\ sender \in {"dequeue", "wake", "send", "closed?", "await", "waiting", "ping",
                   "close", "closing", "done"}
    /\ receiver \in {"next", "check", "push", "wake", "await", "waiting", "close",
                     "closing", "done"}
    /\ reader \in {"dequeue", "push", "notify", "closed?", "register", "parked",
                   "gone"}
    /\ dropping \in {"no", "send", "recv", "notify", "done"}

\* Every task is at one of its steps, and a buffer holds at most its capacity.
TypeOK == Lengths /\ Flags /\ Steps

\* A writer that parked and was not woken has nothing to be woken for: the buffer
\* is full and open, or the step that wakes it is next.  The registration falls
\* between two looks at the queue so that room made in between is not missed.
WritableIsNotMissed ==
    writer = "parked" /\ ~writerWoken =>
        \/ sendLen = Capacity /\ ~sendClosed
        \/ sender \in {"wake", "closing"}

\* The sender waits for data only while there is none, or while the task that
\* put it there is about to notify: a datagram queued between the sender's look
\* at the queue and its wait has left a permit.
DataIsNotMissed ==
    sender = "waiting" => sendLen = 0 \/ writer = "notify" \/ reader = "notify"

\* The receiver waits for room only while there is none: room made between its
\* look at the queue and its wait has left a permit.
SpaceIsNotMissed == receiver = "waiting" => recvLen = Capacity

\* A reader that parked and was not woken although there is a datagram for it, or
\* the end of the stream, had that arrive between its look at the queue (or the
\* flag) and its registration; every other arrival wakes it.
MissedOnlyInRace ==
    reader = "parked" /\ ~readerWoken /\ (recvLen > 0 \/ recvClosed) =>
        raced \/ receiver \in {"wake", "closing"}

\* A sender of a closed buffer ends, although close() wakes it only if it already
\* waits: the keepalive makes it look again.
ClosedSenderEnds == sendClosed ~> sender = "done"

\* A writer that waits for room is polled again or goes away: the sender makes room or closes.
ParkedWriterResumes == writer = "parked" ~> writer # "parked"

=============================================================================
