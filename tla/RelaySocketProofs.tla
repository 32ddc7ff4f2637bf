-------------------------- MODULE RelaySocketProofs --------------------------
(***************************************************************************)
(* Theorems about RelaySocket, for every capacity of the buffers: no       *)
(* wakeup is missed on the way out, and the only one missed on the way in  *)
(* is the one between poll_recv's look at the queue and its registration.  *)
(***************************************************************************)
EXTENDS RelaySocket, TLAPS

----------------------------------------------------------------------------
(* Type correctness.                                                        *)

\* A queue grows only where there is room and shrinks only where there is data.
LEMMA LengthStep == TypeOK /\ [Next]_vars => Lengths'
  <1> SUFFICES ASSUME TypeOK, [Next]_vars PROVE Lengths'
    OBVIOUS
  <1> USE CapacityAssumption DEF TypeOK, Lengths, Flags, Steps, sendVars, recvVars
  <1>1. CASE WriterStep
    BY <1>1 DEF WriterStep, WriterPoll, PollWritable, RegisterWriter,
         RecheckWritable, PendOrFail, EnqueueCheck, Enqueue, EnqueueNotify,
         WriterGone, WriterEnds, NotifySender, writerStep
  <1>2. CASE SenderStep
    BY <1>2 DEF SenderStep, SendDequeue, SendDequeueWake, NextDatagramClosed,
         NextDatagramWait, KeepaliveDue, SinkSend, SenderClose,
         SenderCloseWake, WakeWriter, senderStep
  <1>3. CASE ReceiverStep
    BY <1>3 DEF ReceiverStep, StreamNext, PushCheck, Push, PushWake, PushWait,
         ReceiverClose, ReceiverCloseWake, WakeReader, receiverStep
  <1>4. CASE ReaderStep
    BY <1>4 DEF ReaderStep, ReaderPoll, RecvDequeue, ReplyCheck, Reply,
         ReplyNotify, PollRecvClosed, RegisterReader, ReaderGone, ReaderEnds,
         NotifyReceiver, NotifySender, readerStep
  <1>5. CASE DropStep
    BY <1>5 DEF DropStep, DropSendClose, DropSendNotify, DropRecvClose,
         DropRecvNotify
  <1>6. CASE UNCHANGED vars
    BY <1>6 DEF vars
  <1> QED
    BY <1>1, <1>2, <1>3, <1>4, <1>5, <1>6 DEF Next

\* The flags stay flags.
LEMMA FlagStep == TypeOK /\ [Next]_vars => Flags'
  <1> SUFFICES ASSUME TypeOK, [Next]_vars PROVE Flags'
    OBVIOUS
  <1> USE DEF TypeOK, Flags, sendVars, recvVars
  <1>1. CASE WriterStep
    <2>1. CASE WriterPoll
      BY <2>1 DEF WriterPoll, writerStep
    <2>2. CASE PollWritable
      BY <2>2 DEF PollWritable, writerStep
    <2>3. CASE RegisterWriter
      BY <2>3 DEF RegisterWriter, writerStep
    <2>4. CASE RecheckWritable
      BY <2>4 DEF RecheckWritable, writerStep
    <2>5. CASE PendOrFail
      BY <2>5 DEF PendOrFail, WriterEnds, writerStep
    <2>6. CASE EnqueueCheck
      BY <2>6 DEF EnqueueCheck, WriterEnds, writerStep
    <2>7. CASE Enqueue
      BY <2>7 DEF Enqueue, writerStep
    <2>8. CASE EnqueueNotify
      BY <2>8 DEF EnqueueNotify, NotifySender, writerStep
    <2>9. CASE WriterGone
      BY <2>9 DEF WriterGone, WriterEnds, writerStep
    <2> QED
      BY <1>1, <2>1, <2>2, <2>3, <2>4, <2>5, <2>6, <2>7, <2>8, <2>9 DEF
         WriterStep
  <1>2. CASE SenderStep
    <2>1. CASE SendDequeue
      BY <2>1 DEF SendDequeue, senderStep
    <2>2. CASE SendDequeueWake
      BY <2>2 DEF SendDequeueWake, WakeWriter, senderStep
    <2>3. CASE NextDatagramClosed
      BY <2>3 DEF NextDatagramClosed, senderStep
    <2>4. CASE NextDatagramWait
      BY <2>4 DEF NextDatagramWait, senderStep
    <2>5. CASE KeepaliveDue
      BY <2>5 DEF KeepaliveDue, senderStep
    <2>6. CASE SinkSend
      BY <2>6 DEF SinkSend, senderStep
    <2>7. CASE SenderClose
      BY <2>7 DEF SenderClose, senderStep
    <2>8. CASE SenderCloseWake
      BY <2>8 DEF SenderCloseWake, WakeWriter, senderStep
    <2> QED
      BY <1>2, <2>1, <2>2, <2>3, <2>4, <2>5, <2>6, <2>7, <2>8 DEF SenderStep
  <1>3. CASE ReceiverStep
    BY ZenonT(40), <1>3 DEF ReceiverStep, StreamNext, PushCheck, Push, PushWake, PushWait,
         ReceiverClose, ReceiverCloseWake, WakeReader, receiverStep
  <1>4. CASE ReaderStep
    <2>1. CASE ReaderPoll
      BY <2>1 DEF ReaderPoll, readerStep
    <2>2. CASE RecvDequeue
      BY <2>2 DEF RecvDequeue, NotifyReceiver, ReaderEnds, readerStep
    <2>3. CASE ReplyCheck
      BY <2>3 DEF ReplyCheck, readerStep
    <2>4. CASE Reply
      BY <2>4 DEF Reply
    <2>5. CASE ReplyNotify
      BY <2>5 DEF ReplyNotify, NotifySender
    <2>6. CASE PollRecvClosed
      BY <2>6 DEF PollRecvClosed, ReaderEnds, readerStep
    <2>7. CASE RegisterReader
      BY <2>7 DEF RegisterReader, readerStep
    <2>8. CASE ReaderGone
      BY <2>8 DEF ReaderGone, ReaderEnds, readerStep
    <2> QED
      BY <1>4, <2>1, <2>2, <2>3, <2>4, <2>5, <2>6, <2>7, <2>8 DEF ReaderStep
  <1>5. CASE DropStep
    BY ZenonT(40), <1>5 DEF DropStep, DropSendClose, DropSendNotify, DropRecvClose,
         DropRecvNotify
  <1>6. CASE UNCHANGED vars
    BY <1>6 DEF vars
  <1> QED
    BY <1>1, <1>2, <1>3, <1>4, <1>5, <1>6 DEF Next

\* Every task goes from one of its steps to another.
LEMMA StepStep == TypeOK /\ [Next]_vars => Steps'
  <1> SUFFICES ASSUME TypeOK, [Next]_vars PROVE Steps'
    OBVIOUS
  <1> USE CapacityAssumption DEF TypeOK, Lengths, Flags, Steps, sendVars, recvVars
  <1>1. CASE WriterStep
    BY <1>1 DEF WriterStep, WriterPoll, PollWritable, RegisterWriter,
         RecheckWritable, PendOrFail, EnqueueCheck, Enqueue, EnqueueNotify,
         WriterGone, WriterEnds, NotifySender, writerStep
  <1>2. CASE SenderStep
    BY <1>2 DEF SenderStep, SendDequeue, SendDequeueWake, NextDatagramClosed,
         NextDatagramWait, KeepaliveDue, SinkSend, SenderClose,
         SenderCloseWake, WakeWriter, senderStep
  <1>3. CASE ReceiverStep
    BY <1>3 DEF ReceiverStep, StreamNext, PushCheck, Push, PushWake, PushWait,
         ReceiverClose, ReceiverCloseWake, WakeReader, receiverStep
  <1>4. CASE ReaderStep
    BY <1>4 DEF ReaderStep, ReaderPoll, RecvDequeue, ReplyCheck, Reply,
         ReplyNotify, PollRecvClosed, RegisterReader, ReaderGone, ReaderEnds,
         NotifyReceiver, NotifySender, readerStep
  <1>5. CASE DropStep
    BY <1>5 DEF DropStep, DropSendClose, DropSendNotify, DropRecvClose,
         DropRecvNotify
  <1>6. CASE UNCHANGED vars
    BY <1>6 DEF vars
  <1> QED
    BY <1>1, <1>2, <1>3, <1>4, <1>5, <1>6 DEF Next

\* The buffers keep within their capacity, and every task is at one of its steps.
THEOREM TypeCorrect == Spec => []TypeOK
  <1>1. Init => TypeOK
    <2>1. Init => Lengths
      BY CapacityAssumption DEF Init, Lengths
    <2>2. Init => Flags
      BY DEF Init, Flags
    <2>3. Init => Steps
      BY DEF Init, Steps
    <2> QED
      BY <2>1, <2>2, <2>3 DEF TypeOK
  <1>2. TypeOK /\ [Next]_vars => TypeOK'
    BY LengthStep, FlagStep, StepStep DEF TypeOK
  <1> QED
    BY <1>1, <1>2, PTL DEF Spec

----------------------------------------------------------------------------
(* The inductive invariant.  Each of the promises below is about a task     *)
(* that waits; what makes it inductive is the same fact at the steps        *)
(* between the task's last look and its wait.                               *)

\* The socket is dropped when both of QUIC's tasks are gone.
DropIsLast == dropping # "no" => writer = "gone" /\ reader = "gone"

\* From its registration on, a writer that was not woken can be; from its second
\* look on, it saw a full buffer, and then an open one.
WriterCovered ==
    /\ writer \in {"recheck", "closed?", "parked"} /\ ~writerWoken => spaceWaker
    /\ writer = "closed?" /\ ~writerWoken => sendLen = Capacity \/ sender = "wake"
    /\ WritableIsNotMissed

\* From its look at the empty queue on, data for the sender comes with a permit.
SenderCovered ==
    /\ sender \in {"closed?", "await"} =>
           sendLen = 0 \/ dataReady \/ writer = "notify" \/ reader = "notify"
    /\ DataIsNotMissed

\* From its look at the full queue on, room for the receiver comes with a permit.
ReceiverCovered ==
    /\ receiver = "await" => recvLen = Capacity \/ spaceReady
    /\ SpaceIsNotMissed

\* What arrives between the reader's look and its registration is a race.
ReaderCovered ==
    /\ reader = "parked" /\ ~readerWoken => dataWaker
    /\ reader \in {"closed?", "register"} /\ recvLen > 0 => raced
    /\ reader = "register" /\ recvClosed => raced
    /\ MissedOnlyInRace

Covered ==
    DropIsLast /\ WriterCovered /\ SenderCovered /\ ReceiverCovered /\ ReaderCovered

\* The drop comes last, whatever else happens.
LEMMA DropStepLast ==
    ASSUME TypeOK, Covered, [Next]_vars
    PROVE  DropIsLast'
  <1> USE DEF TypeOK, Lengths, Flags, Steps, Covered, DropIsLast, sendVars, recvVars
  <1>1. CASE WriterStep
    BY <1>1 DEF WriterStep, WriterPoll, PollWritable, RegisterWriter,
         RecheckWritable, PendOrFail, EnqueueCheck, Enqueue, EnqueueNotify, WriterGone,
         WriterEnds, writerStep
  <1>2. CASE SenderStep
    BY <1>2 DEF SenderStep, SendDequeue, SendDequeueWake, NextDatagramClosed,
         NextDatagramWait, KeepaliveDue, SinkSend, SenderClose, SenderCloseWake, senderStep
  <1>3. CASE ReceiverStep
    BY <1>3 DEF ReceiverStep, StreamNext, PushCheck, Push, PushWake, PushWait,
         ReceiverClose, ReceiverCloseWake, receiverStep
  <1>4. CASE ReaderStep
    BY <1>4 DEF ReaderStep, ReaderPoll, RecvDequeue, ReplyCheck, Reply, ReplyNotify,
         PollRecvClosed, RegisterReader, ReaderGone, ReaderEnds, readerStep
  <1>5. CASE DropStep
    BY <1>5 DEF DropStep, DropSendClose, DropSendNotify, DropRecvClose, DropRecvNotify
  <1>6. CASE UNCHANGED vars
    BY <1>6 DEF vars
  <1> QED
    BY <1>1, <1>2, <1>3, <1>4, <1>5, <1>6 DEF Next

\* Who makes room or closes wakes the writer that registered for it.
LEMMA WriterStepCovered ==
    ASSUME TypeOK, Covered, [Next]_vars
    PROVE  WriterCovered'
  <1> USE CapacityAssumption DEF TypeOK, Lengths, Flags, Steps, Covered, DropIsLast, WriterCovered,
          WritableIsNotMissed, sendVars, recvVars
  <1>1. CASE WriterStep
    <2>1. CASE WriterPoll \/ PollWritable \/ RegisterWriter
      BY <2>1 DEF WriterPoll, PollWritable, RegisterWriter, writerStep
    <2>2. CASE RecheckWritable
      BY <2>2 DEF RecheckWritable, QueueFree, writerStep
    <2>3. CASE PendOrFail
      BY <2>3 DEF PendOrFail, WriterEnds, writerStep
    <2>4. CASE EnqueueCheck \/ Enqueue
      BY <2>4 DEF EnqueueCheck, Enqueue, WriterEnds, writerStep
    <2>5. CASE EnqueueNotify \/ WriterGone
      BY <2>5 DEF EnqueueNotify, WriterGone, WriterEnds, writerStep
    <2> QED
      BY <1>1, <2>1, <2>2, <2>3, <2>4, <2>5 DEF WriterStep
  <1>2. CASE SenderStep
    <2>1. CASE SendDequeue
      BY <2>1 DEF SendDequeue, senderStep
    <2>2. CASE SendDequeueWake \/ SenderCloseWake
      BY <2>2 DEF SendDequeueWake, SenderCloseWake, WakeWriter, senderStep
    <2>3. CASE SenderClose
      BY <2>3 DEF SenderClose, senderStep
    <2>4. CASE NextDatagramClosed \/ NextDatagramWait \/ KeepaliveDue \/ SinkSend
      BY <2>4 DEF NextDatagramClosed, NextDatagramWait, KeepaliveDue, SinkSend, senderStep
    <2> QED
      BY <1>2, <2>1, <2>2, <2>3, <2>4 DEF SenderStep
  <1>3. CASE ReceiverStep
    BY <1>3 DEF ReceiverStep, StreamNext, PushCheck, Push, PushWake, PushWait,
         ReceiverClose, ReceiverCloseWake, receiverStep
  <1>4. CASE ReaderStep
    <2>1. CASE Reply
      BY <2>1 DEF Reply, QueueFree
    <2>2. CASE ReplyNotify
      BY <2>2 DEF ReplyNotify, NotifySender
    <2> QED
      BY <1>4, <2>1, <2>2 DEF ReaderStep, ReaderPoll, RecvDequeue, ReplyCheck,
           PollRecvClosed, RegisterReader, ReaderGone, readerStep
  <1>5. CASE DropStep
    BY <1>5 DEF DropStep, DropSendClose, DropSendNotify, DropRecvClose, DropRecvNotify
  <1>6. CASE UNCHANGED vars
    BY <1>6 DEF vars
  <1> QED
    BY <1>1, <1>2, <1>3, <1>4, <1>5, <1>6 DEF Next

\* Who queues a datagram notifies the sender, or leaves a permit.
LEMMA SenderStepCovered ==
    ASSUME TypeOK, Covered, [Next]_vars
    PROVE  SenderCovered'
  <1> USE CapacityAssumption DEF TypeOK, Lengths, Flags, Steps, Covered, DropIsLast, SenderCovered,
          DataIsNotMissed, sendVars, recvVars
  <1>1. CASE WriterStep
    <2>1. CASE EnqueueNotify
      BY <2>1 DEF EnqueueNotify, NotifySender, writerStep
    <2>2. CASE Enqueue
      BY <2>2 DEF Enqueue, writerStep
    <2> QED
      BY <1>1, <2>1, <2>2 DEF WriterStep, WriterPoll, PollWritable, RegisterWriter,
           RecheckWritable, PendOrFail, EnqueueCheck, WriterGone, WriterEnds, writerStep
  <1>2. CASE SenderStep
    BY <1>2 DEF SenderStep, SendDequeue, SendDequeueWake, NextDatagramClosed,
         NextDatagramWait, KeepaliveDue, SinkSend, SenderClose, SenderCloseWake, senderStep
  <1>3. CASE ReceiverStep
    BY <1>3 DEF ReceiverStep, StreamNext, PushCheck, Push, PushWake, PushWait,
         ReceiverClose, ReceiverCloseWake, receiverStep
  <1>4. CASE ReaderStep
    <2>1. CASE Reply
      BY <2>1 DEF Reply
    <2>2. CASE ReplyNotify
      BY <2>2 DEF ReplyNotify, NotifySender
    <2> QED
      BY <1>4, <2>1, <2>2 DEF ReaderStep, ReaderPoll, RecvDequeue, ReplyCheck,
           PollRecvClosed, RegisterReader, ReaderGone, ReaderEnds, readerStep
  <1>5. CASE DropStep
    BY <1>5 DEF DropStep, DropSendClose, DropSendNotify, DropRecvClose, DropRecvNotify
  <1>6. CASE UNCHANGED vars
    BY <1>6 DEF vars
  <1> QED
    BY <1>1, <1>2, <1>3, <1>4, <1>5, <1>6 DEF Next

\* Who takes a datagram out notifies the receiver, or leaves a permit.
LEMMA ReceiverStepCovered ==
    ASSUME TypeOK, Covered, [Next]_vars
    PROVE  ReceiverCovered'
  <1> USE CapacityAssumption DEF TypeOK, Lengths, Flags, Steps, Covered, DropIsLast, ReceiverCovered,
          SpaceIsNotMissed, sendVars, recvVars
  <1>1. CASE WriterStep
    BY <1>1 DEF WriterStep, WriterPoll, PollWritable, RegisterWriter,
         RecheckWritable, PendOrFail, EnqueueCheck, Enqueue, EnqueueNotify, WriterGone,
         writerStep
  <1>2. CASE SenderStep
    BY <1>2 DEF SenderStep, SendDequeue, SendDequeueWake, NextDatagramClosed,
         NextDatagramWait, KeepaliveDue, SinkSend, SenderClose, SenderCloseWake, senderStep
  <1>3. CASE ReceiverStep
    BY <1>3 DEF ReceiverStep, StreamNext, PushCheck, Push, PushWake, PushWait,
         ReceiverClose, ReceiverCloseWake, receiverStep
  <1>4. CASE ReaderStep
    <2>1. CASE RecvDequeue
      BY <2>1 DEF RecvDequeue, NotifyReceiver, readerStep
    <2> QED
      BY <1>4, <2>1 DEF ReaderStep, ReaderPoll, ReplyCheck, Reply, ReplyNotify,
           PollRecvClosed, RegisterReader, ReaderGone, readerStep
  <1>5. CASE DropStep
    BY <1>5 DEF DropStep, DropSendClose, DropSendNotify, DropRecvClose, DropRecvNotify
  <1>6. CASE UNCHANGED vars
    BY <1>6 DEF vars
  <1> QED
    BY <1>1, <1>2, <1>3, <1>4, <1>5, <1>6 DEF Next

\* Who queues a datagram or ends the stream wakes the reader, unless it is
\* between its look and its registration.
LEMMA ReaderStepCovered ==
    ASSUME TypeOK, Covered, [Next]_vars
    PROVE  ReaderCovered'
  <1> USE CapacityAssumption DEF TypeOK, Lengths, Flags, Steps, Covered, DropIsLast, ReaderCovered,
          MissedOnlyInRace, sendVars, recvVars
  <1>1. CASE WriterStep
    BY <1>1 DEF WriterStep, WriterPoll, PollWritable, RegisterWriter,
         RecheckWritable, PendOrFail, EnqueueCheck, Enqueue, EnqueueNotify, WriterGone,
         writerStep
  <1>2. CASE SenderStep
    BY <1>2 DEF SenderStep, SendDequeue, SendDequeueWake, NextDatagramClosed,
         NextDatagramWait, KeepaliveDue, SinkSend, SenderClose, SenderCloseWake, senderStep
  <1>3. CASE ReceiverStep
    <2>1. CASE Push
      BY <2>1 DEF Push, receiverStep
    <2>2. CASE PushWake \/ ReceiverCloseWake
      BY <2>2 DEF PushWake, ReceiverCloseWake, WakeReader, receiverStep
    <2>3. CASE ReceiverClose
      BY <2>3 DEF ReceiverClose, receiverStep
    <2> QED
      BY <1>3, <2>1, <2>2, <2>3 DEF ReceiverStep, StreamNext, PushCheck, PushWait,
           receiverStep
  <1>4. CASE ReaderStep
    <2>1. CASE RecvDequeue
      BY <2>1 DEF RecvDequeue, NotifyReceiver, ReaderEnds, readerStep
    <2>2. CASE PollRecvClosed \/ RegisterReader
      BY <2>2 DEF PollRecvClosed, RegisterReader, ReaderEnds, readerStep
    <2> QED
      BY <1>4, <2>1, <2>2 DEF ReaderStep, ReaderPoll, ReplyCheck, Reply, ReplyNotify,
           ReaderGone, ReaderEnds, readerStep
  <1>5. CASE DropStep
    BY <1>5 DEF DropStep, DropSendClose, DropSendNotify, DropRecvClose, DropRecvNotify
  <1>6. CASE UNCHANGED vars
    BY <1>6 DEF vars
  <1> QED
    BY <1>1, <1>2, <1>3, <1>4, <1>5, <1>6 DEF Next

\* The invariant is inductive.
LEMMA CoveredAlways == Spec => []Covered
  <1>1. Init => Covered
    BY CapacityAssumption DEF Init, Covered, DropIsLast, WriterCovered, SenderCovered,
         ReceiverCovered, ReaderCovered, WritableIsNotMissed, DataIsNotMissed,
         SpaceIsNotMissed, MissedOnlyInRace
  <1>2. TypeOK /\ Covered /\ [Next]_vars => Covered'
    <2> SUFFICES ASSUME TypeOK, Covered, [Next]_vars PROVE Covered'
      OBVIOUS
    <2> QED
      BY DropStepLast, WriterStepCovered, SenderStepCovered, ReceiverStepCovered,
         ReaderStepCovered DEF Covered
  <1> QED
    BY <1>1, <1>2, TypeCorrect, PTL DEF Spec

\* However the threads interleave and whatever the capacity, poll_writable never
\* leaves QUIC parked beside room or a closed buffer.
THEOREM WritableNeverMissed == Spec => []WritableIsNotMissed
  <1>1. Covered => WritableIsNotMissed
    BY DEF Covered, WriterCovered
  <1> QED
    BY <1>1, CoveredAlways, PTL

\* A datagram that QUIC handed over never waits for a sender that sleeps.
THEOREM DataNeverMissed == Spec => []DataIsNotMissed
  <1>1. Covered => DataIsNotMissed
    BY DEF Covered, SenderCovered
  <1> QED
    BY <1>1, CoveredAlways, PTL

\* The websocket is read again as soon as there is room: backpressure ends.
THEOREM SpaceNeverMissed == Spec => []SpaceIsNotMissed
  <1>1. Covered => SpaceIsNotMissed
    BY DEF Covered, ReceiverCovered
  <1> QED
    BY <1>1, CoveredAlways, PTL

\* poll_recv misses a wakeup only in the window before its registration.
THEOREM MissedOnlyThere == Spec => []MissedOnlyInRace
  <1>1. Covered => MissedOnlyInRace
    BY DEF Covered, ReaderCovered
  <1> QED
    BY <1>1, CoveredAlways, PTL

=============================================================================
