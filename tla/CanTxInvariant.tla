--------------------------- MODULE CanTxInvariant ---------------------------
(***************************************************************************)
(* What is true between any two steps of CanTx, strong enough to be shown  *)
(* one step at a time: the inductive invariant behind the theorems of      *)
(* CanDybugProofs.                                                         *)
(***************************************************************************)
EXTENDS CanTx

\* The requests counted when a transfer arrived stay within the host's
\* supply, nothing is requested while they are handled, and the second test
\* of a mailbox is about one of them.
HandlerSteps ==
    /\ taken + todo <= MaxFrames
    /\ pc = "parse" => ~armed
    /\ pc = "txRqcp" => mb <= MailboxCount

\* A mailbox has one request at most, what is on the air is the oldest, and
\* a mailbox with a new request has lost the flag of the one before.
MailboxFlags ==
    /\ \A i, j \in DOMAIN pending : pending[i] = pending[j] => i = j
    /\ onAir # NoMailbox => pending # <<>> /\ pending[1] = onAir
    /\ Requested \cap txok = {}

\* The frames in the queue and in the mailboxes came from the host.
QueueHeld == \A i \in DOMAIN QueueContents(queue) : QueueContents(queue)[i] \in 1..taken

MailboxesHeld == \A m \in Requested \cup txok : mailbox[m] \in 1..taken

FramesHeld == QueueHeld /\ MailboxesHeld

\* Frames are accounted for once: those waiting are in order and newer than
\* those sent, and each sent and unreported one is in one mailbox at most.
FramesOnce ==
    /\ Stream!InOrder
    /\ sent \subseteq 1..taken
    /\ acked \subseteq sent
    /\ TxokIsUnreported
    /\ \A m, n \in txok : mailbox[m] = mailbox[n] => m = n

ControlInv == TypeOK /\ ReceptionHasRoom /\ HandlerSteps /\ MailboxFlags

Invariant == ControlInv /\ FramesHeld /\ FramesOnce

-----------------------------------------------------------------------------
\* The loop variables have their first values between the loops.
LoopVariables ==
    /\ pc \notin {"txTxok", "txRqcp", "abort"} => mb = 1
    /\ pc \notin {"txTxok", "txRqcp"} => ~ok

\* An abort request is left only on the mailbox on the air, and the loop of
\* Can_BusError has reached every mailbox it has passed.
AbortReaches ==
    /\ abrq \subseteq {onAir} \ {NoMailbox}
    /\ pc = "abort" => \A m \in Requested : m < mb => m \in abrq

\* The running handler will still refill the mailboxes, or empty the queue.
Attends == pc \in {"parse", "outPost", "txPost", "abort"} \/ ok

\* Unless a success was lost, frames in the queue wait for one to be handled
\* or for a request; when that one is to be aborted there is a second.
QueueAttended ==
    Serving /\ ~QueueEmpty(queue) /\ ~Attends
        => \/ txok # {} \/ unseen
           \/ pending # <<>> /\ (abrq # {} => Len(pending) >= 2)

ServiceInv == Invariant /\ LoopVariables /\ AbortReaches /\ QueueAttended
=============================================================================
