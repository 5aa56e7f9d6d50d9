-------------------------------- MODULE FifoBus --------------------------------
(***************************************************************************)
(* What the message bus promises its users, without workers, locks and     *)
(* notifications: one queue per address, from which messages are taken in  *)
(* the order in which they were put there, each at most once.  A queue may *)
(* also be thrown away as a whole, when its address is initialized again   *)
(* or removed.                                                             *)
(***************************************************************************)
EXTENDS Sequences, FiniteSets, Functions

CONSTANTS Address, Message

VARIABLES
    queue,    \* the messages of each address, oldest first
    taken,    \* the messages that were handed out
    dropped   \* the messages that were thrown away

fifoVars == <<queue, taken, dropped>>

FifoTypeOK ==
    /\ queue \in [Address -> Seq(Message)]
    /\ taken \subseteq Message
    /\ dropped \subseteq Message

FifoInit ==
    /\ queue = [a \in Address |-> <<>>]
    /\ taken = {}
    /\ dropped = {}

Queued == UNION {Range(queue[a]) : a \in Address}

Put(a, m) ==
    /\ m \notin Queued \cup taken \cup dropped
    /\ queue' = [queue EXCEPT ![a] = Append(@, m)]
    /\ UNCHANGED <<taken, dropped>>

Take(a) ==
    /\ queue[a] # <<>>
    /\ queue' = [queue EXCEPT ![a] = Tail(@)]
    /\ taken' = taken \cup {Head(queue[a])}
    /\ UNCHANGED dropped

Discard(a) ==
    /\ queue[a] # <<>>
    /\ queue' = [queue EXCEPT ![a] = <<>>]
    /\ dropped' = dropped \cup Range(queue[a])
    /\ UNCHANGED taken

FifoNext ==
    \E a \in Address :
        \/ \E m \in Message : Put(a, m)
        \/ Take(a)
        \/ Discard(a)

FifoSpec == FifoInit /\ [][FifoNext]_fifoVars

=============================================================================
