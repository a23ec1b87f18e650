------------------------------ MODULE Reactor ------------------------------
(***************************************************************************)
(* Reactor_Dispatch: the loop that waits for ready file descriptors and    *)
(* calls their callbacks.  epoll_wait hands over a batch of pointers to    *)
(* PollData objects, and the callbacks of a batch may remove descriptors   *)
(* that come later in the same batch.                                      *)
(*                                                                         *)
(* The callbacks are modelled by what they do to the poll list: the one of *)
(* the control socket receives one datagram and may add or delete the      *)
(* timer of a connection, the one of a connection's timer may delete that  *)
(* timer, the others (telemetry timer, console) only read.                 *)
(***************************************************************************)
EXTENDS Naturals, Sequences, SequencesExt

CONSTANTS
    Timer,         \* PollData blocks of connection timers
    Permanent,     \* PollData of descriptors that are never removed
    Socket,        \* PollData of the control socket
    MaxEvents      \* REACTOR_NOF

ASSUME SocketAssumption == Socket \in Permanent /\ Permanent \cap Timer = {}
ASSUME MaxEventsAssumption == MaxEvents \in Nat \ {0}

VARIABLES
    pollList,      \* blocks whose descriptor is in the poll list
    ready,         \* the kernel's ready list, oldest first
    events,        \* reactor.events from index i on
    process        \* "running", or "undefined" after a freed block was used

reactorVars == <<pollList, ready, events, process>>

Handle == Permanent \cup Timer

IsReady(h) == h \in Range(ready)

(* A ready list without h, which is in it at most once. *)
Unready(r, h) ==
    IF h \in Range(r) THEN RemoveAt(r, CHOOSE i \in DOMAIN r : r[i] = h) ELSE r

ReactorTypeOK ==
    /\ pollList \in SUBSET Handle
    /\ ready \in Seq(Handle)
    /\ events \in Seq(Handle)
    /\ Len(events) <= MaxEvents
    /\ process \in {"running", "undefined"}

ReactorInit ==
    /\ pollList = Permanent
    /\ ready = <<>>
    /\ events = <<>>
    /\ process = "running"
-----------------------------------------------------------------------------
(***************************************************************************)
(* The kernel: level triggered, first come first served                    *)
(***************************************************************************)

(* A timer expires, a datagram or a line of input arrives. *)
BecomesReadable(h) ==
    /\ h \in pollList
    /\ ~ IsReady(h)
    /\ ready' = Append(ready, h)
    /\ UNCHANGED <<pollList, events, process>>

(* Mutant: epoll_wait is not told how many events the array holds. *)
UnlimitedBatch == Len(ready)

BatchSize == IF Len(ready) < MaxEvents THEN Len(ready) ELSE MaxEvents

(* What epoll_wait hands over goes to the end of the ready list. *)
EpollWait ==
    LET n == BatchSize
        batch == SubSeq(ready, 1, n)
    IN  /\ events = <<>>
        /\ ready # <<>>
        /\ events' = batch
        /\ ready' = SubSeq(ready, n + 1, Len(ready)) \o batch
        /\ UNCHANGED <<pollList, process>>
-----------------------------------------------------------------------------
(***************************************************************************)
(* The loop over the batch                                                 *)
(***************************************************************************)
(* Mutant: back to epoll_wait after the first callback. *)
NothingLeft == <<>>

NextEvents == Tail(events)

Removed(t) ==
    /\ pollList' = pollList \ {t}
    /\ ready' = Unready(ready, t)

(* ConnectionTimeoutHandler: the tick is read, then the FSM may delete the
   connection and with it this timer. *)
TimerCallback(t) ==
    /\ t \in Timer
    /\ \/ ready' = Unready(ready, t) /\ UNCHANGED pollList
       \/ Removed(t)

(* Mutant: the handler drains the socket, so it can delete one connection
   and create another in the same block. *)
DrainsSocket ==
    \E old \in SUBSET (Timer \cap pollList), new \in SUBSET Timer :
        /\ pollList' = (pollList \ old) \cup new
        /\ ready' = SelectSeq(ready, LAMBDA h : h \notin old \cup {Socket})

(* MessageReceiverHandler for one datagram; more may be waiting. *)
SocketCallback ==
    LET received(r) == {r, Unready(r, Socket)}
    IN  \/ /\ ready' \in received(ready)
           /\ \/ UNCHANGED pollList
              \/ \E t \in Timer \ pollList : pollList' = pollList \cup {t}
        \/ \E t \in Timer \cap pollList :
             /\ pollList' = pollList \ {t}
             /\ ready' \in received(Unready(ready, t))

(* Mutant: one of them starts a timer of its own. *)
OtherCallbackAddsTimer(h) ==
    /\ h \in Permanent \ {Socket}
    /\ ready' = Unready(ready, h)
    /\ \E t \in Timer \ pollList : pollList' = pollList \cup {t}

(* The telemetry timer and the console only read. *)
OtherCallback(h) ==
    /\ h \in Permanent \ {Socket}
    /\ ready' = Unready(ready, h)
    /\ UNCHANGED pollList

CallBack(h) ==
    /\ h \in pollList
    /\ \/ TimerCallback(h)
       \/ h = Socket /\ SocketCallback
       \/ OtherCallback(h)
    /\ UNCHANGED process

(* data.ptr points to a block that a callback of this batch has freed:
   pCallBackFn and pData are read from it. *)
UseFreed(h) ==
    /\ h \notin pollList
    /\ process' = "undefined"
    /\ UNCHANGED <<pollList, ready>>

Dispatch ==
    /\ events # <<>>
    /\ events' = NextEvents
    /\ \/ CallBack(Head(events))
       \/ UseFreed(Head(events))

Loop == process = "running" /\ (EpollWait \/ Dispatch)

ReactorNext == Loop \/ (\E h \in Handle : process = "running" /\ BecomesReadable(h))

ReactorSpec == ReactorInit /\ [][ReactorNext]_reactorVars

(* The thread does nothing but this loop and no callback blocks. *)
ReactorFairSpec == ReactorSpec /\ WF_reactorVars(Loop)
-----------------------------------------------------------------------------
(* A batch names a descriptor at most once, and one that is still in the
   poll list is still ready when its turn comes: no callback reads from a
   descriptor that has nothing for it. *)
WakesAreGenuine ==
    \A i \in DOMAIN events :
        /\ events[i] \in pollList => IsReady(events[i])
        /\ \A j \in DOMAIN events : events[i] = events[j] => i = j

(* A block freed while its event waits in the batch is not allocated for a
   new connection before the batch is done: the event is never delivered to
   a connection it was not meant for. *)
StaleIsNotReused ==
    [][\A h \in Range(events') : h \notin pollList => h \notin pollList']_reactorVars

(* Every ready descriptor has its turn, whatever arrives on the others and
   however many there are: the ground for the fair timers of ServoController. *)
EveryReadyHasItsTurn ==
    \A h \in Handle :
        IsReady(h) ~> (\/ ~ IsReady(h)
                       \/ events # <<>> /\ Head(events) = h
                       \/ process # "running")

(* Reactor.h: the loop "calles the Event handler as soon as a file
   description in the poll list is ready", so the handler it calls is that of
   a descriptor in the poll list. *)
OnlyPollListIsCalled == events # <<>> => Head(events) \in pollList
=============================================================================
