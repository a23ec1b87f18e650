---------------------------- MODULE ReactorProofs ----------------------------
(* No callback is woken for nothing, and no event of a batch reaches the next *)
(* owner of its block.  Both rest on when blocks are freed and allocated: only *)
(* the callback of the control socket frees a block other than its own, and    *)
(* only it allocates one; the socket comes up once in a batch.  So as long as  *)
(* the socket is still to come, no event left is stale.                        *)
EXTENDS Reactor, SequenceTheorems, TLAPS

(* While the socket has not had its turn, every event left is in the poll list. *)
NothingIsStaleBeforeTheSocket ==
    Socket \in Range(events) => Range(events) \subseteq pollList

(* WakesAreGenuine says the same of the events as this does of their set. *)
EventsAreGenuine ==
    /\ IsInjective(events)
    /\ Range(events) \cap pollList \subseteq Range(ready)

IInv ==
    /\ ReactorTypeOK
    /\ IsInjective(ready)
    /\ Range(ready) \subseteq pollList
    /\ EventsAreGenuine
    /\ NothingIsStaleBeforeTheSocket

-----------------------------------------------------------------------------
(* Sequences without duplicates *)

(* The elements of a sequence are those at its positions. *)
LEMMA RangeIs ==
    ASSUME NEW S, NEW s \in Seq(S)
    PROVE  /\ DOMAIN s = 1 .. Len(s) /\ Len(s) \in Nat
           /\ \A x : x \in Range(s) <=> \E i \in 1 .. Len(s) : s[i] = x
           /\ Range(s) \subseteq S
  BY RangeOfSeq DEF Range

(* What is at a position is in a part of the sequence that covers it. *)
LEMMA PartOf ==
    ASSUME NEW S, NEW s \in Seq(S), NEW m \in 1 .. Len(s) + 1, NEW n \in 0 .. Len(s)
    PROVE  /\ SubSeq(s, m, n) \in Seq(S)
           /\ Len(SubSeq(s, m, n)) = IF m <= n THEN n - m + 1 ELSE 0
           /\ \A i \in 1 .. n - m + 1 : SubSeq(s, m, n)[i] = s[m + i - 1]
  <1>1. \A i \in m .. n : s[i] \in S
    BY RangeIs
  <1> QED
    BY <1>1, SubSeqProperties, RangeIs

(* A sequence cut in two parts, the first of n elements. *)
LEMMA Cut ==
    ASSUME NEW S, NEW s \in Seq(S), NEW n \in 0 .. Len(s)
    PROVE  LET a == SubSeq(s, 1, n)
               b == SubSeq(s, n + 1, Len(s))
           IN  /\ a \in Seq(S) /\ Len(a) = n
               /\ b \in Seq(S) /\ Len(b) = Len(s) - n
               /\ \A i \in 1 .. n : a[i] = s[i]
               /\ \A i \in 1 .. Len(s) - n : b[i] = s[n + i]
  <1>0. Len(s) \in Nat
    OBVIOUS
  <1>1. /\ SubSeq(s, 1, n) \in Seq(S) /\ Len(SubSeq(s, 1, n)) = n
        /\ \A i \in 1 .. n : SubSeq(s, 1, n)[i] = s[i]
    BY <1>0, PartOf
  <1>2. /\ SubSeq(s, n + 1, Len(s)) \in Seq(S)
        /\ Len(SubSeq(s, n + 1, Len(s))) = Len(s) - n
        /\ \A i \in 1 .. Len(s) - n : SubSeq(s, n + 1, Len(s))[i] = s[n + i]
    BY <1>0, PartOf
  <1> QED
    BY <1>1, <1>2

(* Without h the list has the other elements, still once each. *)
LEMMA UnreadyProperties ==
    ASSUME NEW S, NEW s \in Seq(S), IsInjective(s), NEW h
    PROVE  /\ Unready(s, h) \in Seq(S)
           /\ IsInjective(Unready(s, h))
           /\ Range(Unready(s, h)) = Range(s) \ {h}
  <1>1. CASE h \notin Range(s)
    BY <1>1 DEF Unready
  <1>2. CASE h \in Range(s)
    <2> DEFINE k == CHOOSE i \in DOMAIN s : s[i] = h
               a == SubSeq(s, 1, k - 1)
               b == SubSeq(s, k + 1, Len(s))
    <2>1. k \in 1 .. Len(s) /\ s[k] = h
      BY <1>2, RangeIs DEF Range
    <2>2. Unready(s, h) = a \o b
      BY <1>2 DEF Unready, RemoveAt
    <2> HIDE DEF k
    <2>3. /\ a \in Seq(S) /\ Len(a) = k - 1
          /\ \A i \in 1 .. k - 1 : a[i] = s[i]
      BY <2>1, Cut, k - 1 \in 0 .. Len(s)
    <2>4. /\ b \in Seq(S) /\ Len(b) = Len(s) - k
          /\ \A i \in 1 .. Len(s) - k : b[i] = s[k + i]
      BY <2>1, Cut, k \in 0 .. Len(s)
    <2> HIDE DEF a, b
    <2> DEFINE u == a \o b
    <2>5. /\ u \in Seq(S) /\ Len(u) = Len(s) - 1
          /\ \A i \in 1 .. Len(s) - 1 : u[i] = IF i < k THEN s[i] ELSE s[i + 1]
      <3>1. /\ u \in Seq(S) /\ Len(u) = Len(a) + Len(b)
            /\ \A i \in 1 .. Len(a) + Len(b) : u[i] = IF i <= Len(a) THEN a[i] ELSE b[i - Len(a)]
        BY <2>3, <2>4, ConcatProperties
      <3>2. Len(u) = Len(s) - 1 /\ Len(s) \in Nat
        BY <2>1, <2>3, <2>4, <3>1
      <3>3. ASSUME NEW i \in 1 .. Len(s) - 1 PROVE u[i] = IF i < k THEN s[i] ELSE s[i + 1]
        <4>1. CASE i < k
          <5>1. i \in 1 .. k - 1 /\ i <= Len(a) /\ i \in 1 .. Len(a) + Len(b)
            BY <2>1, <2>3, <2>4, <3>2, <4>1
          <5> QED
            BY <2>3, <3>1, <4>1, <5>1
        <4>2. CASE ~(i < k)
          <5>1. /\ i - (k - 1) \in 1 .. Len(s) - k /\ k + (i - (k - 1)) = i + 1
                /\ ~(i <= Len(a)) /\ i \in 1 .. Len(a) + Len(b) /\ i - Len(a) = i - (k - 1)
            BY <2>1, <2>3, <2>4, <3>2, <4>2
          <5> QED
            BY <2>4, <3>1, <4>2, <5>1
        <4> QED
          BY <4>1, <4>2
      <3> QED
        BY <3>1, <3>2, <3>3
    <2> HIDE DEF u
    <2>6. IsInjective(u)
      <3> SUFFICES ASSUME NEW i \in 1 .. Len(s) - 1, NEW j \in 1 .. Len(s) - 1, u[i] = u[j]
                   PROVE  i = j
        BY <2>5, RangeIs DEF IsInjective
      <3> DEFINE at(n) == IF n < k THEN n ELSE n + 1
      <3>1. Len(s) \in Nat /\ DOMAIN s = 1 .. Len(s)
        BY RangeIs
      <3>2. at(i) \in 1 .. Len(s) /\ at(j) \in 1 .. Len(s)
        BY <2>1, <3>1
      <3>3. s[at(i)] = s[at(j)]
        BY <2>5
      <3>4. at(i) = at(j)
        BY <3>1, <3>2, <3>3 DEF IsInjective
      <3> QED
        BY <2>1, <3>1, <3>4
    <2>7. ASSUME NEW x PROVE x \in Range(u) <=> x \in Range(s) \ {h}
      <3>1. ASSUME x \in Range(u) PROVE x \in Range(s) \ {h}
        <4>1. PICK i \in 1 .. Len(s) - 1 : u[i] = x
          BY <3>1, <2>5, RangeIs
        <4>2. PICK j \in 1 .. Len(s) : j # k /\ s[j] = x
          BY <2>1, <2>5, <4>1
        <4> QED
          BY <2>1, <4>2, RangeIs DEF IsInjective
      <3>2. ASSUME x \in Range(s), x # h PROVE x \in Range(u)
        <4>1. PICK j \in 1 .. Len(s) : s[j] = x
          BY <3>2, RangeIs
        <4>2. j # k
          BY <2>1, <3>2, <4>1
        <4>3. PICK i \in 1 .. Len(s) - 1 : u[i] = x
          <5>1. CASE j < k
            BY <2>1, <2>5, <4>1, <5>1
          <5>2. CASE k < j
            <6>1. j - 1 \in 1 .. Len(s) - 1 /\ ~(j - 1 < k) /\ (j - 1) + 1 = j
              BY <2>1, <5>2
            <6> QED
              BY <2>5, <4>1, <6>1
          <5> QED
            BY <2>1, <4>2, <5>1, <5>2
        <4> QED
          BY <2>5, <4>3, RangeIs
      <3> QED
        BY <3>1, <3>2
    <2> QED
      BY <2>2, <2>5, <2>6, <2>7 DEF u
  <1> QED
    BY <1>1, <1>2

(* A list whose first n elements go to its end has the same elements. *)
LEMMA RotationProperties ==
    ASSUME NEW S, NEW s \in Seq(S), IsInjective(s), NEW n \in 0 .. Len(s)
    PROVE  LET a == SubSeq(s, 1, n)
               r == SubSeq(s, n + 1, Len(s)) \o a
           IN  /\ a \in Seq(S) /\ Len(a) = n /\ IsInjective(a) /\ Range(a) \subseteq Range(s)
               /\ r \in Seq(S) /\ IsInjective(r) /\ Range(r) = Range(s)
  <1> DEFINE a == SubSeq(s, 1, n)
             b == SubSeq(s, n + 1, Len(s))
             r == b \o a
  <1>1. Len(s) \in Nat /\ DOMAIN s = 1 .. Len(s)
    BY RangeIs
  <1>2. /\ a \in Seq(S) /\ Len(a) = n /\ \A i \in 1 .. n : a[i] = s[i]
        /\ b \in Seq(S) /\ Len(b) = Len(s) - n /\ \A i \in 1 .. Len(s) - n : b[i] = s[n + i]
    BY Cut
  <1> HIDE DEF a, b
  <1>3. IsInjective(a) /\ Range(a) \subseteq Range(s)
    <2>1. DOMAIN a = 1 .. n /\ \A i \in 1 .. n : i \in 1 .. Len(s) /\ a[i] = s[i]
      BY <1>1, <1>2, RangeIs
    <2> QED
      BY <1>1, <2>1 DEF IsInjective, Range
  <1>4. /\ r \in Seq(S) /\ Len(r) = Len(s)
        /\ \A i \in 1 .. Len(s) - n : r[i] = s[n + i]
        /\ \A i \in Len(s) - n + 1 .. Len(s) : r[i] = s[i - (Len(s) - n)]
    <2>1. /\ r \in Seq(S) /\ Len(r) = Len(b) + Len(a)
          /\ \A i \in 1 .. Len(b) + Len(a) : r[i] = IF i <= Len(b) THEN b[i] ELSE a[i - Len(b)]
      BY <1>2, ConcatProperties
    <2>2. Len(r) = Len(s)
      BY <1>1, <1>2, <2>1
    <2>3. ASSUME NEW i \in 1 .. Len(s) - n PROVE r[i] = s[n + i]
      <3>1. i \in 1 .. Len(b) + Len(a) /\ i <= Len(b)
        BY <1>1, <1>2
      <3> QED
        BY <1>2, <2>1, <3>1
    <2>4. ASSUME NEW i \in Len(s) - n + 1 .. Len(s) PROVE r[i] = s[i - (Len(s) - n)]
      <3>1. /\ i \in 1 .. Len(b) + Len(a) /\ ~(i <= Len(b))
            /\ i - Len(b) = i - (Len(s) - n) /\ i - (Len(s) - n) \in 1 .. n
        BY <1>1, <1>2
      <3> QED
        BY <1>2, <2>1, <3>1
    <2> QED
      BY <2>1, <2>2, <2>3, <2>4
  <1> HIDE DEF r
  <1> DEFINE from(i) == IF i <= Len(s) - n THEN n + i ELSE i - (Len(s) - n)
             to(j) == IF j <= n THEN j + (Len(s) - n) ELSE j - n
  <1>5. ASSUME NEW i \in 1 .. Len(s) PROVE from(i) \in 1 .. Len(s) /\ r[i] = s[from(i)]
    <2>1. CASE i <= Len(s) - n
      BY <2>1, <1>1, <1>4
    <2>2. CASE ~(i <= Len(s) - n)
      BY <2>2, <1>1, <1>4
    <2> QED
      BY <2>1, <2>2
  <1>6. \A j \in 1 .. Len(s) : to(j) \in 1 .. Len(s) /\ r[to(j)] = s[j]
    <2>1. \A j \in 1 .. Len(s) : to(j) \in 1 .. Len(s) /\ from(to(j)) = j
      BY <1>1
    <2> HIDE DEF from, to
    <2> QED
      BY <1>5, <2>1
  <1>7. \A i, j \in 1 .. Len(s) : from(i) = from(j) => i = j
    BY <1>1
  <1> HIDE DEF from, to
  <1>8. DOMAIN r = 1 .. Len(s)
    BY <1>4, RangeIs
  <1>9. IsInjective(r)
    BY <1>1, <1>5, <1>7, <1>8 DEF IsInjective
  <1>10. Range(r) = Range(s)
    BY <1>1, <1>5, <1>6, <1>8 DEF Range
  <1> QED
    BY <1>2, <1>3, <1>4, <1>9, <1>10 DEF a, b, r

(* The rest of a batch. *)
LEMMA TailProperties ==
    ASSUME NEW S, NEW s \in Seq(S), IsInjective(s), s # <<>>
    PROVE  /\ Tail(s) \in Seq(S) /\ Len(Tail(s)) = Len(s) - 1 /\ Len(s) \in Nat
           /\ IsInjective(Tail(s))
           /\ Range(Tail(s)) = Range(s) \ {Head(s)}
           /\ Head(s) \in Range(s)
  <1>1. /\ Len(s) \in Nat \ {0} /\ DOMAIN s = 1 .. Len(s)
        /\ Tail(s) \in Seq(S) /\ Len(Tail(s)) = Len(s) - 1
        /\ \A i \in 1 .. Len(s) - 1 : Tail(s)[i] = s[i + 1]
        /\ Head(s) = s[1]
    BY RangeIs, HeadTailProperties, EmptySeq
  <1>2. DOMAIN Tail(s) = 1 .. Len(s) - 1
    BY <1>1
  <1>3. IsInjective(Tail(s))
    <2> SUFFICES ASSUME NEW i \in 1 .. Len(s) - 1, NEW j \in 1 .. Len(s) - 1, Tail(s)[i] = Tail(s)[j]
                 PROVE  i = j
      BY <1>2 DEF IsInjective
    <2>1. i + 1 \in 1 .. Len(s) /\ j + 1 \in 1 .. Len(s) /\ s[i + 1] = s[j + 1]
      BY <1>1
    <2>2. i + 1 = j + 1
      BY <1>1, <2>1 DEF IsInjective
    <2> QED
      BY <2>2
  <1>4. Head(s) \in Range(s)
    BY <1>1 DEF Range
  <1>5. ASSUME NEW x \in Range(Tail(s)) PROVE x \in Range(s) \ {Head(s)}
    <2>1. PICK i \in 1 .. Len(s) - 1 : Tail(s)[i] = x
      BY <1>2 DEF Range
    <2>2. i + 1 \in 1 .. Len(s) /\ 1 \in 1 .. Len(s) /\ i + 1 # 1 /\ s[i + 1] = x
      BY <1>1, <2>1
    <2> QED
      BY <1>1, <2>2 DEF IsInjective, Range
  <1>6. ASSUME NEW x \in Range(s) \ {Head(s)} PROVE x \in Range(Tail(s))
    <2>1. PICK j \in 1 .. Len(s) : s[j] = x
      BY <1>1 DEF Range
    <2>2. j - 1 \in 1 .. Len(s) - 1 /\ (j - 1) + 1 = j
      BY <1>1, <2>1
    <2> QED
      BY <1>1, <1>2, <2>1, <2>2 DEF Range
  <1> QED
    BY <1>1, <1>3, <1>4, <1>5, <1>6

(* A list with a new element at its end. *)
LEMMA AppendKeeps ==
    ASSUME NEW S, NEW s \in Seq(S), IsInjective(s), NEW h \in S, h \notin Range(s)
    PROVE  /\ Append(s, h) \in Seq(S) /\ IsInjective(Append(s, h))
           /\ Range(Append(s, h)) = Range(s) \cup {h}
  <1>1. /\ Len(s) \in Nat /\ DOMAIN s = 1 .. Len(s)
        /\ Append(s, h) \in Seq(S) /\ DOMAIN Append(s, h) = 1 .. Len(s) + 1
        /\ \A i \in 1 .. Len(s) : Append(s, h)[i] = s[i]
        /\ Append(s, h)[Len(s) + 1] = h
    BY RangeIs, AppendProperties
  <1>2. \A i \in 1 .. Len(s) + 1 : i \in 1 .. Len(s) \/ i = Len(s) + 1
    BY <1>1
  <1>3. \A i \in 1 .. Len(s) : s[i] # h /\ i \in 1 .. Len(s) + 1
    BY <1>1 DEF Range
  <1>4. Len(s) + 1 \in 1 .. Len(s) + 1
    BY <1>1
  <1>5. IsInjective(Append(s, h))
    BY <1>1, <1>2, <1>3 DEF IsInjective
  <1>6. Range(Append(s, h)) = Range(s) \cup {h}
    BY <1>1, <1>2, <1>3, <1>4 DEF Range
  <1> QED
    BY <1>1, <1>5, <1>6

-----------------------------------------------------------------------------
(* The steps *)

LEMMA InitIInv == ReactorInit => IInv
  <1> SUFFICES ASSUME ReactorInit PROVE IInv
    OBVIOUS
  <1>1. <<>> \in Seq(Handle) /\ Len(<<>>) = 0 /\ DOMAIN <<>> = {}
    BY RangeIs
  <1>2. ReactorTypeOK
    BY <1>1, MaxEventsAssumption DEF ReactorInit, ReactorTypeOK, Handle
  <1> QED
    BY <1>1, <1>2 DEF ReactorInit, IInv, IsInjective, Range, EventsAreGenuine, NothingIsStaleBeforeTheSocket

(* Something arrives on a registered descriptor. *)
LEMMA BecomesReadableIInv ==
    ASSUME IInv, NEW h \in Handle, BecomesReadable(h)
    PROVE  IInv'
  <1>1. /\ ready' \in Seq(Handle) /\ IsInjective(ready')
        /\ Range(ready') = Range(ready) \cup {h}
    BY AppendKeeps DEF IInv, ReactorTypeOK, BecomesReadable, IsReady
  <1>2. ReactorTypeOK'
    BY <1>1 DEF IInv, ReactorTypeOK, BecomesReadable
  <1> QED
    BY <1>1, <1>2 DEF IInv, BecomesReadable, EventsAreGenuine, NothingIsStaleBeforeTheSocket

(* A new batch is taken from the ready list, so all of it is ready. *)
LEMMA EpollWaitIInv ==
    ASSUME IInv, EpollWait
    PROVE  IInv'
  <1>1. ready \in Seq(Handle) /\ IsInjective(ready) /\ BatchSize \in 0 .. Len(ready) /\ BatchSize <= MaxEvents
    BY MaxEventsAssumption DEF IInv, ReactorTypeOK, BatchSize
  <1>2. /\ events' = SubSeq(ready, 1, BatchSize)
        /\ ready' = SubSeq(ready, BatchSize + 1, Len(ready)) \o SubSeq(ready, 1, BatchSize)
        /\ pollList' = pollList /\ process' = process
    BY DEF EpollWait
  <1>3. /\ events' \in Seq(Handle) /\ Len(events') = BatchSize /\ IsInjective(events')
        /\ Range(events') \subseteq Range(ready)
        /\ ready' \in Seq(Handle) /\ IsInjective(ready') /\ Range(ready') = Range(ready)
    BY <1>1, <1>2, RotationProperties
  <1>4. ReactorTypeOK'
    BY <1>1, <1>2, <1>3 DEF IInv, ReactorTypeOK
  <1> QED
    BY <1>2, <1>3, <1>4 DEF IInv, EventsAreGenuine, NothingIsStaleBeforeTheSocket

(* What a step of the loop does to the batch. *)
LEMMA DispatchContext ==
    ASSUME IInv, Dispatch
    PROVE  /\ ready \in Seq(Handle) /\ IsInjective(ready) /\ Range(ready) \subseteq pollList
           /\ events' \in Seq(Handle) /\ Len(events') <= MaxEvents /\ IsInjective(events')
           /\ Range(events') = Range(events) \ {Head(events)}
           /\ Head(events) \in Range(events) /\ Head(events) \in Handle
  <1>1. events \in Seq(Handle) /\ IsInjective(events) /\ events # <<>> /\ events' = Tail(events)
    BY DEF IInv, ReactorTypeOK, EventsAreGenuine, Dispatch, NextEvents
  <1>2. /\ events' \in Seq(Handle) /\ Len(events') = Len(events) - 1 /\ Len(events) \in Nat
        /\ IsInjective(events') /\ Range(events') = Range(events) \ {Head(events)}
        /\ Head(events) \in Range(events)
    BY <1>1, TailProperties
  <1>3. Range(events) \subseteq Handle
    BY <1>1, RangeIs
  <1> QED
    BY <1>2, <1>3, MaxEventsAssumption DEF IInv, ReactorTypeOK

(* The callback of a timer, the telemetry or the console frees no block but its own. *)
LEMMA OwnBlockOnly ==
    ASSUME IInv, Dispatch, CallBack(Head(events)), ~SocketCallback \/ Head(events) # Socket
    PROVE  /\ ready' = Unready(ready, Head(events))
           /\ pollList' \in {pollList, pollList \ {Head(events)}}
  BY DEF CallBack, TimerCallback, Removed, OtherCallback

(* A timer that frees its own block keeps the invariant. *)
LEMMA OwnBlockIInv ==
    ASSUME IInv, Dispatch, process' = process, ready' = Unready(ready, Head(events)),
           pollList' \in {pollList, pollList \ {Head(events)}}
    PROVE  IInv'
  <1> DEFINE h == Head(events)
  <1>1. /\ ready' \in Seq(Handle) /\ IsInjective(ready') /\ Range(ready') = Range(ready) \ {h}
    BY DispatchContext, UnreadyProperties
  <1>2. ReactorTypeOK'
    BY <1>1, DispatchContext DEF IInv, ReactorTypeOK
  <1>3. EventsAreGenuine'
    BY <1>1, DispatchContext DEF IInv, EventsAreGenuine
  <1>4. NothingIsStaleBeforeTheSocket'
    BY DispatchContext DEF IInv, NothingIsStaleBeforeTheSocket
  <1> QED
    BY <1>1, <1>2, <1>3, <1>4, DispatchContext DEF IInv

(* The socket's callback may free or allocate another block; before it nothing
   in the batch was stale, and after it the socket is not in the batch. *)
LEMMA SocketIInv ==
    ASSUME IInv, Dispatch, process' = process, Head(events) = Socket, SocketCallback
    PROVE  IInv'
  <1>1. /\ Range(events) \subseteq pollList /\ Socket \notin Range(events')
        /\ Range(events') \subseteq Range(events) /\ pollList \subseteq Handle
    BY DispatchContext DEF IInv, NothingIsStaleBeforeTheSocket, ReactorTypeOK
  <1>2. PICK gone \in SUBSET Timer :
          /\ ready' \in Seq(Handle) /\ IsInjective(ready')
          /\ Range(ready') \subseteq Range(ready) \ gone
          /\ Range(ready) \ (gone \cup {Socket}) \subseteq Range(ready')
          /\ \/ pollList' = pollList \ gone
             \/ \E t \in Timer \ pollList : gone = {} /\ pollList' = pollList \cup {t}
    <2>1. CASE /\ ready' \in {ready, Unready(ready, Socket)}
               /\ \/ UNCHANGED pollList
                  \/ \E t \in Timer \ pollList : pollList' = pollList \cup {t}
      <3>1. /\ ready' \in Seq(Handle) /\ IsInjective(ready')
            /\ Range(ready') \in {Range(ready), Range(ready) \ {Socket}}
        BY <2>1, DispatchContext, UnreadyProperties
      <3> WITNESS {} \in SUBSET Timer
      <3> QED
        BY <2>1, <3>1
    <2>2. CASE \E t \in Timer \cap pollList :
                 /\ pollList' = pollList \ {t}
                 /\ ready' \in {Unready(ready, t), Unready(Unready(ready, t), Socket)}
      <3>1. PICK t \in Timer \cap pollList :
              /\ pollList' = pollList \ {t}
              /\ ready' \in {Unready(ready, t), Unready(Unready(ready, t), Socket)}
        BY <2>2
      <3>2. /\ Unready(ready, t) \in Seq(Handle) /\ IsInjective(Unready(ready, t))
            /\ Range(Unready(ready, t)) = Range(ready) \ {t}
        BY DispatchContext, UnreadyProperties
      <3>3. /\ ready' \in Seq(Handle) /\ IsInjective(ready')
            /\ Range(ready') \in {Range(ready) \ {t}, (Range(ready) \ {t}) \ {Socket}}
        BY <3>1, <3>2, UnreadyProperties
      <3> WITNESS {t} \in SUBSET Timer
      <3> QED
        BY <3>1, <3>3
    <2> QED
      BY <2>1, <2>2 DEF SocketCallback
  <1>3. ReactorTypeOK'
    BY <1>1, <1>2, DispatchContext DEF IInv, ReactorTypeOK, Handle
  <1>4. EventsAreGenuine'
    BY <1>1, <1>2, DispatchContext DEF IInv, EventsAreGenuine
  <1>5. NothingIsStaleBeforeTheSocket'
    BY <1>1 DEF NothingIsStaleBeforeTheSocket
  <1>6. Range(ready') \subseteq pollList'
    BY <1>2, DispatchContext
  <1> QED
    BY <1>2, <1>3, <1>4, <1>5, <1>6 DEF IInv

(* The use of a block that was freed keeps the invariant. *)
LEMMA UseFreedIInv ==
    ASSUME IInv, Dispatch, UseFreed(Head(events))
    PROVE  IInv'
  <1>1. ReactorTypeOK'
    BY DispatchContext DEF IInv, ReactorTypeOK, UseFreed
  <1> QED
    BY <1>1, DispatchContext DEF IInv, UseFreed, EventsAreGenuine, NothingIsStaleBeforeTheSocket

(* Every event of a batch keeps the invariant, whichever callback it runs, *)
LEMMA DispatchIInv ==
    ASSUME IInv, Dispatch
    PROVE  IInv'
  <1>1. CASE UseFreed(Head(events))
    BY <1>1, UseFreedIInv
  <1>2. CASE CallBack(Head(events)) /\ Head(events) = Socket /\ SocketCallback
    BY <1>2, SocketIInv DEF CallBack
  <1>3. CASE CallBack(Head(events)) /\ (~SocketCallback \/ Head(events) # Socket)
    <2>1. /\ ready' = Unready(ready, Head(events))
          /\ pollList' \in {pollList, pollList \ {Head(events)}}
      BY <1>3, OwnBlockOnly
    <2> QED
      BY <1>3, <2>1, OwnBlockIInv DEF CallBack
  <1> QED
    BY <1>1, <1>2, <1>3 DEF Dispatch

(* and so does every step of the reactor. *)
LEMMA NextIInv == IInv /\ [ReactorNext]_reactorVars => IInv'
  <1> SUFFICES ASSUME IInv, [ReactorNext]_reactorVars PROVE IInv'
    OBVIOUS
  <1>1. ASSUME NEW h \in Handle, BecomesReadable(h) PROVE IInv'
    BY <1>1, BecomesReadableIInv
  <1>2. CASE EpollWait
    BY <1>2, EpollWaitIInv
  <1>3. CASE Dispatch
    BY <1>3, DispatchIInv
  <1>4. CASE UNCHANGED reactorVars
    BY <1>4 DEF reactorVars, IInv, ReactorTypeOK, EventsAreGenuine, NothingIsStaleBeforeTheSocket
  <1> QED
    BY <1>1, <1>2, <1>3, <1>4 DEF ReactorNext, Loop

(* Every reachable state satisfies the inductive invariant. *)
THEOREM Invariance == ReactorSpec => []IInv
  BY InitIInv, NextIInv, PTL DEF ReactorSpec

-----------------------------------------------------------------------------
(* Every batch fits into reactor.events, and the lists have their types. *)
THEOREM TypeCorrectness == ReactorSpec => []ReactorTypeOK
  <1>1. IInv => ReactorTypeOK
    BY DEF IInv
  <1> QED
    BY Invariance, <1>1, PTL

(* No descriptor comes up twice in a batch, and none that is still registered has
   lost what it was ready for, for any number of timers and size of the batch. *)
THEOREM WakesGenuine == ReactorSpec => []WakesAreGenuine
  <1>1. IInv => WakesAreGenuine
    <2> SUFFICES ASSUME IInv PROVE WakesAreGenuine
      OBVIOUS
    <2>1. \A i \in DOMAIN events : events[i] \in Range(events)
      BY DEF Range
    <2> QED
      BY <2>1 DEF IInv, EventsAreGenuine, WakesAreGenuine, IsInjective, IsReady
  <1> QED
    BY Invariance, <1>1, PTL

(* A block that is freed while its event waits is not allocated again before the
   batch is done. *)
THEOREM StaleEventsStayStale == ReactorSpec => StaleIsNotReused
  <1> DEFINE Kept == \A h \in Range(events') : h \notin pollList => h \notin pollList'
  <1>1. IInv /\ [ReactorNext]_reactorVars => [Kept]_reactorVars
    <2> SUFFICES ASSUME IInv, ReactorNext PROVE Kept
      OBVIOUS
    <2>1. CASE (\E h \in Handle : BecomesReadable(h)) \/ EpollWait
      BY <2>1 DEF BecomesReadable, EpollWait
    <2>2. CASE Dispatch
      <3>1. Range(events') \subseteq Range(events)
        BY <2>2, DispatchContext
      <3>2. CASE UseFreed(Head(events))
        BY <3>2 DEF UseFreed
      <3>3. CASE CallBack(Head(events)) /\ Head(events) = Socket
        BY <2>2, <3>1, <3>3, DispatchContext DEF IInv, NothingIsStaleBeforeTheSocket
      <3>4. CASE CallBack(Head(events)) /\ Head(events) # Socket
        BY <2>2, <3>4, OwnBlockOnly
      <3> QED
        BY <2>2, <3>2, <3>3, <3>4 DEF Dispatch
    <2> QED
      BY <2>1, <2>2 DEF ReactorNext, Loop
  <1> QED
    BY Invariance, <1>1, PTL DEF ReactorSpec, StaleIsNotReused
=============================================================================
