---------------------- MODULE SignalingListenerProofs ----------------------
(***************************************************************************)
(* The safety properties of SignalingListener, for every capture, capacity *)
(* and number of start()s.                                                 *)
(***************************************************************************)
EXTENDS SignalingListener, SequenceTheorems, FiniteSetTheorems, TLAPS

Steps == {"absent", "loop", "get", "register", "wait", "called", "woken", "callback", "ended"}
Consumer == [at : Steps, event : Events]
ThreadSteps == {"none", "starting", "idle", "put", "wake", "set", "ended"}
Thread == [at : ThreadSteps, event : Events, getter : Starts \cup {0}]

----------------------------------------------------------------------------
(* Sequences without repetition.                                           *)

\* The rest of a sequence without repetition has no longer its head.
LEMMA TailOfInjective ==
    ASSUME NEW S, NEW s \in Seq(S), s # << >>, IsInjective(s)
    PROVE  /\ Head(s) \in S /\ Head(s) \in ToSet(s)
           /\ Tail(s) \in Seq(S) /\ IsInjective(Tail(s))
           /\ ToSet(Tail(s)) = ToSet(s) \ {Head(s)}
<1>1. Len(s) \in Nat /\ Len(s) > 0 /\ DOMAIN s = 1..Len(s) /\ Head(s) = s[1]
  BY EmptySeq, LenProperties
<1>2. /\ Head(s) \in S /\ Tail(s) \in Seq(S) /\ Len(Tail(s)) = Len(s) - 1
      /\ \A i \in 1..Len(Tail(s)) : Tail(s)[i] = s[i + 1]
  BY HeadTailProperties
<1>3. DOMAIN Tail(s) = 1..(Len(s) - 1)
  BY <1>2, LenProperties
<1>4. \A i \in DOMAIN Tail(s) : Tail(s)[i] = s[i + 1] /\ i + 1 \in DOMAIN s
  BY <1>1, <1>2, <1>3
<1>5. IsInjective(Tail(s))
  BY <1>1, <1>3, <1>4 DEF IsInjective
<1>6. ToSet(Tail(s)) = ToSet(s) \ {Head(s)}
  <2>1. ASSUME NEW x \in ToSet(Tail(s)) PROVE x \in ToSet(s) \ {Head(s)}
    <3>1. PICK i \in DOMAIN Tail(s) : x = Tail(s)[i]
      BY DEF ToSet
    <3>2. x = s[i + 1] /\ i + 1 \in DOMAIN s /\ i + 1 # 1 /\ 1 \in DOMAIN s
      BY <3>1, <1>1, <1>3, <1>4
    <3> QED
      BY <3>2, <1>1 DEF ToSet, IsInjective
  <2>2. ASSUME NEW x \in ToSet(s) \ {Head(s)} PROVE x \in ToSet(Tail(s))
    <3>1. PICK i \in DOMAIN s : x = s[i]
      BY DEF ToSet
    <3>2. i # 1 /\ i - 1 \in DOMAIN Tail(s) /\ Tail(s)[i - 1] = x
      BY <3>1, <1>1, <1>3, <1>4
    <3> QED
      BY <3>2 DEF ToSet
  <2> QED
    BY <2>1, <2>2
<1>7. Head(s) \in ToSet(s)
  BY <1>1 DEF ToSet
<1> QED
  BY <1>2, <1>5, <1>6, <1>7

\* A sequence that is not empty is its head, followed by the rest.
LEMMA HeadThenTail ==
    ASSUME NEW S, NEW s \in Seq(S), s # << >>
    PROVE  <<Head(s)>> \in Seq(S) /\ s = <<Head(s)>> \o Tail(s)
<1> DEFINE h == <<Head(s)>>
<1>1. /\ Head(s) \in S /\ Tail(s) \in Seq(S) /\ Len(Tail(s)) = Len(s) - 1
      /\ \A i \in 1..Len(Tail(s)) : Tail(s)[i] = s[i + 1]
  BY HeadTailProperties
<1>2. Len(s) \in Nat /\ Head(s) = s[1]
  BY LenProperties
<1>3. h \in Seq(S) /\ Len(h) = 1 /\ h[1] = s[1]
  BY <1>1, <1>2
<1> HIDE DEF h
<1>4. /\ h \o Tail(s) \in Seq(S) /\ Len(h \o Tail(s)) = 1 + Len(Tail(s))
      /\ \A i \in 1..(1 + Len(Tail(s))) :
            (h \o Tail(s))[i] = IF i <= 1 THEN h[i] ELSE Tail(s)[i - 1]
  <2>1. /\ h \o Tail(s) \in Seq(S) /\ Len(h \o Tail(s)) = Len(h) + Len(Tail(s))
        /\ \A i \in 1..(Len(h) + Len(Tail(s))) :
              (h \o Tail(s))[i] = IF i <= Len(h) THEN h[i] ELSE Tail(s)[i - Len(h)]
    <3>1. h \in Seq(S) /\ Tail(s) \in Seq(S)
      BY <1>1, <1>3
    <3> QED
      BY <3>1, ConcatProperties
  <2> QED
    BY <2>1, <1>3
<1>5. ASSUME NEW i \in 1..Len(s) PROVE s[i] = (h \o Tail(s))[i]
  <2>1. i \in 1..(1 + Len(Tail(s)))
    BY <1>1, <1>2
  <2>2. CASE i = 1
    BY <2>1, <2>2, <1>3, <1>4
  <2>3. CASE i # 1
    <3>1. i - 1 \in 1..Len(Tail(s)) /\ (i - 1) + 1 = i /\ ~(i <= 1)
      BY <2>3, <1>1, <1>2
    <3> QED
      BY <2>1, <3>1, <1>1, <1>4
  <2> QED
    BY <2>2, <2>3
<1>6. Len(s) = Len(h \o Tail(s))
  BY <1>1, <1>2, <1>4
<1>7. s = h \o Tail(s)
  BY <1>4, <1>5, <1>6, SeqEqual
<1> QED
  BY <1>3, <1>7 DEF h

\* A new element at the end.
LEMMA AppendToInjective ==
    ASSUME NEW S, NEW s \in Seq(S), IsInjective(s), NEW x \in S, x \notin ToSet(s)
    PROVE  /\ Append(s, x) \in Seq(S) /\ IsInjective(Append(s, x))
           /\ ToSet(Append(s, x)) = ToSet(s) \cup {x}
<1>1. /\ Append(s, x) \in Seq(S) /\ Len(Append(s, x)) = Len(s) + 1
      /\ \A i \in 1..Len(s) : Append(s, x)[i] = s[i]
      /\ Append(s, x)[Len(s) + 1] = x
  BY AppendProperties
<1>2. /\ Len(s) \in Nat /\ DOMAIN s = 1..Len(s)
      /\ DOMAIN Append(s, x) = 1..(Len(s) + 1)
  BY <1>1, LenProperties
<1>3. \A i \in DOMAIN Append(s, x) : i \in DOMAIN s \/ i = Len(s) + 1
  BY <1>2
<1>4. IsInjective(Append(s, x))
  BY <1>1, <1>2, <1>3 DEF IsInjective, ToSet
<1>5. ToSet(Append(s, x)) = ToSet(s) \cup {x}
  BY <1>1, <1>2, <1>3 DEF ToSet
<1> QED
  BY <1>1, <1>4, <1>5

\* deque.remove.
LEMMA RemoveFromInjective ==
    ASSUME NEW S, NEW s \in Seq(S), IsInjective(s), NEW x
    PROVE  /\ RemoveFirst(s, x) \in Seq(S) /\ IsInjective(RemoveFirst(s, x))
           /\ ToSet(RemoveFirst(s, x)) = ToSet(s) \ {x}
<1>1. Len(s) \in Nat /\ DOMAIN s = 1..Len(s) /\ \A i \in 1..Len(s) : s[i] \in S
  BY LenProperties, ElementOfSeq
<1>2. CASE ~ \E i \in 1..Len(s) : s[i] = x
  <2>1. RemoveFirst(s, x) = s
    BY <1>2 DEF RemoveFirst
  <2> QED
    BY <2>1, <1>1, <1>2 DEF ToSet
<1>3. CASE \E i \in 1..Len(s) : s[i] = x
  <2>1. PICK k \in 1..Len(s) : s[k] = x
    BY <1>3
  <2>2. {i \in 1..Len(s) : s[i] = x} = {k}
    BY <2>1, <1>1 DEF IsInjective
  <2>3. SelectInSeq(s, LAMBDA v : v = x) = k
    BY <2>1, <2>2 DEF SelectInSeq, Min
  <2> DEFINE a == SubSeq(s, 1, k - 1)
             b == SubSeq(s, k + 1, Len(s))
  <2>4. RemoveFirst(s, x) = a \o b
    BY <1>3, <2>3 DEF RemoveFirst, RemoveAt
  <2>5. /\ a \in Seq(S) /\ Len(a) = IF 1 <= k - 1 THEN (k - 1) - 1 + 1 ELSE 0
        /\ \A i \in 1..((k - 1) - 1 + 1) : a[i] = s[1 + i - 1]
    <3>1. 1 \in Int /\ k - 1 \in Int /\ \A i \in 1..(k - 1) : s[i] \in S
      BY <1>1
    <3> QED
      BY <3>1, SubSeqProperties
  <2>6. /\ b \in Seq(S)
        /\ Len(b) = IF k + 1 <= Len(s) THEN Len(s) - (k + 1) + 1 ELSE 0
        /\ \A i \in 1..(Len(s) - (k + 1) + 1) : b[i] = s[k + 1 + i - 1]
    <3>1. k + 1 \in Int /\ Len(s) \in Int /\ \A i \in (k + 1)..Len(s) : s[i] \in S
      BY <1>1
    <3> QED
      BY <3>1, SubSeqProperties
  <2> HIDE DEF a, b
  <2>7. Len(a) = k - 1 /\ Len(b) = Len(s) - k
    <3>1. k \in Nat /\ k >= 1 /\ k <= Len(s) /\ Len(s) \in Nat
      BY <1>1
    <3>2. Len(a) = k - 1
      BY <2>5, <3>1
    <3>3. CASE k + 1 <= Len(s)
      BY <2>6, <3>1, <3>2, <3>3
    <3>4. CASE ~(k + 1 <= Len(s))
      BY <2>6, <3>1, <3>2, <3>4
    <3> QED
      BY <3>3, <3>4
  <2>8. \A i \in 1..(k - 1) : a[i] = s[i]
    BY <2>5, <1>1
  <2>9. \A i \in 1..(Len(s) - k) : b[i] = s[k + i]
    <3>1. ASSUME NEW i \in 1..(Len(s) - k) PROVE b[i] = s[k + i]
      <4>1. i \in 1..(Len(s) - (k + 1) + 1) /\ k + 1 + i - 1 = k + i
        BY <1>1
      <4> QED
        BY <2>6, <4>1
    <3> QED
      BY <3>1
  <2>10. /\ a \o b \in Seq(S) /\ Len(a \o b) = Len(s) - 1
        /\ \A i \in 1..(Len(s) - 1) : (a \o b)[i] = IF i <= k - 1 THEN s[i] ELSE s[i + 1]
    <3>1. /\ a \o b \in Seq(S) /\ Len(a \o b) = Len(a) + Len(b)
          /\ \A i \in 1..(Len(a) + Len(b)) :
                (a \o b)[i] = IF i <= Len(a) THEN a[i] ELSE b[i - Len(a)]
      BY <2>5, <2>6, ConcatProperties
    <3>2. Len(a) + Len(b) = Len(s) - 1
      BY <2>7, <1>1
    <3>3. ASSUME NEW i \in 1..(Len(s) - 1)
          PROVE  (a \o b)[i] = IF i <= k - 1 THEN s[i] ELSE s[i + 1]
      <4>1. CASE i <= k - 1
        <5>1. i \in 1..(k - 1)
          BY <4>1
        <5> QED
          BY <5>1, <4>1, <3>1, <3>2, <2>7, <2>8
      <4>2. CASE ~(i <= k - 1)
        <5>1. i - (k - 1) \in 1..(Len(s) - k) /\ k + (i - (k - 1)) = i + 1
          BY <4>2, <1>1
        <5>2. (a \o b)[i] = b[i - (k - 1)]
          BY <4>2, <3>1, <3>2, <2>7, <2>8
        <5>3. b[i - (k - 1)] = s[i + 1]
          BY <5>1, <2>9
        <5> QED
          BY <5>2, <5>3, <4>2
      <4> QED
        BY <4>1, <4>2
    <3> QED
      BY <3>1, <3>2, <3>3
  <2>11. DOMAIN (a \o b) = 1..(Len(s) - 1)
    BY <2>10, LenProperties
  <2>12. IsInjective(a \o b)
    <3>1. SUFFICES ASSUME NEW i \in 1..(Len(s) - 1), NEW j \in 1..(Len(s) - 1),
                          (a \o b)[i] = (a \o b)[j]
                   PROVE  i = j
      BY <2>11 DEF IsInjective
    <3> DEFINE f(n) == IF n <= k - 1 THEN n ELSE n + 1
    <3>2. f(i) \in DOMAIN s /\ f(j) \in DOMAIN s
      BY <1>1
    <3>3. s[f(i)] = s[f(j)]
      BY <3>1, <2>10
    <3>4. f(i) = f(j)
      BY <3>2, <3>3 DEF IsInjective
    <3> QED
      BY <3>4
  <2>13. ToSet(a \o b) = ToSet(s) \ {x}
    <3>1. ASSUME NEW y \in ToSet(a \o b) PROVE y \in ToSet(s) \ {x}
      <4>1. PICK i \in 1..(Len(s) - 1) : y = (a \o b)[i]
        BY <2>11 DEF ToSet
      <4>2. \E j \in 1..Len(s) : j # k /\ y = s[j]
        <5>1. CASE i <= k - 1
          <6>1. i \in 1..Len(s) /\ i # k /\ y = s[i]
            BY <4>1, <5>1, <2>10, <1>1
          <6> QED
            BY <6>1
        <5>2. CASE ~(i <= k - 1)
          <6>1. i + 1 \in 1..Len(s) /\ i + 1 # k /\ y = s[i + 1]
            BY <4>1, <5>2, <2>10, <1>1
          <6> QED
            BY <6>1
        <5> QED
          BY <5>1, <5>2
      <4>3. y # x
        BY <4>2, <2>1, <1>1 DEF IsInjective
      <4> QED
        BY <4>2, <4>3, <1>1 DEF ToSet
    <3>2. ASSUME NEW y \in ToSet(s) \ {x} PROVE y \in ToSet(a \o b)
      <4>1. PICK j \in 1..Len(s) : y = s[j] /\ j # k
        BY <2>1, <1>1 DEF ToSet
      <4>2. CASE j < k
        <5>1. j \in 1..(Len(s) - 1) /\ j <= k - 1
          BY <4>2, <1>1
        <5>2. (a \o b)[j] = y
          BY <5>1, <4>1, <2>10
        <5> QED
          BY <5>1, <5>2, <2>11 DEF ToSet
      <4>3. CASE j > k
        <5>1. j - 1 \in 1..(Len(s) - 1) /\ ~(j - 1 <= k - 1) /\ (j - 1) + 1 = j
          BY <4>3, <1>1
        <5>2. (a \o b)[j - 1] = y
          BY <5>1, <4>1, <2>10
        <5> QED
          BY <5>1, <5>2, <2>11 DEF ToSet
      <4> QED
        BY <4>1, <4>2, <4>3
    <3> QED
      BY <3>1, <3>2
  <2> QED
    BY <2>4, <2>10, <2>12, <2>13
<1> QED
  BY <1>2, <1>3

----------------------------------------------------------------------------
(* The inductive invariant.                                                *)

\* The consumers that wait, of k.
Waiting(k) == {c \in Starts : k[c].at = "wait"}

\* The types alone.
Typed ==
    /\ running \in BOOLEAN /\ hasty \in BOOLEAN
    /\ sniffer \in Starts \cup {0}
    /\ thread \in [Starts -> Thread]
    /\ buffer \in [Starts -> Seq(DOMAIN Wire)]
    /\ passed \in 0..Len(Wire)
    /\ queue \in Seq(Events)
    /\ consumer \in [Starts -> Consumer]
    /\ lingering \subseteq Starts
    /\ accepted \in Seq(Events) /\ taken \in Seq(Events)

\* After stop() whoever is left is lingering until it comes round and ends.
OneAlive ==
    ~hasty =>
        /\ \A c, d \in Starts : Alive(c) /\ Alive(d) => c = d
        /\ ~running => \A c \in Starts : Alive(c) => c \in lingering

\* A thread that found room and is alone finds it still there.
OneSniffer ==
    ~hasty =>
        /\ \A s, u \in Starts : Capturing(s) /\ Capturing(u) => s = u
        /\ Len(queue) <= Capacity
        /\ \A s \in Starts : thread[s].at = "put" => Len(queue) < Capacity

IInv == Typed /\ RoomKept /\ LineIsWaiting /\ CalledOnce /\ NoEventVanishes /\ OneAlive /\ OneSniffer

----------------------------------------------------------------------------
(* What the helpers do.                                                    *)

\* What is parsed from a packet of the wire is an event.
LEMMA EventTyped == NoEvent \in Events /\ \A p \in DOMAIN Wire : Event(p) \in Events
  BY DEF Events

LEMMA GotoFacts ==
    ASSUME consumer \in [Starts -> Consumer], NEW c \in Starts, NEW step \in Steps,
           Goto(c, step)
    PROVE  /\ consumer' \in [Starts -> Consumer]
           /\ consumer'[c].at = step
           /\ \A d \in Starts \ {c} : consumer'[d] = consumer[d]
<1>1. [Absent EXCEPT !.at = step] \in Consumer /\ [Absent EXCEPT !.at = step].at = step
  BY DEF Absent, Consumer, Events
<1> QED
  BY <1>1 DEF Goto

\* The same of a sniffer's thread.
LEMMA ThreadFacts ==
    ASSUME thread \in [Starts -> Thread], NEW s \in Starts, NEW step \in ThreadSteps,
           ThreadGoes(s, step)
    PROVE  /\ thread' \in [Starts -> Thread]
           /\ thread'[s].at = step /\ thread'[s].getter = 0
           /\ \A u \in Starts \ {s} : thread'[u] = thread[u]
<1>1. /\ [Idle EXCEPT !.at = step] \in Thread
      /\ [Idle EXCEPT !.at = step].at = step /\ [Idle EXCEPT !.at = step].getter = 0
  BY EventTyped DEF Idle, Thread
<1> QED
  BY <1>1 DEF ThreadGoes

\* _wakeup_next takes the first getter, if there is one, out of its wait.
LEMMA WokenFacts ==
    ASSUME NEW k \in [Starts -> Consumer], getters \in Seq(Starts), IsInjective(getters),
           ToSet(getters) = Waiting(k)
    PROVE  /\ Woken(k) \in [Starts -> Consumer]
           /\ Remaining \in Seq(Starts) /\ IsInjective(Remaining)
           /\ ToSet(Remaining) = Waiting(Woken(k))
           /\ \A d \in Starts :
                 \/ Woken(k)[d] = k[d]
                 \/ k[d].at = "wait" /\ Woken(k)[d].at = "woken"
<1>1. CASE getters = << >>
  BY <1>1 DEF Woken, Remaining
<1>2. CASE getters # << >>
  <2> DEFINE h == Head(getters)
  <2>1. /\ h \in Starts /\ h \in ToSet(getters)
        /\ Tail(getters) \in Seq(Starts) /\ IsInjective(Tail(getters))
        /\ ToSet(Tail(getters)) = ToSet(getters) \ {h}
    BY <1>2, TailOfInjective
  <2>2. Woken(k) = [k EXCEPT ![h].at = "woken"] /\ Remaining = Tail(getters)
    BY <1>2 DEF Woken, Remaining
  <2> HIDE DEF h
  <2>3. k[h].at = "wait"
    BY <2>1 DEF Waiting
  <2>4. k[h] \in Consumer /\ [k[h] EXCEPT !.at = "woken"] \in Consumer
        /\ [k[h] EXCEPT !.at = "woken"].at = "woken"
    BY <2>1 DEF Consumer, Steps
  <2>5. Woken(k) \in [Starts -> Consumer] /\ Woken(k)[h].at = "woken"
        /\ \A d \in Starts \ {h} : Woken(k)[d] = k[d]
    BY <2>1, <2>2, <2>4
  <2>6. Waiting(Woken(k)) = Waiting(k) \ {h}
    BY <2>1, <2>5 DEF Waiting
  <2> QED
    BY <2>1, <2>2, <2>3, <2>5, <2>6
<1> QED
  BY <1>1, <1>2

\* Threads that want to put, after a step that lets no thread find room and the
\* queue not grow.
LEMMA RoomKeptQuietly ==
    ASSUME RoomKept, queue \in Seq(Events), queue' \in Seq(Events), Len(queue') <= Len(queue),
           \A s \in Starts : thread'[s].at = "put" => thread[s].at = "put"
    PROVE  RoomKept'
<1>1. IsFiniteSet(Starts)
  BY ListenerAssumption, FS_Interval DEF Starts
<1>2. IsFiniteSet(Putting) /\ Putting' \subseteq Putting
  BY <1>1, FS_Subset DEF Putting
<1>3. IsFiniteSet(Putting') /\ Cardinality(Putting') <= Cardinality(Putting)
  BY <1>2, FS_Subset
<1>4. Cardinality(Putting) \in Nat /\ Cardinality(Putting') \in Nat
  BY <1>2, <1>3, FS_CardinalityType
<1>5. Len(queue) \in Nat /\ Len(queue') \in Nat
  BY LenProperties
<1> QED
  BY <1>3, <1>4, <1>5, ListenerAssumption DEF RoomKept

\* A step that starts no sniffer, lets no thread find room and the queue not grow.
LEMMA OneSnifferKept ==
    ASSUME OneSniffer, hasty' = hasty,
           queue \in Seq(Events), queue' \in Seq(Events), Len(queue') <= Len(queue),
           \A s \in Starts : Capturing(s)' => Capturing(s),
           \A s \in Starts : thread'[s].at = "put" => thread[s].at = "put"
    PROVE  OneSniffer'
<1>1. Len(queue) \in Nat /\ Len(queue') \in Nat /\ Capacity \in Nat
  BY LenProperties, ListenerAssumption
<1>2. SUFFICES ASSUME ~hasty PROVE
        /\ \A s, u \in Starts : Capturing(s)' /\ Capturing(u)' => s = u
        /\ Len(queue') <= Capacity
        /\ \A s \in Starts : thread'[s].at = "put" => Len(queue') < Capacity
  BY DEF OneSniffer
<1>3. /\ \A s, u \in Starts : Capturing(s) /\ Capturing(u) => s = u
      /\ Len(queue) <= Capacity
      /\ \A s \in Starts : thread[s].at = "put" => Len(queue) < Capacity
  BY <1>2 DEF OneSniffer
<1>4. \A s \in Starts : thread'[s].at = "put" => Len(queue') < Capacity
  <2>1. SUFFICES ASSUME NEW s \in Starts, thread'[s].at = "put" PROVE Len(queue') < Capacity
    OBVIOUS
  <2>2. Len(queue) < Capacity
    BY <2>1, <1>3
  <2> QED
    BY <2>2, <1>1
<1>5. Len(queue') <= Capacity
  BY <1>1, <1>3
<1> QED
  BY <1>3, <1>4, <1>5

\* A step that lets no thread take a getter and no called consumer go on.
LEMMA CalledOnceKept ==
    ASSUME CalledOnce, thread \in [Starts -> Thread],
           \A s \in Starts : thread'[s].getter = 0 \/ thread'[s].getter = thread[s].getter,
           \A c \in Starts : consumer[c].at = "called" => consumer'[c].at = "called"
    PROVE  CalledOnce'
<1>1. SUFFICES ASSUME NEW s \in Starts, thread'[s].getter # 0
               PROVE  /\ consumer'[thread'[s].getter].at = "called"
                      /\ \A u \in Starts : thread'[u].getter = thread'[s].getter => u = s
  BY DEF CalledOnce, At
<1>2. thread'[s].getter = thread[s].getter /\ thread[s].getter \in Starts
  BY <1>1 DEF Thread
<1>3. /\ consumer[thread[s].getter].at = "called"
      /\ \A u \in Starts : thread[u].getter = thread[s].getter => u = s
  BY <1>1, <1>2 DEF CalledOnce, At
<1> QED
  BY <1>1, <1>2, <1>3

\* A step that brings no consumer to life and does not start, stop or let one
\* come round.
LEMMA OneAliveKept ==
    ASSUME OneAlive, UNCHANGED <<running, lingering, hasty>>,
           \A d \in Starts : consumer'[d].at \notin {"absent", "ended"} => Alive(d)
    PROVE  OneAlive'
  BY DEF OneAlive, Alive

\* A step of the loop or of a consumer that leaves the threads and the queue alone.
LEMMA ThreadsRest ==
    ASSUME IInv, UNCHANGED <<thread, queue, hasty>>,
           \A c \in Starts : consumer[c].at = "called" => consumer'[c].at = "called"
    PROVE  RoomKept' /\ CalledOnce' /\ OneSniffer'
<1>1. queue \in Seq(Events) /\ queue' \in Seq(Events) /\ Len(queue') <= Len(queue)
  BY LenProperties DEF IInv, Typed
<1>2. RoomKept'
  BY <1>1, RoomKeptQuietly DEF IInv
<1>3. OneSniffer'
  BY <1>1, OneSnifferKept DEF IInv, Capturing
<1>4. CalledOnce'
  BY CalledOnceKept DEF IInv, Typed
<1> QED
  BY <1>2, <1>3, <1>4

LEMMA InitIInv == Init => IInv
<1> SUFFICES ASSUME Init PROVE IInv
  OBVIOUS
<1>1. Absent \in Consumer /\ Absent.at = "absent"
  BY DEF Absent, Consumer, Steps, Events
<1>2. /\ [Idle EXCEPT !.at = "none"] \in Thread
      /\ [Idle EXCEPT !.at = "none"].at = "none" /\ [Idle EXCEPT !.at = "none"].getter = 0
  BY EventTyped DEF Idle, Thread, ThreadSteps
<1>3. << >> \in Seq(Starts) /\ << >> \in Seq(Events) /\ << >> \in Seq(DOMAIN Wire)
      /\ Len(<< >>) = 0 /\ DOMAIN << >> = {}
  BY EmptySeq
<1>4. /\ \A s \in Starts : thread[s].at = "none" /\ thread[s].getter = 0
      /\ \A c \in Starts : consumer[c].at = "absent"
  BY <1>1, <1>2 DEF Init
<1>5. Typed
  <2>1. 0 \in 0..Len(Wire)
    BY ListenerAssumption, LenProperties
  <2> QED
    BY <1>1, <1>2, <1>3, <2>1 DEF Init, Typed
<1>6. RoomKept
  <2>1. Putting = {}
    BY <1>4 DEF Putting
  <2>2. Cardinality(Putting) = 0
    BY <2>1, FS_EmptySet
  <2> QED
    BY <1>3, <2>2, ListenerAssumption DEF Init, RoomKept
<1>7. LineIsWaiting
  <2>1. ToSet(getters) = {} /\ IsInjective(getters)
    BY <1>3 DEF Init, ToSet, IsInjective
  <2>2. {c \in Starts : At(c, "wait")} = {}
    BY <1>4 DEF At
  <2> QED
    BY <1>3, <2>1, <2>2 DEF Init, LineIsWaiting
<1>8. CalledOnce
  BY <1>4 DEF CalledOnce
<1>9. NoEventVanishes
  BY DEF Init, NoEventVanishes
<1>10. OneAlive
  BY <1>4 DEF OneAlive, Alive
<1>11. OneSniffer
  BY <1>3, <1>4, ListenerAssumption DEF Init, OneSniffer, Capturing
<1> QED
  BY <1>5, <1>6, <1>7, <1>8, <1>9, <1>10, <1>11 DEF IInv

----------------------------------------------------------------------------
(* Every step of the capture preserves it.                                 *)

\* What a step of a thread that touches neither the queue nor the consumers keeps.
LEMMA QuietCapture ==
    ASSUME IInv, UNCHANGED <<running, consumer, sniffer, queue, getters, accepted, taken,
                             lingering, hasty>>,
           thread' \in [Starts -> Thread], passed' \in 0..Len(Wire),
           buffer' \in [Starts -> Seq(DOMAIN Wire)],
           \A s \in Starts : Capturing(s)' => Capturing(s),
           \A s \in Starts : thread'[s].at = "put" => thread[s].at = "put",
           \A s \in Starts : thread'[s].getter = 0 \/ thread'[s].getter = thread[s].getter
    PROVE  IInv'
<1>1. Typed'
  BY DEF IInv, Typed
<1>2. queue \in Seq(Events) /\ queue' \in Seq(Events) /\ Len(queue') <= Len(queue)
  BY LenProperties DEF IInv, Typed
<1>3. RoomKept' /\ OneSniffer'
  BY <1>2, RoomKeptQuietly, OneSnifferKept DEF IInv
<1>4. CalledOnce'
  BY CalledOnceKept DEF IInv, Typed
<1>5. LineIsWaiting' /\ NoEventVanishes' /\ OneAlive'
  BY DEF IInv, LineIsWaiting, At, NoEventVanishes, OneAlive, Alive
<1> QED
  BY <1>1, <1>3, <1>4, <1>5 DEF IInv

LEMMA ArrivePreserves == IInv /\ Arrive => IInv'
<1> SUFFICES ASSUME IInv, Arrive PROVE IInv'
  OBVIOUS
<1>1. UNCHANGED <<running, consumer, sniffer, thread, queue, getters, accepted, taken,
                  lingering, hasty>>
  BY DEF Arrive, loop
<1>2. passed' \in 0..Len(Wire) /\ passed + 1 \in DOMAIN Wire
  BY ListenerAssumption, LenProperties DEF Arrive, IInv, Typed
<1>3. buffer' \in [Starts -> Seq(DOMAIN Wire)]
  <2>1. \A s \in Starts : Append(buffer[s], passed + 1) \in Seq(DOMAIN Wire)
    BY <1>2, AppendProperties DEF IInv, Typed
  <2> QED
    BY <2>1 DEF Arrive, IInv, Typed
<1>4. thread' \in [Starts -> Thread] /\ \A s \in Starts : Capturing(s)' => Capturing(s)
  BY <1>1 DEF IInv, Typed, Capturing
<1> QED
  BY <1>1, <1>2, <1>3, <1>4, QuietCapture

LEMMA ComesUpPreserves == ASSUME NEW s \in Starts, IInv, ComesUp(s) PROVE IInv'
<1>1. /\ thread' \in [Starts -> Thread] /\ thread'[s].at = "idle" /\ thread'[s].getter = 0
      /\ \A u \in Starts \ {s} : thread'[u] = thread[u]
  BY ThreadFacts DEF ComesUp, IInv, Typed, ThreadSteps
<1>2. \A u \in Starts : Capturing(u)' => Capturing(u)
  BY <1>1 DEF ComesUp, Capturing
<1> QED
  BY <1>1, <1>2, QuietCapture DEF ComesUp, loop, IInv, Typed

LEMMA CaptureFailsPreserves == ASSUME NEW s \in Starts, IInv, CaptureFails(s) PROVE IInv'
<1>1. /\ thread' \in [Starts -> Thread] /\ thread'[s].at = "ended" /\ thread'[s].getter = 0
      /\ \A u \in Starts \ {s} : thread'[u] = thread[u]
  BY ThreadFacts DEF CaptureFails, IInv, Typed, ThreadSteps
<1>2. \A u \in Starts : Capturing(u)' => Capturing(u)
  BY <1>1 DEF Capturing
<1>3. buffer' \in [Starts -> Seq(DOMAIN Wire)]
  BY EmptySeq DEF CaptureFails, IInv, Typed
<1> QED
  BY <1>1, <1>2, <1>3, QuietCapture DEF CaptureFails, loop, IInv, Typed

\* A thread that is put to "put": all the others that already were may find room
\* too, but it found the queue short of its capacity.
LEMMA PacketCallbackPreserves == ASSUME NEW s \in Starts, IInv, PacketCallback(s) PROVE IInv'
<1> DEFINE p == Head(buffer[s])
<1>1. UNCHANGED <<running, consumer, sniffer, passed, queue, getters, accepted, taken,
                  lingering, hasty>>
      /\ thread[s].at = "idle" /\ buffer[s] # << >>
      /\ buffer' = [buffer EXCEPT ![s] = Tail(@)]
      /\ IF IsSip(Wire[p]) /\ Len(queue) < Capacity
         THEN thread' = [thread EXCEPT ![s] = [Idle EXCEPT !.at = "put", !.event = Event(p)]]
         ELSE UNCHANGED thread
  BY DEF PacketCallback, loop
<1>2. p \in DOMAIN Wire /\ buffer' \in [Starts -> Seq(DOMAIN Wire)]
  <2>1. buffer[s] \in Seq(DOMAIN Wire)
    BY DEF IInv, Typed
  <2>2. Head(buffer[s]) \in DOMAIN Wire /\ Tail(buffer[s]) \in Seq(DOMAIN Wire)
    BY <2>1, <1>1, HeadTailProperties
  <2> QED
    BY <1>1, <2>2 DEF IInv, Typed
<1> HIDE DEF p
<1>3. CASE UNCHANGED thread
  BY <1>1, <1>2, <1>3, QuietCapture DEF IInv, Typed, Capturing
<1>4. CASE /\ Len(queue) < Capacity
           /\ thread' = [thread EXCEPT ![s] = [Idle EXCEPT !.at = "put", !.event = Event(p)]]
  <2> DEFINE new == [Idle EXCEPT !.at = "put", !.event = Event(p)]
  <2>1. new \in Thread /\ new.at = "put" /\ new.getter = 0
    BY <1>2, EventTyped DEF Idle, Thread, ThreadSteps
  <2>2. thread \in [Starts -> Thread]
    BY DEF IInv, Typed
  <2>3. /\ thread' \in [Starts -> Thread] /\ thread'[s].at = "put" /\ thread'[s].getter = 0
        /\ \A u \in Starts \ {s} : thread'[u] = thread[u]
    BY <1>4, <2>1, <2>2
  <2> HIDE DEF new
  <2>4. Typed'
    BY <1>1, <1>2, <2>3 DEF IInv, Typed
  <2>5. Len(queue) \in Nat /\ Len(queue') = Len(queue)
    BY <1>1, LenProperties DEF IInv, Typed
  <2>6. RoomKept'
    <3>1. IsFiniteSet(Starts) /\ Cardinality(Starts) = MaxStarts
      BY ListenerAssumption, FS_Interval DEF Starts
    <3>2. Putting' \subseteq Starts
      BY DEF Putting
    <3>3. IsFiniteSet(Putting') /\ Cardinality(Putting') <= MaxStarts
      BY <3>1, <3>2, FS_Subset
    <3>4. Cardinality(Putting') \in Nat
      BY <3>3, FS_CardinalityType
    <3> QED
      BY <1>4, <2>5, <3>3, <3>4, ListenerAssumption DEF RoomKept
  <2>7. CalledOnce'
    BY <1>1, <2>2, <2>3, CalledOnceKept DEF IInv
  <2>8. OneSniffer'
    <3>1. Capturing(s) /\ \A u \in Starts : Capturing(u)' => Capturing(u)
      BY <1>1, <2>3 DEF Capturing
    <3>2. Capacity \in Nat
      BY ListenerAssumption
    <3> QED
      BY <1>1, <1>4, <2>5, <3>1, <3>2 DEF IInv, OneSniffer
  <2>9. LineIsWaiting' /\ NoEventVanishes' /\ OneAlive'
    BY <1>1 DEF IInv, LineIsWaiting, At, NoEventVanishes, OneAlive, Alive
  <2> QED
    BY <2>4, <2>6, <2>7, <2>8, <2>9 DEF IInv
<1> QED
  BY <1>1, <1>3, <1>4

\* The room the thread had found becomes an event of the queue.
LEMMA PutPreserves == ASSUME NEW s \in Starts, IInv, Put(s) PROVE IInv'
<1> DEFINE e == thread[s].event
<1>1. UNCHANGED <<running, consumer, sniffer, buffer, passed, getters, taken, lingering, hasty>>
      /\ thread[s].at = "put"
      /\ queue' = Append(queue, e) /\ accepted' = Append(accepted, e)
  BY DEF Put, loop
<1>2. /\ thread' \in [Starts -> Thread] /\ thread'[s].at = "wake" /\ thread'[s].getter = 0
      /\ \A u \in Starts \ {s} : thread'[u] = thread[u]
  BY ThreadFacts DEF Put, IInv, Typed, ThreadSteps
<1>3. e \in Events /\ queue \in Seq(Events) /\ accepted \in Seq(Events) /\ taken \in Seq(Events)
  BY DEF IInv, Typed, Thread
<1> HIDE DEF e
<1>4. /\ queue' \in Seq(Events) /\ accepted' \in Seq(Events)
      /\ Len(queue') = Len(queue) + 1 /\ Len(queue) \in Nat
  BY <1>1, <1>3, AppendProperties, LenProperties
<1>5. Typed'
  BY <1>1, <1>2, <1>4 DEF IInv, Typed
<1>6. RoomKept'
  <2>1. IsFiniteSet(Starts)
    BY ListenerAssumption, FS_Interval DEF Starts
  <2>2. IsFiniteSet(Putting) /\ s \in Putting /\ Putting' = Putting \ {s}
    BY <1>1, <1>2, <2>1, FS_Subset DEF Putting
  <2>3. Cardinality(Putting') = Cardinality(Putting) - 1
    BY <2>2, FS_RemoveElement
  <2>4. Cardinality(Putting) \in Nat
    BY <2>2, FS_CardinalityType
  <2> QED
    BY <1>4, <2>3, <2>4, ListenerAssumption DEF IInv, RoomKept
<1>7. CalledOnce'
  BY <1>1, <1>2, CalledOnceKept DEF IInv, Typed
<1>8. OneSniffer'
  <2>1. Capturing(s) /\ \A u \in Starts : Capturing(u)' => Capturing(u)
    BY <1>1, <1>2 DEF Capturing
  <2>2. Capacity \in Nat
    BY ListenerAssumption
  <2>3. ASSUME NEW u \in Starts, ~hasty, thread'[u].at = "put" PROVE FALSE
    <3>1. Capturing(u) /\ u # s
      BY <1>2, <2>3 DEF Capturing
    <3> QED
      BY <2>1, <2>3, <3>1 DEF IInv, OneSniffer
  <2>4. ~hasty => Len(queue) < Capacity
    BY <1>1 DEF IInv, OneSniffer
  <2> QED
    BY <1>1, <1>4, <2>1, <2>2, <2>3, <2>4 DEF IInv, OneSniffer
<1>9. NoEventVanishes'
  <2>1. /\ Append(taken \o queue, e) = (taken \o queue) \o <<e>>
        /\ Append(queue, e) = queue \o <<e>>
        /\ <<e>> \in Seq(Events)
    BY <1>3, AppendIsConcat, ConcatProperties
  <2>2. (taken \o queue) \o <<e>> = taken \o (queue \o <<e>>)
    BY <1>3, <2>1, ConcatAssociative
  <2> QED
    BY <1>1, <2>1, <2>2 DEF IInv, NoEventVanishes
<1>10. LineIsWaiting' /\ OneAlive'
  BY <1>1 DEF IInv, LineIsWaiting, At, OneAlive, Alive
<1> QED
  BY <1>5, <1>6, <1>7, <1>8, <1>9, <1>10 DEF IInv

\* The head of the line goes into the thread's hands: nobody else holds it, since
\* whom a thread holds does not stand in line.
LEMMA TakeGetterPreserves == ASSUME NEW s \in Starts, IInv, TakeGetter(s) PROVE IInv'
<1>1. UNCHANGED <<running, sniffer, buffer, passed, queue, accepted, taken, lingering, hasty>>
      /\ thread[s].at = "wake"
  BY DEF TakeGetter
<1>2. thread \in [Starts -> Thread] /\ consumer \in [Starts -> Consumer]
      /\ queue \in Seq(Events)
  BY DEF IInv, Typed
<1>3. CASE getters = << >>
  <2>1. ThreadGoes(s, "idle") /\ UNCHANGED <<consumer, getters>>
    BY <1>3 DEF TakeGetter
  <2>2. /\ thread' \in [Starts -> Thread] /\ thread'[s].at = "idle" /\ thread'[s].getter = 0
        /\ \A u \in Starts \ {s} : thread'[u] = thread[u]
    BY <1>2, <2>1, ThreadFacts DEF ThreadSteps
  <2>3. \A u \in Starts : Capturing(u)' => Capturing(u)
    BY <1>1, <2>2 DEF Capturing
  <2> QED
    BY <1>1, <2>1, <2>2, <2>3, QuietCapture DEF IInv, Typed
<1>4. CASE getters # << >>
  <2> DEFINE h == Head(getters)
  <2>1. /\ thread' = [thread EXCEPT ![s] = [Idle EXCEPT !.at = "set", !.getter = h]]
        /\ consumer' = [consumer EXCEPT ![h].at = "called"]
        /\ getters' = Tail(getters)
    BY <1>4 DEF TakeGetter
  <2>2. getters \in Seq(Starts) /\ IsInjective(getters) /\ ToSet(getters) = Waiting(consumer)
    BY DEF IInv, LineIsWaiting, Waiting, At
  <2>3. /\ h \in Starts /\ h \in ToSet(getters)
        /\ Tail(getters) \in Seq(Starts) /\ IsInjective(Tail(getters))
        /\ ToSet(Tail(getters)) = ToSet(getters) \ {h}
    BY <1>4, <2>2, TailOfInjective
  <2> HIDE DEF h
  <2>4. consumer[h].at = "wait"
    BY <2>2, <2>3 DEF Waiting
  <2>5. /\ [consumer[h] EXCEPT !.at = "called"] \in Consumer
        /\ [consumer[h] EXCEPT !.at = "called"].at = "called"
    BY <1>2, <2>3 DEF Consumer, Steps
  <2>6. /\ consumer' \in [Starts -> Consumer] /\ consumer'[h].at = "called"
        /\ \A d \in Starts \ {h} : consumer'[d] = consumer[d]
    BY <1>2, <2>1, <2>3, <2>5
  <2>7. /\ [Idle EXCEPT !.at = "set", !.getter = h] \in Thread
        /\ [Idle EXCEPT !.at = "set", !.getter = h].at = "set"
        /\ [Idle EXCEPT !.at = "set", !.getter = h].getter = h
    BY <2>3, EventTyped DEF Idle, Thread, ThreadSteps
  <2>8. /\ thread' \in [Starts -> Thread] /\ thread'[s].at = "set" /\ thread'[s].getter = h
        /\ \A u \in Starts \ {s} : thread'[u] = thread[u]
    BY <1>2, <2>1, <2>7
  <2>9. Typed'
    BY <1>1, <2>6, <2>8 DEF IInv, Typed
  <2>10. queue' \in Seq(Events) /\ Len(queue') <= Len(queue)
    BY <1>1, <1>2, LenProperties
  <2>11. RoomKept'
    BY <1>2, <2>8, <2>10, RoomKeptQuietly DEF IInv
  <2>12. OneSniffer'
    <3>1. \A u \in Starts : Capturing(u)' => Capturing(u)
      BY <1>1, <2>8 DEF Capturing
    <3> QED
      BY <1>1, <1>2, <2>8, <2>10, <3>1, OneSnifferKept DEF IInv
  <2>13. LineIsWaiting'
    <3>1. Waiting(consumer') = Waiting(consumer) \ {h}
      BY <2>3, <2>6 DEF Waiting
    <3> QED
      BY <2>1, <2>2, <2>3, <3>1 DEF LineIsWaiting, Waiting, At
  <2>14. CalledOnce'
    <3>1. h # 0 /\ \A u \in Starts \ {s} : thread'[u].getter # h
      <4>1. ASSUME NEW u \in Starts \ {s}, thread[u].getter = h PROVE FALSE
        <5>1. h # 0
          BY <2>3 DEF Starts
        <5> QED
          BY <4>1, <5>1, <2>4 DEF IInv, CalledOnce, At
      <4> QED
        BY <4>1, <2>3, <2>8 DEF Starts
    <3>2. ASSUME NEW u \in Starts, thread'[u].getter # 0
          PROVE  /\ consumer'[thread'[u].getter].at = "called"
                 /\ \A v \in Starts : thread'[v].getter = thread'[u].getter => v = u
      <4>1. CASE u = s
        BY <4>1, <2>6, <2>8, <3>1
      <4>2. CASE u # s
        <5>1. thread'[u] = thread[u] /\ thread[u].getter \in Starts /\ thread[u].getter # h
          BY <4>2, <1>2, <2>8, <3>1, <3>2 DEF Thread
        <5>2. /\ consumer[thread[u].getter].at = "called"
              /\ \A v \in Starts : thread[v].getter = thread[u].getter => v = u
          BY <3>2, <5>1 DEF IInv, CalledOnce, At
        <5> QED
          BY <2>6, <2>8, <5>1, <5>2
      <4> QED
        BY <4>1, <4>2
    <3> QED
      BY <3>2 DEF CalledOnce, At
  <2>15. NoEventVanishes'
    BY <1>1 DEF IInv, NoEventVanishes
  <2>16. OneAlive'
    BY <1>1, <2>4, <2>6, OneAliveKept DEF IInv, Alive
  <2> QED
    BY <2>9, <2>11, <2>12, <2>13, <2>14, <2>15, <2>16 DEF IInv
<1> QED
  BY <1>3, <1>4

\* Whom the thread held is called, not waiting, and then woken; nobody else held it.
LEMMA SetResultPreserves == ASSUME NEW s \in Starts, IInv, SetResult(s) PROVE IInv'
<1> DEFINE g == thread[s].getter
<1>1. UNCHANGED <<running, sniffer, buffer, passed, queue, getters, accepted, taken,
                  lingering, hasty>>
      /\ thread[s].at = "set"
      /\ consumer' = IF g = 0 THEN consumer ELSE [consumer EXCEPT ![g].at = "woken"]
  BY DEF SetResult
<1>2. thread \in [Starts -> Thread] /\ consumer \in [Starts -> Consumer]
      /\ queue \in Seq(Events)
  BY DEF IInv, Typed
<1>3. /\ thread' \in [Starts -> Thread] /\ thread'[s].at \in {"idle", "wake"}
      /\ thread'[s].getter = 0
      /\ \A u \in Starts \ {s} : thread'[u] = thread[u]
  <2>1. ThreadGoes(s, "idle") \/ ThreadGoes(s, "wake")
    BY DEF SetResult
  <2>2. "idle" \in ThreadSteps /\ "wake" \in ThreadSteps
    BY DEF ThreadSteps
  <2> QED
    BY <1>2, <2>1, <2>2, ThreadFacts
<1>4. \A u \in Starts : Capturing(u)' => Capturing(u)
  BY <1>1, <1>3 DEF Capturing
<1>5. CASE g = 0
  <2>1. UNCHANGED consumer
    BY <1>1, <1>5
  <2> QED
    BY <1>1, <1>3, <1>4, <2>1, QuietCapture DEF IInv, Typed
<1>6. CASE g # 0
  <2>1. g \in Starts /\ consumer[g].at = "called"
        /\ \A u \in Starts : thread[u].getter = g => u = s
    BY <1>2, <1>6 DEF IInv, CalledOnce, At, Thread
  <2> HIDE DEF g
  <2>2. /\ [consumer[g] EXCEPT !.at = "woken"] \in Consumer
        /\ [consumer[g] EXCEPT !.at = "woken"].at = "woken"
    BY <1>2, <2>1 DEF Consumer, Steps
  <2>3. /\ consumer' \in [Starts -> Consumer] /\ consumer'[g].at = "woken"
        /\ \A d \in Starts \ {g} : consumer'[d] = consumer[d]
    BY <1>1, <1>2, <1>6, <2>1, <2>2
  <2>4. Typed'
    BY <1>1, <1>3, <2>3 DEF IInv, Typed
  <2>5. queue' \in Seq(Events) /\ Len(queue') <= Len(queue)
    BY <1>1, <1>2, LenProperties
  <2>6. RoomKept' /\ OneSniffer'
    BY <1>1, <1>2, <1>3, <1>4, <2>5, RoomKeptQuietly, OneSnifferKept DEF IInv
  <2>7. LineIsWaiting'
    <3>1. Waiting(consumer') = Waiting(consumer)
      BY <2>1, <2>3 DEF Waiting
    <3> QED
      BY <1>1, <3>1 DEF IInv, LineIsWaiting, Waiting, At
  <2>8. CalledOnce'
    <3>1. ASSUME NEW u \in Starts, thread'[u].getter # 0
          PROVE  /\ consumer'[thread'[u].getter].at = "called"
                 /\ \A v \in Starts : thread'[v].getter = thread'[u].getter => v = u
      <4>1. u # s /\ thread'[u] = thread[u] /\ thread[u].getter \in Starts
            /\ thread[u].getter # g
        BY <1>2, <1>3, <2>1, <3>1 DEF Thread
      <4>2. /\ consumer[thread[u].getter].at = "called"
            /\ \A v \in Starts : thread[v].getter = thread[u].getter => v = u
        BY <3>1, <4>1 DEF IInv, CalledOnce, At
      <4> QED
        BY <1>3, <2>3, <3>1, <4>1, <4>2
    <3> QED
      BY <3>1 DEF CalledOnce, At
  <2>9. NoEventVanishes'
    BY <1>1 DEF IInv, NoEventVanishes
  <2>10. OneAlive'
    BY <1>1, <2>1, <2>3, OneAliveKept DEF IInv, Alive
  <2> QED
    BY <2>4, <2>6, <2>7, <2>8, <2>9, <2>10 DEF IInv
<1> QED
  BY <1>5, <1>6

----------------------------------------------------------------------------
(* So does every step of the event loop.                                   *)

LEMMA StopPreserves == IInv /\ Stop => IInv'
<1> SUFFICES ASSUME IInv, Stop PROVE IInv'
  OBVIOUS
<1>1. UNCHANGED <<passed, queue, getters, consumer, accepted, taken, hasty>>
      /\ running' = FALSE /\ lingering' = {c \in Starts : Alive(c)}
  BY DEF Stop
<1>2. /\ thread' \in [Starts -> Thread] /\ buffer' \in [Starts -> Seq(DOMAIN Wire)]
      /\ sniffer' \in Starts \cup {0}
      /\ \A s \in Starts : \/ thread'[s] = thread[s]
                           \/ thread'[s].at = "ended" /\ thread'[s].getter = 0
  <2>1. CASE UNCHANGED <<thread, buffer>>
    BY <2>1 DEF Stop, IInv, Typed
  <2>2. CASE /\ sniffer # 0 /\ ThreadGoes(sniffer, "ended") /\ sniffer' = 0
             /\ buffer' = [buffer EXCEPT ![sniffer] = << >>]
    <3>1. sniffer \in Starts /\ thread \in [Starts -> Thread]
      BY <2>2 DEF IInv, Typed
    <3>2. /\ thread' \in [Starts -> Thread]
          /\ thread'[sniffer].at = "ended" /\ thread'[sniffer].getter = 0
          /\ \A u \in Starts \ {sniffer} : thread'[u] = thread[u]
      BY <2>2, <3>1, ThreadFacts DEF ThreadSteps
    <3>3. buffer' \in [Starts -> Seq(DOMAIN Wire)]
      BY <2>2, EmptySeq DEF IInv, Typed
    <3> QED
      BY <2>2, <3>2, <3>3
  <2> QED
    BY <2>1, <2>2 DEF Stop
<1>3. Typed'
  BY <1>1, <1>2 DEF IInv, Typed
<1>4. queue \in Seq(Events) /\ queue' \in Seq(Events) /\ Len(queue') <= Len(queue)
  BY <1>1, LenProperties DEF IInv, Typed
<1>5. RoomKept'
  BY <1>2, <1>4, RoomKeptQuietly DEF IInv
<1>6. OneSniffer'
  BY <1>1, <1>2, <1>4, OneSnifferKept DEF IInv, Capturing
<1>7. CalledOnce'
  BY <1>1, <1>2, CalledOnceKept DEF IInv, Typed
<1>8. LineIsWaiting' /\ NoEventVanishes'
  BY <1>1 DEF IInv, LineIsWaiting, At, NoEventVanishes
<1>9. OneAlive'
  BY <1>1 DEF IInv, OneAlive, Alive
<1> QED
  BY <1>3, <1>5, <1>6, <1>7, <1>8, <1>9 DEF IInv

\* A start() that is not hasty finds no consumer and no sniffer.
LEMMA StartPreserves == ASSUME NEW c \in Starts, IInv, Start(c) PROVE IInv'
<1>1. UNCHANGED <<buffer, passed, queue, getters, accepted, taken, lingering>>
      /\ running' = TRUE /\ sniffer' = c /\ consumer[c].at = "absent"
  BY DEF Start, Unstarted, At
<1>2. /\ consumer' \in [Starts -> Consumer] /\ consumer'[c].at = "loop"
      /\ \A d \in Starts \ {c} : consumer'[d] = consumer[d]
  BY GotoFacts DEF Start, IInv, Typed, Steps
<1>3. /\ thread' \in [Starts -> Thread] /\ thread'[c].at = "starting" /\ thread'[c].getter = 0
      /\ \A u \in Starts \ {c} : thread'[u] = thread[u]
  BY ThreadFacts DEF Start, IInv, Typed, ThreadSteps
<1>4. hasty' \in BOOLEAN
  BY DEF Start, IInv, Typed
<1>5. Typed'
  BY <1>1, <1>2, <1>3, <1>4 DEF IInv, Typed
<1>6. queue \in Seq(Events) /\ queue' \in Seq(Events) /\ Len(queue') <= Len(queue)
  BY <1>1, LenProperties DEF IInv, Typed
<1>7. RoomKept'
  BY <1>3, <1>6, RoomKeptQuietly DEF IInv
<1>8. CalledOnce'
  BY <1>1, <1>2, <1>3, CalledOnceKept DEF IInv, Typed
<1>9. LineIsWaiting'
  <2>1. Waiting(consumer') = Waiting(consumer)
    BY <1>1, <1>2 DEF Waiting
  <2> QED
    BY <1>1, <2>1 DEF IInv, LineIsWaiting, Waiting, At
<1>10. NoEventVanishes'
  BY <1>1 DEF IInv, NoEventVanishes
<1>11. ASSUME ~hasty' PROVE /\ ~hasty /\ ~running /\ lingering = {}
                            /\ \A s \in Starts : ~Capturing(s)
  BY <1>11 DEF Start
<1>12. OneAlive'
  <2>1. ASSUME ~hasty' PROVE \A d \in Starts : Alive(d)' => d = c
    <3>1. \A d \in Starts : ~Alive(d)
      BY <2>1, <1>11 DEF IInv, OneAlive
    <3> QED
      BY <1>2, <3>1 DEF Alive
  <2> QED
    BY <1>1, <2>1 DEF OneAlive
<1>13. OneSniffer'
  <2>1. SUFFICES ASSUME ~hasty'
                 PROVE  /\ \A s \in Starts : Capturing(s)' => s = c
                        /\ Len(queue') <= Capacity
                        /\ \A s \in Starts : thread'[s].at # "put"
    BY DEF OneSniffer
  <2>2. \A s \in Starts \ {c} : ~Capturing(s)'
    BY <2>1, <1>3, <1>11 DEF Capturing
  <2>3. Len(queue') <= Capacity
    BY <2>1, <1>1, <1>11 DEF IInv, OneSniffer
  <2> QED
    BY <1>3, <2>2, <2>3 DEF Capturing
<1> QED
  BY <1>5, <1>7, <1>8, <1>9, <1>10, <1>12, <1>13 DEF IInv

\* A consumer that comes round after stop() ends.
LEMMA ComeRoundPreserves == ASSUME NEW c \in Starts, IInv, ComeRound(c) PROVE IInv'
<1>1. UNCHANGED <<running, capture, queue, getters, accepted, taken, hasty>>
      /\ lingering' = lingering \ {c} /\ consumer[c].at = "loop"
  BY DEF ComeRound, At
<1> DEFINE step == IF running THEN "get" ELSE "ended"
<1>2. /\ consumer' \in [Starts -> Consumer] /\ consumer'[c].at = step
      /\ \A d \in Starts \ {c} : consumer'[d] = consumer[d]
  BY GotoFacts DEF ComeRound, IInv, Typed, Steps
<1>3. Typed'
  BY <1>1, <1>2 DEF capture, IInv, Typed
<1>4. RoomKept' /\ CalledOnce' /\ OneSniffer'
  BY <1>1, <1>2, ThreadsRest DEF capture
<1>5. LineIsWaiting'
  <2>1. Waiting(consumer') = Waiting(consumer)
    BY <1>1, <1>2 DEF Waiting
  <2> QED
    BY <1>1, <2>1 DEF IInv, LineIsWaiting, Waiting, At
<1>6. NoEventVanishes'
  BY <1>1 DEF IInv, NoEventVanishes
<1>7. OneAlive'
  <2>1. Alive(c) /\ \A d \in Starts : Alive(d)' => Alive(d)
    BY <1>1, <1>2 DEF Alive
  <2>2. ~running => ~Alive(c)'
    BY <1>2 DEF Alive
  <2> QED
    BY <1>1, <2>1, <2>2 DEF IInv, OneAlive
<1> QED
  BY <1>3, <1>4, <1>5, <1>6, <1>7 DEF IInv

\* Taking an event out moves it from the queue to the end of what was taken.
LEMMA GetPreserves == ASSUME NEW c \in Starts, IInv, Get(c) PROVE IInv'
<1>1. UNCHANGED <<running, capture, getters, accepted, lingering, hasty>>
      /\ consumer[c].at \in {"get", "woken"}
  BY DEF Get
<1>2. queue \in Seq(Events) /\ taken \in Seq(Events) /\ consumer \in [Starts -> Consumer]
  BY DEF IInv, Typed
<1>3. CASE queue = << >>
  <2>1. UNCHANGED <<queue, taken>> /\ Goto(c, "register")
    BY <1>3 DEF Get
  <2>2. /\ consumer' \in [Starts -> Consumer] /\ consumer'[c].at = "register"
        /\ \A d \in Starts \ {c} : consumer'[d] = consumer[d]
    BY <1>2, <2>1, GotoFacts DEF Steps
  <2>3. Typed'
    BY <1>1, <2>1, <2>2 DEF capture, IInv, Typed
  <2>4. RoomKept' /\ CalledOnce' /\ OneSniffer'
    BY <1>1, <2>1, <2>2, ThreadsRest DEF capture
  <2>5. LineIsWaiting'
    <3>1. Waiting(consumer') = Waiting(consumer)
      BY <1>1, <2>2 DEF Waiting
    <3> QED
      BY <1>1, <3>1 DEF IInv, LineIsWaiting, Waiting, At
  <2>6. NoEventVanishes'
    BY <1>1, <2>1 DEF IInv, NoEventVanishes
  <2>7. OneAlive'
    BY <1>1, <2>2, OneAliveKept DEF IInv, Alive
  <2> QED
    BY <2>3, <2>4, <2>5, <2>6, <2>7 DEF IInv
<1>4. CASE queue # << >>
  <2> DEFINE e == Head(queue)
  <2>1. /\ queue' = Tail(queue) /\ taken' = Append(taken, e)
        /\ consumer' = [consumer EXCEPT ![c] = [at |-> "callback", event |-> e]]
    BY <1>4 DEF Get
  <2>2. /\ e \in Events /\ Tail(queue) \in Seq(Events) /\ Len(Tail(queue)) = Len(queue) - 1
        /\ Len(queue) \in Nat
    BY <1>2, <1>4, HeadTailProperties, LenProperties
  <2>3. taken' \in Seq(Events)
    BY <1>2, <2>1, <2>2, AppendProperties
  <2>4. taken \o queue = taken' \o queue'
    <3>1. queue = <<e>> \o Tail(queue) /\ <<e>> \in Seq(Events)
      BY <1>2, <1>4, HeadThenTail
    <3>2. taken' = taken \o <<e>>
      BY <1>2, <2>1, <2>2, AppendIsConcat
    <3>3. (taken \o <<e>>) \o Tail(queue) = taken \o (<<e>> \o Tail(queue))
      BY <1>2, <2>2, <3>1, ConcatAssociative
    <3> QED
      BY <2>1, <3>1, <3>2, <3>3
  <2> HIDE DEF e
  <2>5. /\ consumer' \in [Starts -> Consumer] /\ consumer'[c].at = "callback"
        /\ \A d \in Starts \ {c} : consumer'[d] = consumer[d]
    BY <1>2, <2>1, <2>2 DEF Consumer, Steps
  <2>6. Typed'
    BY <1>1, <2>1, <2>2, <2>3, <2>5 DEF capture, IInv, Typed
  <2>7. UNCHANGED thread /\ queue' \in Seq(Events) /\ Len(queue') <= Len(queue)
    BY <1>1, <2>1, <2>2 DEF capture
  <2>8. RoomKept' /\ OneSniffer'
    BY <1>1, <1>2, <2>7, RoomKeptQuietly, OneSnifferKept DEF IInv, Capturing
  <2>9. CalledOnce'
    BY <1>1, <2>5, <2>7, CalledOnceKept DEF IInv, Typed
  <2>10. LineIsWaiting'
    <3>1. Waiting(consumer') = Waiting(consumer)
      BY <1>1, <2>5 DEF Waiting
    <3> QED
      BY <1>1, <3>1 DEF IInv, LineIsWaiting, Waiting, At
  <2>11. NoEventVanishes'
    BY <1>1, <2>4 DEF IInv, NoEventVanishes
  <2>12. OneAlive'
    BY <1>1, <2>5, OneAliveKept DEF IInv, Alive
  <2> QED
    BY <2>6, <2>8, <2>9, <2>10, <2>11, <2>12 DEF IInv
<1> QED
  BY <1>3, <1>4

LEMMA RegisterPreserves == ASSUME NEW c \in Starts, IInv, Register(c) PROVE IInv'
<1>1. UNCHANGED <<running, capture, queue, accepted, taken, lingering, hasty>>
      /\ getters' = Append(getters, c) /\ consumer[c].at = "register"
  BY DEF Register, At
<1>2. /\ consumer' \in [Starts -> Consumer] /\ consumer'[c].at = "wait"
      /\ \A d \in Starts \ {c} : consumer'[d] = consumer[d]
  BY GotoFacts DEF Register, IInv, Typed, Steps
<1>3. Typed'
  BY <1>1, <1>2 DEF capture, IInv, Typed
<1>4. RoomKept' /\ CalledOnce' /\ OneSniffer'
  BY <1>1, <1>2, ThreadsRest DEF capture
<1>5. LineIsWaiting'
  <2>1. getters \in Seq(Starts) /\ IsInjective(getters) /\ ToSet(getters) = Waiting(consumer)
    BY DEF IInv, LineIsWaiting, Waiting, At
  <2>2. c \notin ToSet(getters)
    BY <1>1, <2>1 DEF Waiting
  <2>3. /\ getters' \in Seq(Starts) /\ IsInjective(getters')
        /\ ToSet(getters') = ToSet(getters) \cup {c}
    BY <1>1, <2>1, <2>2, AppendToInjective
  <2>4. Waiting(consumer') = Waiting(consumer) \cup {c}
    BY <1>2 DEF Waiting
  <2> QED
    BY <2>1, <2>3, <2>4 DEF LineIsWaiting, Waiting, At
<1>6. NoEventVanishes'
  BY <1>1 DEF IInv, NoEventVanishes
<1>7. OneAlive'
  BY <1>1, <1>2, OneAliveKept DEF IInv, Alive
<1> QED
  BY <1>3, <1>4, <1>5, <1>6, <1>7 DEF IInv

\* A cancelled getter leaves the line, is found cancelled by the thread that holds
\* it, or hands its wake-up to the next one.
LEMMA TimeOutPreserves == ASSUME NEW c \in Starts, IInv, TimeOut(c) PROVE IInv'
<1>1. UNCHANGED <<running, sniffer, buffer, passed, queue, accepted, taken, lingering, hasty>>
      /\ consumer[c].at \in {"wait", "called", "woken"} /\ thread' = Cancelled(c)
  BY DEF TimeOut
<1>2. thread \in [Starts -> Thread] /\ consumer \in [Starts -> Consumer]
      /\ queue \in Seq(Events)
  BY DEF IInv, Typed
<1> DEFINE back == [consumer EXCEPT ![c].at = "loop"]
<1>3. /\ back \in [Starts -> Consumer] /\ back[c].at = "loop"
      /\ \A d \in Starts \ {c} : back[d] = consumer[d]
  <2>1. /\ [consumer[c] EXCEPT !.at = "loop"] \in Consumer
        /\ [consumer[c] EXCEPT !.at = "loop"].at = "loop"
    BY <1>2 DEF Consumer, Steps
  <2> QED
    BY <1>2, <2>1
<1>4. \/ /\ At(c, "woken")
         /\ consumer' = Woken(back) /\ getters' = Remaining
      \/ consumer' = back /\ getters' = RemoveFirst(getters, c)
  BY DEF TimeOut
<1> HIDE DEF back
<1>5. getters \in Seq(Starts) /\ IsInjective(getters) /\ ToSet(getters) = Waiting(consumer)
  BY DEF IInv, LineIsWaiting, Waiting, At
<1>6. Waiting(back) = Waiting(consumer) \ {c}
  BY <1>3 DEF Waiting
<1>7. /\ consumer' \in [Starts -> Consumer]
      /\ getters' \in Seq(Starts) /\ IsInjective(getters')
      /\ ToSet(getters') = Waiting(consumer')
      /\ \A d \in Starts : consumer'[d].at \notin {"absent", "ended"} => Alive(d)
      /\ \A d \in Starts \ {c} : consumer[d].at = "called" => consumer'[d].at = "called"
  <2>1. CASE /\ At(c, "woken")
             /\ consumer' = Woken(back) /\ getters' = Remaining
    <3>1. ToSet(getters) = Waiting(back)
      BY <2>1, <1>5, <1>6 DEF Waiting, At
    <3>2. /\ Woken(back) \in [Starts -> Consumer]
          /\ Remaining \in Seq(Starts) /\ IsInjective(Remaining)
          /\ ToSet(Remaining) = Waiting(Woken(back))
          /\ \A d \in Starts :
                \/ Woken(back)[d] = back[d]
                \/ back[d].at = "wait" /\ Woken(back)[d].at = "woken"
      BY <1>3, <1>5, <3>1, WokenFacts
    <3> QED
      BY <1>1, <1>3, <2>1, <3>2 DEF Alive
  <2>2. CASE consumer' = back /\ getters' = RemoveFirst(getters, c)
    <3>1. /\ RemoveFirst(getters, c) \in Seq(Starts) /\ IsInjective(RemoveFirst(getters, c))
          /\ ToSet(RemoveFirst(getters, c)) = ToSet(getters) \ {c}
      BY <1>5, RemoveFromInjective
    <3> QED
      BY <1>1, <1>3, <1>5, <1>6, <2>2, <3>1 DEF Alive
  <2> QED
    BY <1>4, <2>1, <2>2
<1>8. /\ thread' \in [Starts -> Thread]
      /\ \A s \in Starts : /\ thread'[s].at = thread[s].at
                           /\ \/ thread[s].getter = c /\ thread'[s].getter = 0
                              \/ thread[s].getter # c /\ thread'[s] = thread[s]
  <2>1. ASSUME NEW s \in Starts
        PROVE  /\ [thread[s] EXCEPT !.getter = 0] \in Thread
               /\ [thread[s] EXCEPT !.getter = 0].at = thread[s].at
               /\ [thread[s] EXCEPT !.getter = 0].getter = 0
    BY <1>2 DEF Thread
  <2> QED
    BY <1>1, <1>2, <2>1 DEF Cancelled
<1>9. Typed'
  BY <1>1, <1>7, <1>8 DEF IInv, Typed
<1>10. queue' \in Seq(Events) /\ Len(queue') <= Len(queue)
  BY <1>1, <1>2, LenProperties
<1>11. RoomKept' /\ OneSniffer'
  BY <1>1, <1>2, <1>8, <1>10, RoomKeptQuietly, OneSnifferKept DEF IInv, Capturing
<1>12. LineIsWaiting'
  BY <1>7 DEF LineIsWaiting, Waiting, At
<1>13. CalledOnce'
  <2>1. ASSUME NEW u \in Starts, thread'[u].getter # 0
        PROVE  /\ consumer'[thread'[u].getter].at = "called"
               /\ \A v \in Starts : thread'[v].getter = thread'[u].getter => v = u
    <3>1. thread'[u] = thread[u] /\ thread[u].getter \in Starts /\ thread[u].getter # c
      BY <1>2, <1>8, <2>1 DEF Thread
    <3>2. /\ consumer[thread[u].getter].at = "called"
          /\ \A v \in Starts : thread[v].getter = thread[u].getter => v = u
      BY <2>1, <3>1 DEF IInv, CalledOnce, At
    <3> QED
      BY <1>7, <1>8, <2>1, <3>1, <3>2
  <2> QED
    BY <2>1 DEF CalledOnce, At
<1>14. NoEventVanishes'
  BY <1>1 DEF IInv, NoEventVanishes
<1>15. OneAlive'
  BY <1>1, <1>7, OneAliveKept DEF IInv
<1> QED
  BY <1>9, <1>11, <1>12, <1>13, <1>14, <1>15 DEF IInv

LEMMA CallbackEndsPreserves ==
    ASSUME NEW c \in Starts, IInv, CallbackEnds(c) PROVE IInv'
<1>1. UNCHANGED <<running, capture, queue, getters, accepted, taken, lingering, hasty>>
      /\ consumer[c].at = "callback"
  BY DEF CallbackEnds, At
<1>2. /\ consumer' \in [Starts -> Consumer] /\ consumer'[c].at = "loop"
      /\ \A d \in Starts \ {c} : consumer'[d] = consumer[d]
  BY GotoFacts DEF CallbackEnds, IInv, Typed, Steps
<1>3. Typed'
  BY <1>1, <1>2 DEF capture, IInv, Typed
<1>4. RoomKept' /\ CalledOnce' /\ OneSniffer'
  BY <1>1, <1>2, ThreadsRest DEF capture
<1>5. LineIsWaiting'
  <2>1. Waiting(consumer') = Waiting(consumer)
    BY <1>1, <1>2 DEF Waiting
  <2> QED
    BY <1>1, <2>1 DEF IInv, LineIsWaiting, Waiting, At
<1>6. NoEventVanishes'
  BY <1>1 DEF IInv, NoEventVanishes
<1>7. OneAlive'
  BY <1>1, <1>2, OneAliveKept DEF IInv, Alive
<1> QED
  BY <1>3, <1>4, <1>5, <1>6, <1>7 DEF IInv

LEMMA StutterPreserves == IInv /\ UNCHANGED vars => IInv'
<1> SUFFICES ASSUME IInv, UNCHANGED vars PROVE IInv'
  OBVIOUS
<1>1. Typed' /\ RoomKept' /\ LineIsWaiting' /\ CalledOnce'
  BY DEF vars, IInv, Typed, RoomKept, Putting, LineIsWaiting, CalledOnce, At
<1>2. NoEventVanishes' /\ OneAlive' /\ OneSniffer'
  BY DEF vars, IInv, NoEventVanishes, OneAlive, Alive, OneSniffer, Capturing
<1> QED
  BY <1>1, <1>2 DEF IInv

LEMMA NextPreserves == IInv /\ [Next]_vars => IInv'
<1> SUFFICES ASSUME IInv, [Next]_vars PROVE IInv'
  OBVIOUS
<1>1. CASE Arrive
  BY <1>1, ArrivePreserves
<1>2. CASE Stop
  BY <1>2, StopPreserves
<1>3. ASSUME NEW c \in Starts, Start(c) PROVE IInv'
  BY <1>3, StartPreserves
<1>4. ASSUME NEW s \in Starts, Capture(s) PROVE IInv'
  BY <1>4, ComesUpPreserves, CaptureFailsPreserves, PacketCallbackPreserves, PutPreserves,
     TakeGetterPreserves, SetResultPreserves DEF Capture
<1>5. ASSUME NEW c \in Starts, Consume(c) PROVE IInv'
  BY <1>5, ComeRoundPreserves, GetPreserves, RegisterPreserves, CallbackEndsPreserves
  DEF Consume
<1>6. ASSUME NEW c \in Starts, TimeOut(c) PROVE IInv'
  BY <1>6, TimeOutPreserves
<1>7. CASE UNCHANGED vars
  BY <1>7, StutterPreserves
<1> QED
  BY <1>1, <1>2, <1>3, <1>4, <1>5, <1>6, <1>7 DEF Next

----------------------------------------------------------------------------
(* The theorems.                                                           *)

\* The inductive invariant holds in every state of every run.
THEOREM Invariance == Spec => []IInv
  BY InitIInv, NextPreserves, PTL DEF Spec

\* The variables keep their types; the queue passes its capacity by less than the
\* number of sniffers; the line of getters is exactly the consumers that wait and
\* that no thread has called.
THEOREM TypeCorrect == Spec => []TypeOK
<1>1. IInv => TypeOK
  BY DEF IInv, Typed, TypeOK, Thread, ThreadSteps, Consumer, Steps
<1> QED
  BY <1>1, Invariance, PTL

\* No interleaving of the sniffers' threads, wake-ups, time limits and several
\* consumers loses, repeats or swaps an event that found room in the queue.
THEOREM EventsSurvive == Spec => []NoEventVanishes
<1>1. IInv => NoEventVanishes
  BY DEF IInv
<1> QED
  BY <1>1, Invariance, PTL

\* Two consumers run, and the queue passes its capacity, only after a start() that
\* did not wait for what the one before it had started.
THEOREM OneConsumerAtATime == Spec => []OneConsumer
<1>1. IInv => OneConsumer
  <2>1. SUFFICES ASSUME IInv, ~hasty PROVE Cardinality({c \in Starts : Alive(c)}) <= 1
    BY DEF OneConsumer, IInv, OneSniffer
  <2>2. CASE {c \in Starts : Alive(c)} = {}
    BY <2>2, FS_EmptySet
  <2>3. CASE {c \in Starts : Alive(c)} # {}
    <3>1. PICK d \in Starts : Alive(d)
      BY <2>3
    <3>2. {c \in Starts : Alive(c)} = {d}
      BY <2>1, <3>1 DEF IInv, OneAlive
    <3>3. Cardinality({d}) = 1
      BY FS_Singleton, Zenon
    <3> QED
      BY <3>2, <3>3
  <2> QED
    BY <2>2, <2>3
<1> QED
  BY <1>1, Invariance, PTL

============================================================================
