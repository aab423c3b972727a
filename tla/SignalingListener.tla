------------------------- MODULE SignalingListener -------------------------
(***************************************************************************)
(* services/sip-processor/app/signaling: a scapy sniffer in a thread of    *)
(* its own puts SIP events into a bounded asyncio.Queue, a coroutine takes *)
(* them out and awaits on_sip_event for each.                              *)
(*                                                                         *)
(* asyncio.Queue is not made for threads. get() looks whether the queue is *)
(* empty and then registers a getter; the sniffer's put_nowait may fall    *)
(* between the two and wake nobody. put_nowait itself is four steps of the *)
(* sniffer's thread: it asks whether the queue is full, puts the event,    *)
(* takes a getter out of the line and wakes it, and anything may happen    *)
(* between them: another thread puts, the getter's time limit cancels it.  *)
(* What the sniffer wakes the event loop runs when it next wakes up.       *)
(* wait_for(..., 1.0) bounds the delay.                                    *)
(*                                                                         *)
(* stop() does not wait for the coroutine, and start() does not ask        *)
(* whether one is left: it adds a sniffer and a coroutine. A sniffer whose *)
(* thread is not up yet cannot be stopped: stop() raises.                  *)
(***************************************************************************)
EXTENDS Integers, Sequences, FiniteSets, SequencesExt

CONSTANTS
    Wire,       \* bound: the packets of the wire, in order: "INVITE", "BYE",
                \* "response", or "other" (another port, not UDP, not SIP)
    MaxStarts,  \* bound: calls of start()
    Capacity    \* the queue's maxsize, 10000

ASSUME ListenerAssumption ==
    /\ Wire \in Seq({"INVITE", "BYE", "response", "other"})
    /\ MaxStarts \in Nat /\ Capacity \in Nat \ {0}

VARIABLES
    running,    \* self.running
    sniffer,    \* self._sniffer: the start() that made it, or 0
    thread,     \* sniffer -> its thread: [at, event, getter]
    buffer,     \* sniffer -> packets its thread has not handled
    passed,     \* how many packets have passed on the wire
    queue,      \* self._event_queue
    getters,    \* its getters, waiting to be woken
    consumer,   \* start() -> the _process_events it made: [at, event]
    accepted,   \* history: the events put into the queue
    taken,      \* history: the events taken out
    lingering,  \* history: consumers that have not come round since stop()
    hasty       \* history: a start() found the listener, a consumer or a
                \* sniffer of an earlier one still running

Starts == 1..MaxStarts

capture == <<sniffer, thread, buffer, passed>>
loop == <<running, consumer>>
vars == <<running, sniffer, thread, buffer, passed, queue, getters, consumer,
          accepted, taken, lingering, hasty>>

NoEvent == [packet |-> 0, method |-> "none"]
Absent == [at |-> "absent", event |-> NoEvent]
At(c, step) == consumer[c].at = step
Goto(c, step) == consumer' = [consumer EXCEPT ![c] = [Absent EXCEPT !.at = step]]

Alive(c) == consumer[c].at \notin {"absent", "ended"}
Unstarted == {c \in Starts : At(c, "absent")}

\* Between looking and registering no other coroutine runs.
LoopFree == \A c \in Starts : ~At(c, "register")

----------------------------------------------------------------------------
(* The sniffers.                                                           *)

\* is_sip_message: a method the parser knows, or a response.
IsSip(kind) == kind # "other"

\* _parse_method: the first word of a response, SIP/2.0, is no method, and the
\* answer is INVITE.
Method(kind) == IF kind = "response" THEN "INVITE" ELSE kind

Event(p) == [packet |-> p, method |-> Method(Wire[p])]

\* A thread that is between two packets, and one whose sniffer was started.
Idle == [at |-> "idle", event |-> NoEvent, getter |-> 0]
Capturing(s) == thread[s].at \notin {"none", "ended"}
ThreadGoes(s, step) == thread' = [thread EXCEPT ![s] = [Idle EXCEPT !.at = step]]

\* The socket of the sniffer is open.
ComesUp(s) ==
    /\ thread[s].at = "starting"
    /\ ThreadGoes(s, "idle")
    /\ UNCHANGED <<loop, sniffer, buffer, passed, queue, getters, accepted, taken, lingering, hasty>>

\* It cannot be opened, or fails: the thread ends, and nobody is told.
CaptureFails(s) ==
    /\ thread[s].at \in {"starting", "idle"}
    /\ ThreadGoes(s, "ended")
    /\ buffer' = [buffer EXCEPT ![s] = << >>]
    /\ UNCHANGED <<loop, sniffer, passed, queue, getters, accepted, taken, lingering, hasty>>

Arrive ==
    /\ passed < Len(Wire)
    /\ passed' = passed + 1
    /\ buffer' = [s \in Starts |->
                    IF Capturing(s) /\ thread[s].at # "starting"
                    THEN Append(buffer[s], passed + 1) ELSE buffer[s]]
    /\ UNCHANGED <<loop, sniffer, thread, queue, getters, accepted, taken, lingering, hasty>>

\* Mutant: one event too many finds room.
PacketCallbackWithOneMore(s) ==
    /\ thread[s].at = "idle" /\ buffer[s] # << >>
    /\ buffer' = [buffer EXCEPT ![s] = Tail(@)]
    /\ LET p == Head(buffer[s])
       IN  IF IsSip(Wire[p]) /\ Len(queue) <= Capacity
           THEN thread' = [thread EXCEPT ![s] = [Idle EXCEPT !.at = "put", !.event = Event(p)]]
           ELSE UNCHANGED thread
    /\ UNCHANGED <<loop, sniffer, passed, queue, getters, accepted, taken, lingering, hasty>>

\* _packet_callback, up to the full() of put_nowait: what is not SIP on the port
\* is passed over, and an event for which the queue has no room dropped.
PacketCallback(s) ==
    /\ thread[s].at = "idle" /\ buffer[s] # << >>
    /\ buffer' = [buffer EXCEPT ![s] = Tail(@)]
    /\ LET p == Head(buffer[s])
       IN  IF IsSip(Wire[p]) /\ Len(queue) < Capacity
           THEN thread' = [thread EXCEPT ![s] = [Idle EXCEPT !.at = "put", !.event = Event(p)]]
           ELSE UNCHANGED thread
    /\ UNCHANGED <<loop, sniffer, passed, queue, getters, accepted, taken, lingering, hasty>>

\* The _put of put_nowait.
Put(s) ==
    /\ thread[s].at = "put"
    /\ queue' = Append(queue, thread[s].event)
    /\ accepted' = Append(accepted, thread[s].event)
    /\ ThreadGoes(s, "wake")
    /\ UNCHANGED <<loop, sniffer, buffer, passed, getters, taken, lingering, hasty>>

\* Its _wakeup_next takes the first getter out of the line, if there is one ...
TakeGetter(s) ==
    /\ thread[s].at = "wake"
    /\ IF getters = << >>
       THEN ThreadGoes(s, "idle") /\ UNCHANGED <<consumer, getters>>
       ELSE /\ thread' = [thread EXCEPT ![s] = [Idle EXCEPT !.at = "set", !.getter = Head(getters)]]
            /\ consumer' = [consumer EXCEPT ![Head(getters)].at = "called"]
            /\ getters' = Tail(getters)
    /\ UNCHANGED <<running, sniffer, buffer, passed, queue, accepted, taken, lingering, hasty>>

\* ... and wakes it. One that was cancelled in between is passed over for the next,
\* or, after the look whether it is done, raises InvalidStateError, which is logged.
SetResult(s) ==
    /\ thread[s].at = "set"
    /\ IF thread[s].getter = 0
       THEN (ThreadGoes(s, "idle") \/ ThreadGoes(s, "wake")) /\ UNCHANGED consumer
       ELSE /\ consumer' = [consumer EXCEPT ![thread[s].getter].at = "woken"]
            /\ ThreadGoes(s, "idle")
    /\ UNCHANGED <<running, sniffer, buffer, passed, queue, getters, accepted, taken, lingering, hasty>>

----------------------------------------------------------------------------
(* start() and stop().                                                     *)

Start(c) ==
    /\ LoopFree
    /\ c \in Unstarted /\ \A d \in Unstarted : c <= d
    /\ running' = TRUE
    /\ sniffer' = c
    /\ ThreadGoes(c, "starting")
    /\ Goto(c, "loop")
    /\ hasty' = (hasty \/ running \/ lingering # {} \/ \E s \in Starts : Capturing(s))
    /\ UNCHANGED <<buffer, passed, queue, getters, accepted, taken, lingering>>

\* Only the last sniffer is stopped. AsyncSniffer.stop joins its thread, which is
\* done with its packet then; it raises when the thread is not up, and may when
\* it has died, and _sniffer stays.
Stop ==
    /\ LoopFree
    /\ running' = FALSE
    /\ lingering' = {c \in Starts : Alive(c)}
    /\ \/ sniffer = 0 /\ UNCHANGED <<sniffer, thread, buffer>>
       \/ /\ sniffer # 0 /\ thread[sniffer].at = "idle"
          /\ ThreadGoes(sniffer, "ended")
          /\ buffer' = [buffer EXCEPT ![sniffer] = << >>]
          /\ sniffer' = 0
       \/ /\ sniffer # 0 /\ thread[sniffer].at = "ended"
          /\ sniffer' = 0 /\ UNCHANGED <<thread, buffer>>
       \/ /\ sniffer # 0 /\ thread[sniffer].at \in {"starting", "ended"}
          /\ UNCHANGED <<sniffer, thread, buffer>>
    /\ UNCHANGED <<passed, queue, getters, consumer, accepted, taken, hasty>>

----------------------------------------------------------------------------
(* _process_events.                                                        *)

\* Mutant: the loop does not ask whether the listener was stopped.
ComeRoundAlways(c) ==
    /\ LoopFree /\ At(c, "loop")
    /\ Goto(c, "get")
    /\ lingering' = lingering \ {c}
    /\ UNCHANGED <<running, capture, queue, getters, accepted, taken, hasty>>

ComeRound(c) ==
    /\ LoopFree /\ At(c, "loop")
    /\ Goto(c, IF running THEN "get" ELSE "ended")
    /\ lingering' = lingering \ {c}
    /\ UNCHANGED <<running, capture, queue, getters, accepted, taken, hasty>>

\* get() as it begins or as it was woken: `while self.empty()`.
Get(c) ==
    /\ LoopFree /\ consumer[c].at \in {"get", "woken"}
    /\ IF queue = << >>
       THEN Goto(c, "register") /\ UNCHANGED <<queue, taken>>
       ELSE /\ queue' = Tail(queue)
            /\ taken' = Append(taken, Head(queue))
            /\ consumer' = [consumer EXCEPT ![c] = [at |-> "callback", event |-> Head(queue)]]
    /\ UNCHANGED <<running, capture, getters, accepted, lingering, hasty>>

Register(c) ==
    /\ At(c, "register")
    /\ getters' = Append(getters, c)
    /\ Goto(c, "wait")
    /\ UNCHANGED <<running, capture, queue, accepted, taken, lingering, hasty>>

\* Mutant: without wait_for.
TimeOutNever(c) == FALSE /\ UNCHANGED vars

\* _wakeup_next in the event loop's own thread: of the consumers after the
\* wake-up of the first getter.
Woken(consumers) ==
    IF getters = << >> THEN consumers ELSE [consumers EXCEPT ![Head(getters)].at = "woken"]

Remaining == IF getters = << >> THEN getters ELSE Tail(getters)

\* The threads once c's getter is cancelled: the one that holds it will find it so.
Cancelled(c) == [s \in Starts |-> IF thread[s].getter = c
                                  THEN [thread[s] EXCEPT !.getter = 0] ELSE thread[s]]

\* Mutant: the cancelled get() takes its event along.
TimeOutWithEvent(c) ==
    /\ LoopFree /\ consumer[c].at \in {"wait", "called", "woken"}
    /\ Goto(c, "loop")
    /\ getters' = RemoveFirst(getters, c)
    /\ thread' = Cancelled(c)
    /\ queue' = IF At(c, "woken") /\ queue # << >> THEN Tail(queue) ELSE queue
    /\ UNCHANGED <<running, sniffer, buffer, passed, accepted, taken, lingering, hasty>>

\* wait_for cancels get(), whose getter leaves the line if it still stands in it.
\* A getter that was woken already passes that on to the next one.
TimeOut(c) ==
    /\ LoopFree /\ consumer[c].at \in {"wait", "called", "woken"}
    /\ LET back == [consumer EXCEPT ![c].at = "loop"]
       IN  IF At(c, "woken") /\ queue # << >>
           THEN consumer' = Woken(back) /\ getters' = Remaining
           ELSE consumer' = back /\ getters' = RemoveFirst(getters, c)
    /\ thread' = Cancelled(c)
    /\ UNCHANGED <<running, sniffer, buffer, passed, queue, accepted, taken, lingering, hasty>>

\* on_sip_event returns, or raises and is logged.
CallbackEnds(c) ==
    /\ LoopFree /\ At(c, "callback")
    /\ Goto(c, "loop")
    /\ UNCHANGED <<running, capture, queue, getters, accepted, taken, lingering, hasty>>

----------------------------------------------------------------------------

Init ==
    /\ running = FALSE
    /\ sniffer = 0
    /\ thread = [s \in Starts |-> [Idle EXCEPT !.at = "none"]]
    /\ buffer = [s \in Starts |-> << >>]
    /\ passed = 0
    /\ queue = << >> /\ getters = << >>
    /\ consumer = [c \in Starts |-> Absent]
    /\ accepted = << >> /\ taken = << >>
    /\ lingering = {} /\ hasty = FALSE

Consume(c) == ComeRound(c) \/ Get(c) \/ Register(c) \/ CallbackEnds(c)

Capture(s) == \/ ComesUp(s) \/ CaptureFails(s) \/ PacketCallback(s)
              \/ Put(s) \/ TakeGetter(s) \/ SetResult(s)

Next ==
    \/ Arrive \/ Stop
    \/ \E c \in Starts : Start(c) \/ Capture(c) \/ Consume(c) \/ TimeOut(c)

\* The event loop runs what is ready, timers go off, and callbacks return.
Fairness == \A c \in Starts : WF_vars(Consume(c)) /\ WF_vars(TimeOut(c))

Spec == Init /\ [][Next]_vars /\ Fairness

----------------------------------------------------------------------------
(* Properties.                                                             *)

Events == {NoEvent} \cup {Event(p) : p \in DOMAIN Wire}

\* The sniffers' threads that have found room in the queue and not put yet.
Putting == {s \in Starts : thread[s].at = "put"}

\* The queue may pass its capacity, since the threads of several sniffers may find
\* the same room, but by less than the number of sniffers.
RoomKept == Len(queue) + Cardinality(Putting) < Capacity + MaxStarts

\* The consumers in line are those that wait and that no thread has called.
LineIsWaiting ==
    /\ getters \in Seq(Starts) /\ IsInjective(getters)
    /\ ToSet(getters) = {c \in Starts : At(c, "wait")}

\* The getter a thread has taken out of the line is no other thread's.
CalledOnce ==
    \A s \in Starts : thread[s].getter # 0 =>
        /\ At(thread[s].getter, "called")
        /\ \A u \in Starts : thread[u].getter = thread[s].getter => u = s

\* The variables hold values of their types; the threads and the event loop keep
\* the queue near its capacity (listener.py:94) and the line of getters in order,
\* whatever time limit meets whatever wake-up (listener.py:105).
TypeOK ==
    /\ running \in BOOLEAN /\ hasty \in BOOLEAN
    /\ sniffer \in Starts \cup {0}
    /\ thread \in [Starts ->
         [at : {"none", "starting", "idle", "put", "wake", "set", "ended"},
          event : Events, getter : Starts \cup {0}]]
    /\ buffer \in [Starts -> Seq(DOMAIN Wire)]
    /\ passed \in 0..Len(Wire)
    /\ queue \in Seq(Events)
    /\ consumer \in [Starts ->
         [at : {"absent", "loop", "get", "register", "wait", "called", "woken", "callback", "ended"},
          event : Events]]
    /\ lingering \subseteq Starts
    /\ RoomKept /\ LineIsWaiting /\ CalledOnce

\* An event that found room in the queue is taken out once, in the order of the
\* capture, or is still in the queue: neither a timeout that meets a wake-up nor
\* a second consumer loses, repeats or swaps one (listener.py:101-115).
NoEventVanishes == accepted = taken \o queue

\* When each start() comes after stop() has stopped the sniffer and after the old
\* consumer has come round (a second later, once its callback is done), there is
\* one consumer, so that the callbacks of a call's events never overlap, and the
\* queue keeps its capacity (listener.py:94, 98-152).
OneConsumer ==
    ~hasty => /\ Cardinality({c \in Starts : Alive(c)}) <= 1
              /\ Len(queue) <= Capacity

\* While the listener runs, no event stays in the queue for good, although the
\* sniffer's wake-up can miss a getter that is about to register, or meet one that
\* is just cancelled and then wake nobody (listener.py:94-115).
QueuedIsTaken ==
    \A n \in 1..(MaxStarts * Len(Wire)) :
        Len(accepted) >= n /\ running ~> Len(taken) >= n \/ ~running

============================================================================
