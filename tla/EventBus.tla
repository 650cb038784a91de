------------------------------ MODULE EventBus ------------------------------
(***************************************************************************)
(* EventBus (src/common/utils/event-bus.util.js): publish calls the        *)
(* handlers of a channel synchronously; a new subscriber gets the buffered *)
(* events of its channel replayed by a setImmediate callback.              *)
(*                                                                         *)
(* A listener is a handler, or the wrapper that one call of subscribeOnce  *)
(* puts around one.  Payloads are not told apart: a channel's history is   *)
(* the number of events it buffers.  Handlers do not call the bus; they    *)
(* may throw, which ends a publish early.  One that throws in a replay     *)
(* ends the process, and the bus with it; that is left out.                *)
(***************************************************************************)
EXTENDS Integers, Sequences

CONSTANTS
    Channels, Handlers,
    Wrappers,         \* bound: calls of subscribeOnce
    historyMaxSize,   \* 0 disables the history
    MaxReplays,       \* bound: setImmediate callbacks that wait
    Nothing

\* A wrapper is a new function: it is nobody's handler.
ASSUME BusAssumption ==
    /\ historyMaxSize \in Nat
    /\ Handlers \cap Wrappers = {}
    /\ Nothing \notin Wrappers
    /\ Nothing \notin Channels \X Handlers
    /\ Nothing \notin 0 .. historyMaxSize

VARIABLES
    listeners,      \* _listeners
    onceListeners,  \* _onceListeners: the first wrapper ever made of a handler
    wraps,          \* the channel and handler of each wrapper made so far
    history,        \* _history
    replays,        \* the setImmediate callbacks, first come first served
    times           \* history: how often each wrapper has called its handler

busVars == <<listeners, onceListeners, wraps, history, replays, times>>

Listeners == Handlers \cup Wrappers

BusTypeOK ==
    /\ listeners \in [Channels -> SUBSET Listeners]
    /\ onceListeners \in [Handlers -> Wrappers \cup {Nothing}]
    /\ wraps \in [Wrappers -> (Channels \X Handlers) \cup {Nothing}]
    /\ history \in [Channels -> 0 .. historyMaxSize]
    /\ times \in [Wrappers -> Nat]

BusInit ==
    /\ listeners = [e \in Channels |-> {}]
    /\ onceListeners = [h \in Handlers |-> Nothing]
    /\ wraps = [w \in Wrappers |-> Nothing]
    /\ history = [e \in Channels |-> 0]
    /\ replays = <<>>
    /\ times = [w \in Wrappers |-> 0]

\* subscribe: a replay is scheduled if the channel has a history.  The callback
\* keeps a reference to the buffer, whose contents may change until it runs.
attach(e, listener) ==
    /\ listeners' = [listeners EXCEPT ![e] = @ \cup {listener}]
    /\ IF history[e] > 0
       THEN /\ Len(replays) < MaxReplays
            /\ replays' = Append(replays, [channel |-> e, listener |-> listener,
                                           past |-> Nothing])
       ELSE UNCHANGED replays
    /\ UNCHANGED <<history, times>>

subscribe(e, h) ==
    /\ attach(e, h)
    /\ UNCHANGED <<onceListeners, wraps>>

subscribeOnce(e, h, w) ==
    /\ wraps[w] = Nothing
    /\ wraps' = [wraps EXCEPT ![w] = <<e, h>>]
    /\ onceListeners' = [onceListeners EXCEPT ![h] = IF @ = Nothing THEN w ELSE @]
    /\ attach(e, w)

\* By the handler's own reference; a handler that was ever wrapped stands for
\* its first wrapper.
unsubscribe(e, h) ==
    LET listener == IF onceListeners[h] # Nothing THEN onceListeners[h] ELSE h IN
    /\ listeners' = [listeners EXCEPT ![e] = @ \ {listener}]
    /\ UNCHANGED <<onceListeners, wraps, history, replays, times>>

\* Mutant: the wrapper unsubscribes its handler instead of itself.
leftAfterByHandler(e, set) ==
    listeners[e] \ {onceListeners[wraps[w][2]] : w \in set \cap Wrappers}

\* A wrapper that is called takes itself off its channel.
leftAfter(e, set) == listeners[e] \ (set \cap Wrappers)

\* The listeners of set are called on channel e, n times.
called(e, set, n) ==
    /\ listeners' = [listeners EXCEPT ![e] = leftAfter(e, set)]
    /\ times' = [w \in Wrappers |-> IF w \in set THEN times[w] + n ELSE times[w]]

\* The listeners are called one after the other, all of them unless one throws.
\* Their order is left out: those called by then may be any of them.
publish(e) ==
    /\ history' = [history EXCEPT ![e] = IF @ < historyMaxSize THEN @ + 1 ELSE @]
    /\ \E set \in SUBSET listeners[e] :
          /\ set # {} \/ listeners[e] = {}
          /\ called(e, set, 1)
    /\ UNCHANGED <<onceListeners, wraps, replays>>

\* The setImmediate callback calls the listener for each buffered event, even
\* if it has been called or unsubscribed meanwhile.
replay ==
    LET r == Head(replays) IN
    /\ replays # <<>>
    /\ replays' = Tail(replays)
    /\ called(r.channel, {r.listener},
              IF r.past = Nothing THEN history[r.channel] ELSE r.past)
    /\ UNCHANGED <<onceListeners, wraps, history>>

\* clear(eventName) drops the buffer; callbacks that wait still refer to it.
clearChannel(e) ==
    /\ listeners' = [listeners EXCEPT ![e] = {}]
    /\ history' = [history EXCEPT ![e] = 0]
    /\ replays' = [i \in DOMAIN replays |->
                     IF replays[i].channel = e /\ replays[i].past = Nothing
                     THEN [replays[i] EXCEPT !.past = history[e]] ELSE replays[i]]
    /\ UNCHANGED <<onceListeners, wraps, times>>

BusNext ==
    \/ \E e \in Channels, h \in Handlers :
          \/ subscribe(e, h)
          \/ unsubscribe(e, h)
          \/ \E w \in Wrappers : subscribeOnce(e, h, w)
    \/ \E e \in Channels : publish(e) \/ clearChannel(e)
    \/ replay

BusSpec == BusInit /\ [][BusNext]_busVars

-----------------------------------------------------------------------------
PublishesOnce ==
    (\E e \in Channels : publish(e)) =>
        \A w \in Wrappers : times'[w] > times[w] => times[w] = 0

\* publish calls the handler of a subscribeOnce only if nothing has called it
\* before, neither publish nor the replay of a history, and whatever is
\* subscribed, wrapped, unsubscribed and cleared around it: "exactly one
\* invocation" (event-bus.util.js:53) of the events that are published after.
NeverPublishedTwice == [][PublishesOnce]_busVars

=============================================================================
