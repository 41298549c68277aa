---------------------------- MODULE EventSystem ------------------------------
(***************************************************************************)
(* Ship::EventSystem (src/src/ship/events/EventSystem.cpp): events whose   *)
(* listeners form a vector sorted by priority.  CallEvent runs over that   *)
(* vector with iterators, and the listeners it calls may themselves call   *)
(* events and register and unregister listeners.                           *)
(***************************************************************************)
EXTENDS Integers, SequencesExt

CONSTANTS
  Priorities,   \* of EVENT_PRIORITY_LOW, _NORMAL and _HIGH, the ones used
  MaxEvents,    \* bound on the events registered
  MaxListeners, \* bound on the listeners ever registered for each event
  MaxDepth      \* bound on the calls of events running inside each other

Events == 0 .. MaxEvents - 1

ASSUME BoundAssumption ==
  /\ Priorities \subseteq Int
  /\ MaxEvents \in Nat /\ MaxListeners \in [Events -> Nat] /\ MaxDepth \in Nat

Listener == [id : Nat, priority : Priorities]

VARIABLES
  mInternalEventID, \* the next event's number
  listeners,        \* EventRegistration::Listeners of each event
  freed,            \* the slots an erase has left behind the vector's end
  nextListenerID,   \* EventRegistration::NextListenerID of each event
  calls,            \* the running calls of CallEvent, the innermost last
  undefined         \* a call has used an iterator into a buffer given back

vars == <<mInternalEventID, listeners, freed, nextListenerID, calls, undefined>>

Call ==
  [event : Events, pos : Nat, end : Nat, \* its iterators
   dangling : BOOLEAN,         \* is their buffer gone?
   changed : BOOLEAN,          \* history: the event's listeners changed meanwhile
   inside : BOOLEAN,           \* is a listener running?
   called : Seq(Nat)]  \* history: the listeners called

TypeOK ==
  /\ mInternalEventID \in 0 .. MaxEvents
  /\ nextListenerID \in [Events -> Nat]
  /\ \A e \in Events : nextListenerID[e] <= MaxListeners[e]
  /\ listeners \in [Events -> Seq(Listener)]
  /\ freed \in [Events -> Seq(Listener)]
  /\ \A e \in Events : /\ Len(listeners[e]) <= nextListenerID[e]
                       /\ \A i \in DOMAIN listeners[e] : listeners[e][i].id < nextListenerID[e]
  /\ calls \in Seq(Call) /\ Len(calls) <= MaxDepth
  /\ undefined \in BOOLEAN

Init ==
  /\ mInternalEventID = 0
  /\ nextListenerID = [e \in Events |-> 0]
  /\ listeners = [e \in Events |-> <<>>]
  /\ freed = [e \in Events |-> <<>>]
  /\ calls = <<>>
  /\ undefined = FALSE

Registered(e) == e < mInternalEventID
Top == calls[Len(calls)]
Calling(e) == \E c \in DOMAIN calls : calls[c].event = e

(* The program runs outside every call, or inside a listener of the        *)
(* innermost one.                                                          *)
Running == ~undefined /\ (calls # <<>> => Top.inside)

------------------------------------------------------------------------------
RegisterEvent ==
  /\ Running /\ mInternalEventID < MaxEvents
  /\ mInternalEventID' = mInternalEventID + 1
  /\ UNCHANGED <<listeners, freed, nextListenerID, calls, undefined>>

(* What vector::erase leaves behind the end is told apart only while a     *)
(* call may still run into it.                                             *)
Leftover(e, slots) == IF Calling(e) THEN slots ELSE <<>>

(* std::lower_bound by priority: the new listener becomes the k-th.        *)
LowerBound(s, p, k) ==
  /\ \A i \in 1 .. k - 1 : s[i].priority < p
  /\ \A i \in k .. Len(s) : s[i].priority >= p

(* The calls of e run over a vector that changed, and moved if it did.     *)
MarkChanged(e, moved) ==
  calls' = [c \in DOMAIN calls |->
              IF calls[c].event = e
              THEN [calls[c] EXCEPT !.changed = TRUE, !.dangling = @ \/ moved]
              ELSE calls[c]]

(* Mutant of RegisterListener: the ID is counted before it is given.       *)
RegisterListenerLate(e, p) ==
  /\ Running /\ Registered(e) /\ nextListenerID[e] < MaxListeners[e]
  /\ \E k \in 1 .. Len(listeners[e]) + 1 :
       /\ LowerBound(listeners[e], p, k)
       /\ listeners' = [listeners EXCEPT
                          ![e] = InsertAt(@, k, [id |-> nextListenerID[e] + 1, priority |-> p])]
  /\ nextListenerID' = [nextListenerID EXCEPT ![e] = @ + 1]
  /\ MarkChanged(e, FALSE)
  /\ UNCHANGED <<mInternalEventID, freed, undefined>>

(* The insertion may move a vector without a free slot to another buffer.  *)
RegisterListener(e, p) ==
  /\ Running /\ Registered(e) /\ nextListenerID[e] < MaxListeners[e]
  /\ \E k \in 1 .. Len(listeners[e]) + 1 :
       /\ LowerBound(listeners[e], p, k)
       /\ listeners' = [listeners EXCEPT
                          ![e] = InsertAt(@, k, [id |-> nextListenerID[e], priority |-> p])]
  /\ nextListenerID' = [nextListenerID EXCEPT ![e] = @ + 1]
  /\ \/ /\ freed' = [freed EXCEPT ![e] = IF @ = <<>> THEN @ ELSE Tail(@)]
        /\ MarkChanged(e, FALSE)
     \/ /\ Calling(e) /\ freed[e] = <<>>
        /\ MarkChanged(e, TRUE)
        /\ UNCHANGED freed
  /\ UNCHANGED <<mInternalEventID, undefined>>

(* UnregisterListener, behind its early returns.  Erasing moves the rest   *)
(* down and leaves the last slot as it was.                                *)
UnregisterListener(e, i) ==
  /\ Running /\ Registered(e)
  /\ listeners' = [listeners EXCEPT ![e] = RemoveAt(@, i)]
  /\ freed' = [freed EXCEPT
                 ![e] = Leftover(e, <<listeners[e][Len(listeners[e])]>> \o @)]
  /\ MarkChanged(e, FALSE)
  /\ UNCHANGED <<mInternalEventID, nextListenerID, undefined>>

------------------------------------------------------------------------------
(* CallEvent takes the vector's begin and end.                             *)
CallEvent(e) ==
  /\ Running /\ Registered(e) /\ Len(calls) < MaxDepth
  /\ calls' = Append(calls, [event |-> e, pos |-> 0, end |-> Len(listeners[e]),
                             dangling |-> FALSE, changed |-> FALSE,
                             inside |-> FALSE, called |-> <<>>])
  /\ UNCHANGED <<mInternalEventID, listeners, freed, nextListenerID, undefined>>

Slot(c, i) == (listeners[c.event] \o freed[c.event])[i]

(* The next listener of the innermost call starts.                         *)
Invoke ==
  /\ ~undefined /\ calls # <<>> /\ ~Top.inside /\ Top.pos < Top.end /\ ~Top.dangling
  /\ calls' = [calls EXCEPT ![Len(calls)] =
                 [Top EXCEPT !.pos = @ + 1, !.inside = TRUE,
                             !.called = Append(@, Slot(Top, Top.pos + 1).id)]]
  /\ UNCHANGED <<mInternalEventID, listeners, freed, nextListenerID, undefined>>

InvokeDangling ==
  /\ ~undefined /\ calls # <<>> /\ ~Top.inside /\ Top.pos < Top.end /\ Top.dangling
  /\ undefined' = TRUE
  /\ UNCHANGED <<mInternalEventID, listeners, freed, nextListenerID, calls>>

(* Mutant of Return: the calls of one event share their position.          *)
ReturnShared ==
  /\ ~undefined /\ calls # <<>> /\ Top.inside
  /\ calls' = [c \in DOMAIN calls |->
                 IF calls[c].event = Top.event
                 THEN [calls[c] EXCEPT !.pos = Top.pos, !.inside = c < Len(calls)]
                 ELSE calls[c]]
  /\ UNCHANGED <<mInternalEventID, listeners, freed, nextListenerID, undefined>>

(* The listener returns.                                                   *)
Return ==
  /\ ~undefined /\ calls # <<>> /\ Top.inside
  /\ calls' = [calls EXCEPT ![Len(calls)] = [Top EXCEPT !.inside = FALSE]]
  /\ UNCHANGED <<mInternalEventID, listeners, freed, nextListenerID, undefined>>

(* CallEvent returns to the listener, if any, that called it.              *)
Finish ==
  /\ ~undefined /\ calls # <<>> /\ ~Top.inside /\ Top.pos = Top.end
  /\ calls' = SubSeq(calls, 1, Len(calls) - 1)
  /\ freed' = [e \in Events |->
                 IF \E c \in 1 .. Len(calls) - 1 : calls[c].event = e THEN freed[e] ELSE <<>>]
  /\ UNCHANGED <<mInternalEventID, listeners, nextListenerID, undefined>>

Next ==
  \/ RegisterEvent
  \/ \E e \in Events, p \in Priorities : RegisterListener(e, p)
  \/ \E e \in Events : \E i \in DOMAIN listeners[e] : UnregisterListener(e, i)
  \/ \E e \in Events : CallEvent(e)
  \/ Invoke \/ InvokeDangling \/ Return \/ Finish

Spec == Init /\ [][Next]_vars

------------------------------------------------------------------------------
(* What lower_bound with operator< on the priorities makes: the listeners  *)
(* of an event are in ascending order of priority, and of two with one     *)
(* priority the newer comes first.  EventSystem.h, EventTypes.h and        *)
(* docs/SCRIPTING.md promise both orders the other way round, so this      *)
(* describes the code and is not a requirement on it.                      *)
Sorted ==
  \A e \in Events : \A i, j \in DOMAIN listeners[e] :
    i < j => \/ listeners[e][i].priority < listeners[e][j].priority
             \/ /\ listeners[e][i].priority = listeners[e][j].priority
                /\ listeners[e][i].id > listeners[e][j].id

(* A call has called exactly the listeners before its position, in their   *)
(* order, once each, and will end at the vector's end, however many events *)
(* its listeners call in turn, the same one included, and whatever they    *)
(* register for other events.                                              *)
InOrder ==
  \A c \in DOMAIN calls :
    LET s == listeners[calls[c].event]
    IN  calls[c].changed \/
        /\ calls[c].end = Len(s)
        /\ Len(calls[c].called) = calls[c].pos
        /\ calls[c].pos <= calls[c].end
        /\ \A i \in 1 .. calls[c].pos : calls[c].called[i] = s[i].id
==============================================================================
