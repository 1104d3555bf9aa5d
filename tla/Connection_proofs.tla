-------------------------- MODULE Connection_proofs --------------------------
(***************************************************************************)
(* Proofs about Connection and Negotiation, for all preferred parameters,  *)
(* numbers of attempts, queue sizes, intervals and commands.               *)
(***************************************************************************)
EXTENDS Negotiation, SequenceTheorems, TLAPS

EventTypes == {"connected", "disconnected", "update", "adv_timeout"}
Events0 == [type : EventTypes, interval : Uint16]
OpNames == {"start", "stop", "led"}

-----------------------------------------------------------------------------
(* Queues.                                                                 *)

\* What is left of a queue when its first element is taken.
LEMMA TailFacts ==
    ASSUME NEW S, NEW s \in Seq(S), s # <<>>
    PROVE  /\ Head(s) = s[1] /\ s[1] \in S
           /\ Tail(s) \in Seq(S) /\ Len(Tail(s)) = Len(s) - 1 /\ Len(s) \in Nat \ {0}
           /\ \A i \in 1 .. Len(s) - 1 : Tail(s)[i] = s[i + 1]
  BY HeadTailProperties, EmptySeq, LenProperties

\* A queue with one more element.
LEMMA AppendFacts ==
    ASSUME NEW S, NEW s \in Seq(S), NEW e \in S
    PROVE  /\ Append(s, e) \in Seq(S) /\ Len(Append(s, e)) = Len(s) + 1
           /\ Len(s) \in Nat
           /\ \A i \in 1 .. Len(s) : Append(s, e)[i] = s[i]
           /\ Append(s, e)[Len(s) + 1] = e
           /\ Append(s, e) # <<>>
  BY AppendProperties, LenProperties

\* An event is a record of a type and an interval.
LEMMA EventFacts ==
    ASSUME NEW t \in EventTypes, NEW n \in Uint16
    PROVE  Event(t, n) \in Events0 /\ Event(t, n).type = t /\ Event(t, n).interval = n
  BY DEF Event, Events0

\* The operations that an event queues.
LEMMA OperationsFacts ==
    ASSUME NEW e \in Events0
    PROVE  /\ Operations(e) \in Seq(OpNames)
           /\ Len(Operations(e)) \in 0 .. 2
  <1> DEFINE Good(s) == s \in Seq(OpNames) /\ Len(s) \in 0 .. 2
  <1>1. Good(<<"stop", "led">>)
    BY DEF OpNames
  <1>2. Good(<<"start">>)
    BY DEF OpNames
  <1>3. Good(<<>>)
    OBVIOUS
  <1>4. \/ Operations(e) = <<"stop", "led">>
        \/ Operations(e) = <<"start">>
        \/ Operations(e) = <<>>
    BY Zenon DEF Operations
  <1> HIDE DEF Good
  <1>5. Good(Operations(e))
    BY <1>1, <1>2, <1>3, <1>4, Zenon
  <1> QED  BY <1>5 DEF Good

-----------------------------------------------------------------------------
(* Types.                                                                  *)

\* The type invariant, in a form that names the sets of the queues.
LEMMA TypeParts ==
    TypeOK <=>
      /\ power \in {"on", "asleep", "reset"}
      /\ link \in {"off", "advertising", "up", "closing"}
      /\ interval \in Uint16 /\ current \in Uint16
      /\ procedure = None \/ procedure \in Uint16 \X Uint16
      /\ evq \in Seq(Events0) /\ Len(evq) <= MaxEvents
      /\ draining \in BOOLEAN /\ connHandle \in BOOLEAN /\ timer \in BOOLEAN
      /\ updateCount \in 0 .. MaxUpdates
      /\ ops \in Seq(OpNames) /\ Len(ops) <= OpQueueSize
      /\ connParams \in Params /\ currentConnParams \in Params
  BY DEF TypeOK, Events0, EventTypes, OpNames

\* The numbers that the assumptions speak of.
LEMMA Constants ==
    /\ Preferred \in Params
    /\ Preferred.min \in Uint16 /\ Preferred.max \in Uint16
    /\ MaxUpdates \in Nat \ {0} /\ OpQueueSize \in Nat \ {0, 1}
    /\ MaxEvents \in Nat \ {0, 1}
    /\ Intervals \subseteq Uint16
  BY PreferredAssumption, MaxUpdatesAssumption, OpQueueSizeAssumption,
     MaxEventsAssumption, IntervalsAssumption DEF Params

\* The values at main() have their types.
LEMMA ColdTypes ==
    /\ Preferred.max \in Uint16 /\ Preferred \in Params
    /\ <<>> \in Seq(Events0) /\ Len(<<>>) <= MaxEvents
    /\ <<>> \in Seq(OpNames) /\ Len(<<>>) <= OpQueueSize
    /\ 0 \in 0 .. MaxUpdates
    /\ FALSE \in BOOLEAN
  <1>1. Len(<<>>) = 0
    OBVIOUS
  <1> QED  BY <1>1, Constants

LEMMA InitType == Init => TypeOK
  BY ColdTypes, TypeParts, Zenon DEF Init

\* A reset, or system-off, leaves a state of the right type.
LEMMA PowerDownType ==
    ASSUME NEW why \in {"asleep", "reset"}, PowerDown(why)
    PROVE  TypeOK'
  <1>1. power' \in {"on", "asleep", "reset"} /\ link' \in {"off", "advertising", "up", "closing"}
    BY DEF PowerDown
  <1> QED  BY <1>1, ColdTypes, Zenon DEF PowerDown, TypeOK, Events0, EventTypes, OpNames

\* An event that is posted has a place in the queue.
LEMMA PostType ==
    ASSUME TypeOK, CanPost, NEW e \in Events0, Post(e)
    PROVE  evq' \in Seq(Events0) /\ Len(evq') <= MaxEvents
  <1>1. evq \in Seq(Events0)
    BY TypeParts
  <1>2. Len(evq') = Len(evq) + 1 /\ evq' \in Seq(Events0) /\ Len(evq) \in Nat
    BY <1>1, AppendFacts DEF Post
  <1> QED  BY <1>2, Constants DEF CanPost

\* Taking an event leaves queues of the right type and length.
LEMMA TakeType ==
    ASSUME TypeOK, NEW t, Take(t)
    PROVE  /\ Head(evq) \in Events0 /\ Head(evq) = evq[1] /\ evq[1].type = t
           /\ evq # <<>> /\ evq' = Tail(evq)
           /\ evq' \in Seq(Events0) /\ Len(evq') <= MaxEvents
           /\ ops' \in Seq(OpNames) /\ Len(ops') <= OpQueueSize
           /\ draining' \in BOOLEAN /\ Head(evq).interval \in Uint16
  <1>1. /\ evq \in Seq(Events0) /\ Len(evq) <= MaxEvents
        /\ ops \in Seq(OpNames) /\ Len(ops) <= OpQueueSize
    BY TypeParts
  <1>2. evq # <<>> /\ Head(evq).type = t /\ evq' = Tail(evq)
        /\ Fits(Head(evq)) /\ draining' = TRUE
        /\ ops' = ops \o Operations(Head(evq))
    BY DEF Take, Ready
  <1>3. /\ Head(evq) = evq[1] /\ evq[1] \in Events0
        /\ Tail(evq) \in Seq(Events0) /\ Len(Tail(evq)) = Len(evq) - 1
        /\ Len(evq) \in Nat
    BY <1>1, <1>2, TailFacts
  <1>4. Len(evq') <= MaxEvents
    BY <1>1, <1>2, <1>3, Constants
  <1>5. Operations(Head(evq)) \in Seq(OpNames)
    BY <1>3, OperationsFacts
  <1>6. ops' \in Seq(OpNames) /\ Len(ops') = Len(ops) + Len(Operations(Head(evq)))
    BY <1>1, <1>2, <1>5, ConcatProperties
  <1>7. Len(ops') <= OpQueueSize
    BY <1>2, <1>6 DEF Fits
  <1>8. Head(evq).interval \in Uint16
    BY <1>3 DEF Events0
  <1> QED  BY <1>2, <1>3, <1>4, <1>6, <1>7, <1>8

\* A value in milliseconds is stored without overflow.
LEMMA UnitsType == \A ms \in Uint16 : Units(ms) \in Uint16
  <1> DEFINE top == 65535
  <1>1. Uint16 = 0 .. top /\ top \in Nat
    BY DEF Uint16
  <1> HIDE DEF top
  <1> TAKE ms \in Uint16
  <1>2. ms \in Nat /\ ms <= top
    BY <1>1
  <1> DEFINE units == (ms * 1000) \div 1250
  <1>3. units \in Nat /\ units <= ms
    BY <1>2, SMT
  <1>4. Units(ms) = units
    BY DEF Units
  <1> HIDE DEF units
  <1>5. units \in 0 .. top
    BY <1>1, <1>2, <1>3
  <1> QED  BY <1>1, <1>4, <1>5

\* The inputs of SET_PARAM name a parameter and a value.
LEMMA InputFacts ==
    ASSUME NEW input \in SetInputs
    PROVE  /\ input.field \in {"min", "max", "latency", "timeout"}
           /\ input.value \in Uint16
  BY SetInputsAssumption, PreferredAssumption DEF Params

\* One parameter is replaced.
LEMMA ParamsExcept ==
    ASSUME NEW p \in Params, NEW v \in Uint16,
           NEW f \in {"min", "max", "latency", "timeout"}
    PROVE  /\ [p EXCEPT ![f] = v] \in Params
           /\ [p EXCEPT ![f] = v][f] = v
           /\ \A g \in {"min", "max", "latency", "timeout"} \ {f} :
                 [p EXCEPT ![f] = v][g] = p[g]
  BY DEF Params

\* What the SoftDevice and the central do keeps the types.
LEMMA CentralType ==
    ASSUME TypeOK, Central
    PROVE  TypeOK'
  <1>t. interval \in Uint16
    BY TypeParts
  <1>1. CASE PeerConnects
    <2>1. interval' \in Uint16
      BY <1>1, Constants DEF PeerConnects
    <2>2. evq' \in Seq(Events0) /\ Len(evq') <= MaxEvents
      BY <1>1, <2>1, PostType, EventFacts DEF PeerConnects, EventTypes
    <2> QED
      BY <1>1, <2>1, <2>2, Zenon
      DEF PeerConnects, TypeOK, Events0, EventTypes, OpNames, module, info
  <1>2. CASE AdvertisingTimeout
    <2>1. evq' \in Seq(Events0) /\ Len(evq') <= MaxEvents
      BY <1>2, <1>t, PostType, EventFacts DEF AdvertisingTimeout, EventTypes
    <2> QED
      BY <1>2, <2>1, Zenon
      DEF AdvertisingTimeout, TypeOK, Events0, EventTypes, OpNames, module, info
  <1>3. ASSUME NEW from, LinkEnds(from)
        PROVE  TypeOK'
    <2>1. evq' \in Seq(Events0) /\ Len(evq') <= MaxEvents
      BY <1>3, <1>t, PostType, EventFacts DEF LinkEnds, EventTypes
    <2> QED
      BY <1>3, <2>1, Zenon
      DEF LinkEnds, TypeOK, Events0, EventTypes, OpNames, module, info
  <1>4. CASE CentralAnswers
    <2>1. interval' \in Uint16
      BY <1>4, <1>t, Constants DEF CentralAnswers
    <2>2. evq' \in Seq(Events0) /\ Len(evq') <= MaxEvents
      BY <1>4, <2>1, PostType, EventFacts DEF CentralAnswers, EventTypes
    <2> QED
      BY <1>4, <2>1, <2>2, Zenon
      DEF CentralAnswers, TypeOK, Events0, EventTypes, OpNames, module, info
  <1>5. CASE CentralUpdates
    <2>1. interval' \in Uint16
      BY <1>5, Constants DEF CentralUpdates
    <2>2. Len(evq) \in Nat /\ CanPost
      BY <1>5, TypeParts, LenProperties, Constants DEF CentralUpdates, CanPost
    <2>3. evq' \in Seq(Events0) /\ Len(evq') <= MaxEvents
      BY <1>5, <2>1, <2>2, PostType, EventFacts DEF CentralUpdates, EventTypes
    <2> QED
      BY <1>5, <2>1, <2>3, Zenon
      DEF CentralUpdates, TypeOK, Events0, EventTypes, OpNames, module, info
  <1> QED
    BY <1>1, <1>2, <1>3, <1>4, <1>5 DEF Central, LinkLost, LinkCloses

\* Handling an event keeps the types.
LEMMA EventsType ==
    ASSUME TypeOK, Events
    PROVE  TypeOK'
  <1>1. CASE DispatchConnected
    <2>1. /\ evq' \in Seq(Events0) /\ Len(evq') <= MaxEvents
          /\ ops' \in Seq(OpNames) /\ Len(ops') <= OpQueueSize
          /\ draining' \in BOOLEAN /\ current' \in Uint16
      BY <1>1, TakeType DEF DispatchConnected
    <2>2. updateCount' \in 0 .. MaxUpdates /\ connHandle' \in BOOLEAN
      BY <1>1, Constants DEF DispatchConnected
    <2> QED
      BY <1>1, <2>1, <2>2, Zenon
      DEF DispatchConnected, TypeOK, Events0, EventTypes, OpNames, info
  <1>2. CASE DispatchDisconnected
    <2>1. /\ evq' \in Seq(Events0) /\ Len(evq') <= MaxEvents
          /\ ops' \in Seq(OpNames) /\ Len(ops') <= OpQueueSize
          /\ draining' \in BOOLEAN
      BY <1>2, TakeType DEF DispatchDisconnected
    <2>2. /\ updateCount' \in 0 .. MaxUpdates
          /\ connHandle' \in BOOLEAN /\ timer' \in BOOLEAN
          /\ link' \in {"off", "advertising", "up", "closing"}
      BY <1>2, ColdTypes, Zenon DEF DispatchDisconnected
    <2>3. /\ power' = power /\ interval' = interval /\ current' = current
          /\ procedure' = procedure
          /\ connParams' = connParams /\ currentConnParams' = currentConnParams
      BY <1>2, Zenon DEF DispatchDisconnected, info
    <2> QED
      BY <2>1, <2>2, <2>3, Zenon DEF TypeOK, Events0, EventTypes, OpNames
  <1>3. CASE DispatchUpdate
    <2>1. /\ evq' \in Seq(Events0) /\ Len(evq') <= MaxEvents
          /\ ops' \in Seq(OpNames) /\ Len(ops') <= OpQueueSize
          /\ draining' \in BOOLEAN /\ current' \in Uint16
      BY <1>3, TakeType DEF DispatchUpdate
    <2> QED
      BY <1>3, <2>1, Zenon
      DEF DispatchUpdate, TypeOK, Events0, EventTypes, OpNames, info
  <1>4. CASE DispatchAdvTimeout
    BY <1>4, PowerDownType DEF DispatchAdvTimeout
  <1>5. CASE TimerQueueFull
    BY <1>5, PowerDownType DEF TimerQueueFull
  <1>6. CASE EventsEnd
    BY <1>6, Zenon DEF EventsEnd, TypeOK, module, info
  <1> QED
    BY <1>1, <1>2, <1>3, <1>4, <1>5, <1>6 DEF Events

\* Closing the link keeps the types of all but the timer and the attempts.
LEMMA DisconnectType ==
    ASSUME TypeOK, NEW tolerated \in BOOLEAN, Disconnect(tolerated),
           updateCount' \in 0 .. MaxUpdates, timer' \in BOOLEAN
    PROVE  TypeOK'
  <1>1. CASE link = "up" /\ link' = "closing" /\ procedure' = None
             /\ UNCHANGED <<power, interval, evq, draining, connHandle, current,
                            ops, info>>
    BY <1>1, Zenon DEF TypeOK, info
  <1>2. CASE UNCHANGED <<power, sd, connHandle, current, ops, info>>
    BY <1>2, Zenon DEF TypeOK, sd, info
  <1>3. CASE PowerDown("reset")
    BY <1>3, PowerDownType
  <1> QED
    BY <1>1, <1>2, <1>3, Zenon DEF Disconnect

\* The interrupts of the timer keep the types; attempts stay within their limit.
LEMMA TimersType ==
    ASSUME TypeOK, TimerListUpdate \/ UpdateTimeout
    PROVE  TypeOK'
  <1>t. updateCount \in 0 .. MaxUpdates /\ timer \in BOOLEAN
    BY TypeParts
  <1>1. CASE TimerListUpdate
    <2>1. timer' \in BOOLEAN
      BY <1>1, <1>t, Zenon DEF TimerListUpdate
    <2> QED
      BY <1>1, <2>1, ColdTypes, Zenon
      DEF TimerListUpdate, TypeOK, OpNames, sd, info
  <1>2. CASE UpdateTimeoutLate
    BY <1>2, Zenon DEF UpdateTimeoutLate, TypeOK, sd, info
  <1>3. CASE UpdateTimeoutAsks
    <2>1. CASE PowerDown("reset")
      BY <2>1, PowerDownType
    <2>2. CASE ~PowerDown("reset")
      <3>1. /\ timer' \in BOOLEAN
            /\ updateCount' \in 0 .. MaxUpdates
            /\ procedure' \in Uint16 \X Uint16
        <4>1. /\ timer' = FALSE /\ updateCount' = updateCount + 1
              /\ procedure' = <<Preferred.min, Preferred.max>>
              /\ updateCount < MaxUpdates
          BY <1>3, <2>2, Zenon DEF UpdateTimeoutAsks
        <4>2. updateCount' \in 0 .. MaxUpdates
          BY <4>1, <1>t, Constants
        <4>3. <<Preferred.min, Preferred.max>> \in Uint16 \X Uint16
          BY Constants
        <4> QED  BY <4>1, <4>2, <4>3, ColdTypes, Zenon
      <3> QED
        BY <1>3, <2>2, <3>1, Zenon DEF UpdateTimeoutAsks, TypeOK, info
    <2> QED  BY <2>1, <2>2
  <1>4. CASE UpdateTimeoutGivesUp
    <2>1. updateCount' \in 0 .. MaxUpdates /\ timer' \in BOOLEAN
      BY <1>4, ColdTypes DEF UpdateTimeoutGivesUp
    <2> QED  BY <1>4, <2>1, DisconnectType DEF UpdateTimeoutGivesUp
  <1> QED  BY <1>1, <1>2, <1>3, <1>4 DEF UpdateTimeout

\* The peer's commands keep the types.
LEMMA CommandsType ==
    ASSUME TypeOK, Commands
    PROVE  TypeOK'
  <1>1. CASE GetParams
    BY <1>1, ColdTypes, Zenon DEF GetParams, TypeOK, sd, module
  <1>2. ASSUME NEW input \in SetInputs, SetParam(input)
        PROVE  TypeOK'
    <2>1. Units(input.value) \in Uint16
          /\ input.field \in {"min", "max", "latency", "timeout"}
      BY InputFacts, UnitsType
    <2>2. connParams \in Params /\ currentConnParams \in Params
      BY TypeParts
    <2>3. connParams' \in Params
      BY <1>2, <2>1, <2>2, ParamsExcept DEF SetParam
    <2>4. currentConnParams' \in Params
      <3>1. currentConnParams' \in {currentConnParams,
                [currentConnParams EXCEPT ![input.field] = Units(input.value)]}
        BY <1>2, Zenon DEF SetParam
      <3>2. [currentConnParams EXCEPT ![input.field] = Units(input.value)] \in Params
        BY <2>1, <2>2, ParamsExcept
      <3> QED  BY <3>1, <3>2, <2>2, Zenon
    <2>5. connParams'.min \in Uint16 /\ connParams'.max \in Uint16
      BY <2>3 DEF Params
    <2>6. procedure' = None \/ procedure' \in Uint16 \X Uint16
      <3>1. procedure = None \/ procedure \in Uint16 \X Uint16
        BY TypeParts
      <3>2. <<connParams'.min, connParams'.max>> \in Uint16 \X Uint16
        BY <2>5
      <3>3. procedure' \in {procedure, <<connParams'.min, connParams'.max>>}
        BY <1>2, Zenon DEF SetParam
      <3> QED  BY <3>1, <3>2, <3>3, Zenon
    <2> QED
      BY <1>2, <2>3, <2>4, <2>6, Zenon DEF SetParam, TypeOK, module
  <1> QED  BY <1>1, <1>2 DEF Commands

\* Each step keeps the types.
LEMMA NextType == TypeOK /\ [Next]_vars => TypeOK'
  <1> SUFFICES ASSUME TypeOK, [Next]_vars PROVE TypeOK'
    OBVIOUS
  <1>1. CASE Boot
    BY <1>1, Zenon DEF Boot, TypeOK, module, info
  <1>2. CASE ButtonDisconnect
    <2>1. CASE power' = "on"
      BY <1>2, <2>1, TypeParts, DisconnectType DEF ButtonDisconnect
    <2>2. CASE power' # "on"
      <3>1. PowerDown("reset")
        BY <1>2, <2>2, Zenon DEF ButtonDisconnect, Disconnect, TypeOK
      <3> QED  BY <3>1, PowerDownType
    <2> QED  BY <2>1, <2>2
  <1>3. CASE ButtonSleep
    BY <1>3, PowerDownType DEF ButtonSleep
  <1>4. CASE UNCHANGED vars
    BY <1>4, Zenon DEF vars, TypeOK, sd, module, info
  <1> QED
    BY <1>1, <1>2, <1>3, <1>4, CentralType, EventsType, TimersType, CommandsType
    DEF Next

\* Every variable keeps its type for all constants: neither queue exceeds its
\* size, no more attempts are counted than configured, and a parameter always
\* fits its 16 bits.
THEOREM TypeCorrect == Spec => []TypeOK
  BY InitType, NextType, PTL DEF Spec

-----------------------------------------------------------------------------
(* The order of events.                                                    *)

\* The inductive invariant: what the program knows and the events that wait
\* add up to what the SoftDevice has done.
IInv == TypeOK /\ EventsInOrder /\ CaughtUp

\* It holds on a device that is off, whatever it was doing.
LEMMA PowerDownOrder ==
    ASSUME NEW why \in {"asleep", "reset"}, PowerDown(why)
    PROVE  EventsInOrder' /\ CaughtUp'
  <1>1. /\ evq' = <<>> /\ link' = "off" /\ connHandle' = FALSE
        /\ power' # "on"
    BY DEF PowerDown
  <1>2. Len(evq') = 0
    BY <1>1
  <1> QED  BY <1>1, <1>2 DEF EventsInOrder, CaughtUp

\* It speaks of these variables only.
LEMMA QuietOrder ==
    ASSUME EventsInOrder, CaughtUp,
           UNCHANGED <<power, link, interval, evq, connHandle, current>>
    PROVE  EventsInOrder' /\ CaughtUp'
  BY DEF EventsInOrder, CaughtUp, Linked

\* A disconnection that is asked for leaves the order alone.
LEMMA DisconnectOrder ==
    ASSUME EventsInOrder, CaughtUp, NEW tolerated \in BOOLEAN, Disconnect(tolerated)
    PROVE  EventsInOrder' /\ CaughtUp'
  <1>1. CASE link = "up" /\ link' = "closing"
             /\ UNCHANGED <<power, interval, evq, connHandle, current>>
    BY <1>1 DEF EventsInOrder, CaughtUp, Linked
  <1>2. CASE UNCHANGED <<power, sd, connHandle, current>>
    BY <1>2, QuietOrder DEF sd
  <1>3. CASE PowerDown("reset")
    BY <1>3, PowerDownOrder
  <1> QED  BY <1>1, <1>2, <1>3, Zenon DEF Disconnect

\* While the device advertises, it has seen every event and has no connection.
LEMMA WhenAdvertising ==
    ASSUME IInv, link = "advertising"
    PROVE  power = "on" /\ evq = <<>> /\ ~connHandle
  <1>1. power = "on"
    BY DEF IInv, EventsInOrder
  <1>2. evq = <<>>
    BY DEF IInv, EventsInOrder, Linked
  <1>3. ~connHandle
    BY <1>1, <1>2 DEF IInv, CaughtUp, Linked
  <1> QED  BY <1>1, <1>2, <1>3

\* While there is a link, the program knows of the connection or the event
\* that tells it is waiting.
LEMMA WhenLinked ==
    ASSUME IInv, Linked
    PROVE  /\ power = "on"
           /\ evq = <<>> => connHandle
           /\ evq # <<>> => evq[Len(evq)].type \in {"connected", "update"}
  <1>1. power = "on"
    BY DEF IInv, EventsInOrder, Linked
  <1>2. evq = <<>> => connHandle
    BY <1>1 DEF IInv, CaughtUp, Linked
  <1>3. evq # <<>> => evq[Len(evq)].type \in {"connected", "update"}
    BY DEF IInv, EventsInOrder, Linked
  <1> QED  BY <1>1, <1>2, <1>3

\* An event of a standing link comes behind the ones that wait.
LEMMA PostOrder ==
    ASSUME IInv, Linked, NEW t \in {"update", "disconnected"}, NEW n \in Uint16,
           Post(Event(t, n)), UNCHANGED <<power, connHandle>>,
           interval' = n, t = "update" => Linked', t = "disconnected" => link' = "off"
    PROVE  EventsInOrder' /\ CaughtUp'
  <1> DEFINE e == Event(t, n)
             k == Len(evq)
  <1>e. e \in Events0 /\ e.type = t /\ e.interval = n
    BY EventFacts DEF EventTypes
  <1>q. evq \in Seq(Events0)
    BY TypeParts DEF IInv
  <1>a. /\ evq' = Append(evq, e) /\ Len(evq') = k + 1 /\ k \in Nat
        /\ \A i \in 1 .. k : evq'[i] = evq[i]
        /\ evq'[k + 1] = e /\ evq' # <<>>
    BY <1>e, <1>q, AppendFacts DEF Post
  <1>z. evq # <<>> <=> k > 0
    BY <1>q, <1>a, EmptySeq
  <1>w. /\ power = "on"
        /\ evq = <<>> => connHandle
        /\ evq # <<>> => evq[k].type \in {"connected", "update"}
    BY WhenLinked
  <1> HIDE DEF e, k
  <1>1. ASSUME NEW i \in 1 .. Len(evq') - 1
        PROVE  /\ evq'[i].type \in {"connected", "update"}
               /\ evq'[i + 1].type \in {"update", "disconnected"}
    <2>0. i \in 1 .. k
      BY <1>1, <1>a
    <2>1. CASE i = k
      BY <2>0, <2>1, <1>a, <1>e, <1>z, <1>w
    <2>2. CASE i < k
      <3>1. i \in 1 .. Len(evq) - 1 /\ i + 1 \in 1 .. k
        BY <2>0, <2>2, <1>a DEF k
      <3>2. /\ evq[i].type \in {"connected", "update"}
            /\ evq[i + 1].type \in {"update", "disconnected"}
        BY <3>1 DEF IInv, EventsInOrder
      <3> QED  BY <2>0, <3>1, <3>2, <1>a
    <2> QED  BY <2>0, <2>1, <2>2, <1>a
  <1>2. evq'[1].type \in IF connHandle' THEN {"update", "disconnected"}
                          ELSE {"connected", "adv_timeout"}
    <2>1. CASE evq = <<>>
      BY <2>1, <1>a, <1>e, <1>z, <1>w
    <2>2. CASE evq # <<>>
      <3>1. evq'[1] = evq[1]
        BY <2>2, <1>a, <1>z
      <3> QED  BY <2>2, <3>1 DEF IInv, EventsInOrder
    <2> QED  BY <2>1, <2>2
  <1>3. LET last == evq'[Len(evq')] IN
        IF last.type \in {"connected", "update"}
        THEN Linked' /\ last.interval = interval' ELSE link' = "off"
    BY <1>a, <1>e
  <1>4. power' = "on"
    BY <1>w
  <1>5. EventsInOrder'
    BY <1>1, <1>2, <1>3, <1>4 DEF EventsInOrder
  <1>6. CaughtUp'
    BY <1>a DEF CaughtUp
  <1> QED  BY <1>5, <1>6

\* The SoftDevice and the central keep the order.
LEMMA CentralOrder ==
    ASSUME IInv, Central
    PROVE  EventsInOrder' /\ CaughtUp'
  <1>t. interval \in Uint16 /\ Intervals \subseteq Uint16
    BY TypeParts, Constants DEF IInv
  <1>f. ASSUME NEW t \in {"connected", "adv_timeout"}, NEW n \in Uint16,
               link = "advertising", Post(Event(t, n)),
               UNCHANGED <<power, connHandle>>, interval' = n,
               t = "connected" => link' = "up", t = "adv_timeout" => link' = "off"
        PROVE  EventsInOrder' /\ CaughtUp'
    <2>1. power = "on" /\ evq = <<>> /\ ~connHandle
      BY <1>f, WhenAdvertising
    <2>2. Event(t, n).type = t /\ Event(t, n).interval = n
      BY EventFacts DEF EventTypes
    <2>3. evq' = <<Event(t, n)>> /\ Len(evq') = 1 /\ evq'[1] = Event(t, n) /\ evq' # <<>>
      BY <1>f, <2>1 DEF Post
    <2> QED  BY <1>f, <2>1, <2>2, <2>3 DEF EventsInOrder, CaughtUp, Linked
  <1>1. CASE PeerConnects
    BY <1>1, <1>t, <1>f DEF PeerConnects
  <1>2. CASE AdvertisingTimeout
    BY <1>2, <1>t, <1>f DEF AdvertisingTimeout
  <1>3. ASSUME NEW from \in {"up", "closing"}, LinkEnds(from)
        PROVE  EventsInOrder' /\ CaughtUp'
    BY <1>3, <1>t, PostOrder DEF LinkEnds, Linked
  <1>4. CASE CentralAnswers
    BY <1>4, <1>t, PostOrder DEF CentralAnswers, Linked
  <1>5. CASE CentralUpdates
    BY <1>5, <1>t, PostOrder DEF CentralUpdates, Linked
  <1> QED
    BY <1>1, <1>2, <1>3, <1>4, <1>5 DEF Central, LinkLost, LinkCloses

\* What the order says of the event that is taken, and of those behind it.
LEMMA TakeOrder ==
    ASSUME IInv, NEW t \in EventTypes, Take(t)
    PROVE  /\ power = "on" /\ Head(evq) = evq[1] /\ evq[1].type = t
           /\ t \in IF connHandle THEN {"update", "disconnected"}
                     ELSE {"connected", "adv_timeout"}
           /\ \A i \in 1 .. Len(evq') - 1 :
                 /\ evq'[i].type \in {"connected", "update"}
                 /\ evq'[i + 1].type \in {"update", "disconnected"}
           /\ evq' # <<>> =>
                 /\ t \in {"connected", "update"}
                 /\ evq'[1].type \in {"update", "disconnected"}
                 /\ evq'[Len(evq')] = evq[Len(evq)]
           /\ evq' = <<>> => evq[Len(evq)] = Head(evq)
           /\ LET last == evq[Len(evq)] IN
              IF last.type \in {"connected", "update"}
              THEN Linked /\ last.interval = interval ELSE link = "off"
  <1>q. evq \in Seq(Events0)
    BY TypeParts DEF IInv
  <1>t. evq # <<>> /\ evq' = Tail(evq) /\ Head(evq) = evq[1] /\ evq[1].type = t
    BY TakeType DEF IInv
  <1>a. /\ evq' \in Seq(Events0) /\ Len(evq') = Len(evq) - 1
        /\ Len(evq) \in Nat \ {0}
        /\ \A i \in 1 .. Len(evq) - 1 : evq'[i] = evq[i + 1]
    BY <1>q, <1>t, TailFacts
  <1>z. evq' = <<>> <=> Len(evq) = 1
    BY <1>a, EmptySeq
  <1>1. power = "on"
    BY <1>t DEF IInv, EventsInOrder
  <1>2. t \in IF connHandle THEN {"update", "disconnected"}
              ELSE {"connected", "adv_timeout"}
    BY <1>t DEF IInv, EventsInOrder
  <1>3. \A i \in 1 .. Len(evq) - 1 :
            /\ evq[i].type \in {"connected", "update"}
            /\ evq[i + 1].type \in {"update", "disconnected"}
    BY DEF IInv, EventsInOrder
  <1>4. ASSUME NEW i \in 1 .. Len(evq') - 1
        PROVE  /\ evq'[i].type \in {"connected", "update"}
               /\ evq'[i + 1].type \in {"update", "disconnected"}
    <2>1. /\ i \in 1 .. Len(evq) - 1 /\ i + 1 \in 1 .. Len(evq) - 1
          /\ evq'[i] = evq[i + 1] /\ evq'[i + 1] = evq[(i + 1) + 1]
      BY <1>4, <1>a
    <2> QED  BY <2>1, <1>3
  <1>5. ASSUME evq' # <<>>
        PROVE  /\ t \in {"connected", "update"}
               /\ evq'[1].type \in {"update", "disconnected"}
               /\ evq'[Len(evq')] = evq[Len(evq)]
    <2>1. 1 \in 1 .. Len(evq) - 1 /\ Len(evq') \in 1 .. Len(evq) - 1
      BY <1>5, <1>a, <1>z
    <2>2. evq'[1] = evq[1 + 1] /\ evq'[Len(evq')] = evq[Len(evq)]
      BY <2>1, <1>a
    <2> QED  BY <2>1, <2>2, <1>3, <1>t
  <1>6. LET last == evq[Len(evq)] IN
        IF last.type \in {"connected", "update"}
        THEN Linked /\ last.interval = interval ELSE link = "off"
    BY <1>t DEF IInv, EventsInOrder
  <1> QED
    BY <1>t, <1>z, <1>1, <1>2, <1>4, <1>5, <1>6

\* Handling an event keeps the order: the handles follow the link.
LEMMA EventsOrder ==
    ASSUME IInv, Events
    PROVE  EventsInOrder' /\ CaughtUp'
  <1>1. CASE DispatchConnected
    <2>1. Take("connected") /\ "connected" \in EventTypes
      BY <1>1 DEF DispatchConnected, EventTypes
    <2>2. /\ connHandle' = TRUE /\ current' = Head(evq).interval
          /\ UNCHANGED <<power, link, interval>>
      BY <1>1 DEF DispatchConnected
    <2> QED
      BY <2>1, <2>2, TakeOrder DEF EventsInOrder, CaughtUp, Linked
  <1>2. CASE DispatchDisconnected
    <2>1. Take("disconnected") /\ "disconnected" \in EventTypes
      BY <1>2 DEF DispatchDisconnected, EventTypes
    <2>2. connHandle' = FALSE /\ link' = "advertising" /\ power' = power
      BY <1>2 DEF DispatchDisconnected
    <2>3. evq' = <<>> /\ power = "on"
      BY <2>1, TakeOrder
    <2>4. Len(evq') = 0
      BY <2>3
    <2> QED
      BY <2>2, <2>3, <2>4 DEF EventsInOrder, CaughtUp
  <1>3. CASE DispatchUpdate
    <2>1. Take("update") /\ "update" \in EventTypes
      BY <1>3 DEF DispatchUpdate, EventTypes
    <2>2. /\ current' = Head(evq).interval
          /\ UNCHANGED <<power, link, interval, connHandle>>
      BY <1>3 DEF DispatchUpdate
    <2> QED
      BY <2>1, <2>2, TakeOrder DEF EventsInOrder, CaughtUp, Linked
  <1>4. CASE DispatchAdvTimeout
    BY <1>4, PowerDownOrder DEF DispatchAdvTimeout
  <1>5. CASE TimerQueueFull
    BY <1>5, PowerDownOrder DEF TimerQueueFull
  <1>6. CASE EventsEnd
    BY <1>6, QuietOrder DEF EventsEnd, IInv, module
  <1> QED
    BY <1>1, <1>2, <1>3, <1>4, <1>5, <1>6 DEF Events

\* Each step keeps the order.
LEMMA NextOrder == IInv /\ [Next]_vars => EventsInOrder' /\ CaughtUp'
  <1> SUFFICES ASSUME IInv, [Next]_vars PROVE EventsInOrder' /\ CaughtUp'
    OBVIOUS
  <1>i. EventsInOrder /\ CaughtUp
    BY DEF IInv
  <1>1. CASE Boot
    <2>1. evq = <<>> /\ ~connHandle
      BY <1>1, <1>i DEF Boot, EventsInOrder
    <2>2. /\ evq' = <<>> /\ ~connHandle' /\ Len(evq') = 0
          /\ power' = "on" /\ link' = "advertising"
      BY <1>1, <2>1 DEF Boot
    <2> QED  BY <2>2 DEF EventsInOrder, CaughtUp
  <1>2. CASE TimerListUpdate
    BY <1>2, <1>i, QuietOrder DEF TimerListUpdate, sd
  <1>3. CASE UpdateTimeoutLate
    BY <1>3, <1>i, QuietOrder DEF UpdateTimeoutLate, sd
  <1>4. CASE UpdateTimeoutAsks
    <2>1. \/ UNCHANGED <<power, link, interval, evq, connHandle, current>>
          \/ PowerDown("reset")
      BY <1>4, Zenon DEF UpdateTimeoutAsks
    <2> QED  BY <2>1, <1>i, QuietOrder, PowerDownOrder
  <1>5. CASE UpdateTimeoutGivesUp
    BY <1>5, <1>i, DisconnectOrder DEF UpdateTimeoutGivesUp
  <1>6. CASE Commands
    <2>1. UNCHANGED <<power, link, interval, evq, connHandle, current>>
      BY <1>6, Zenon DEF Commands, GetParams, SetParam, sd, module
    <2> QED  BY <2>1, <1>i, QuietOrder
  <1>7. CASE ButtonDisconnect
    BY <1>7, <1>i, DisconnectOrder DEF ButtonDisconnect
  <1>8. CASE ButtonSleep
    BY <1>8, PowerDownOrder DEF ButtonSleep
  <1>9. CASE UNCHANGED vars
    BY <1>9, <1>i, QuietOrder DEF vars, sd, module
  <1> QED
    BY <1>1, <1>2, <1>3, <1>4, <1>5, <1>6, <1>7, <1>8, <1>9, CentralOrder, EventsOrder
    DEF Next, UpdateTimeout

\* The invariant holds in every reachable state.
LEMMA Invariant == Spec => []IInv
  <1>1. Init => IInv
    <2>1. ASSUME Init PROVE EventsInOrder /\ CaughtUp
      <3>1. evq = <<>> /\ Len(<<>>) = 0 /\ power = "reset" /\ ~connHandle /\ link = "off"
        BY <2>1 DEF Init
      <3> QED  BY <3>1 DEF EventsInOrder, CaughtUp
    <2> QED  BY <2>1, InitType DEF IInv
  <1>2. IInv /\ [Next]_vars => IInv'
    BY NextType, NextOrder DEF IInv
  <1> QED  BY <1>1, <1>2, PTL DEF Spec

\* Events are dispatched in the order of one connection after the other, and
\* the last one that waits tells the state of the link.
THEOREM OrderCorrect == Spec => []EventsInOrder
  <1>1. IInv => EventsInOrder
    BY DEF IInv
  <1> QED  BY <1>1, Invariant, PTL

\* A program that has handled every event knows exactly whether it is
\* connected, and at which interval; without a connection it advertises.
THEOREM CaughtUpCorrect == Spec => []CaughtUp
  <1>1. IInv => CaughtUp
    BY DEF IInv
  <1> QED  BY <1>1, Invariant, PTL

-----------------------------------------------------------------------------
(* Resets and reports.                                                     *)

\* A disconnection of a standing link does not reset the device.
LEMMA DisconnectOn ==
    ASSUME link = "up", NEW tolerated \in BOOLEAN, Disconnect(tolerated)
    PROVE  power' = power
  BY Zenon DEF Disconnect

\* A device that has dispatched every event of a standing link, and has no
\* request under way, survives every timeout, button and command of the peer.
THEOREM NoResetWithoutRace == Spec => ResetNeedsRace
  <1>1. ASSUME IInv, Next, link = "up", evq = <<>>, procedure = None
        PROVE  power' # "reset"
    <2>p. power = "on" /\ power # "reset"
      BY <1>1, WhenLinked DEF Linked
    <2>1. CASE Boot
      BY <2>1, <2>p DEF Boot
    <2>2. CASE Events
      <3>1. ASSUME NEW t, Ready(t) PROVE FALSE
        BY <1>1, <3>1 DEF Ready
      <3>2. EventsEnd
        BY <1>1, <2>2, <3>1, Zenon
        DEF Events, DispatchConnected, DispatchDisconnected, DispatchUpdate,
            DispatchAdvTimeout, Take, TimerQueueFull
      <3> QED  BY <2>p, <3>2 DEF EventsEnd
    <2>3. CASE TimerListUpdate \/ UpdateTimeoutLate
      BY <2>3, <2>p, Zenon DEF TimerListUpdate, UpdateTimeoutLate
    <2>4. CASE UpdateTimeoutAsks
      <3>1. UpdateResult(Preferred) = "success"
        BY <1>1, PreferredValidAssumption DEF UpdateResult
      <3> QED  BY <2>4, <2>p, <3>1, Zenon DEF UpdateTimeoutAsks
    <2>5. CASE UpdateTimeoutGivesUp
      BY <1>1, <2>5, <2>p, DisconnectOn DEF UpdateTimeoutGivesUp
    <2>6. CASE ButtonDisconnect
      BY <1>1, <2>6, <2>p, DisconnectOn DEF ButtonDisconnect
    <2>7. CASE ButtonSleep
      BY <2>7 DEF ButtonSleep, PowerDown
    <2>8. CASE Commands
      BY <2>8, <2>p, Zenon DEF Commands, GetParams, SetParam
    <2>9. CASE Central
      BY <2>9, <2>p, Zenon
      DEF Central, PeerConnects, AdvertisingTimeout, LinkLost, LinkCloses, LinkEnds,
          CentralAnswers, CentralUpdates
    <2> QED
      BY <1>1, <2>1, <2>2, <2>3, <2>4, <2>5, <2>6, <2>7, <2>8, <2>9
      DEF Next, UpdateTimeout
  <1>2. ASSUME IInv, [Next]_vars
        PROVE  [link = "up" /\ evq = <<>> /\ procedure = None => power' # "reset"]_vars
    BY <1>1, <1>2, Zenon
  <1> QED  BY <1>2, Invariant, PTL DEF Spec, ResetNeedsRace

\* The limits of the SoftDevice hold for a set of parameters.
Legal(p) ==
    /\ {p.min, p.max} \subseteq 6 .. 3200
    /\ p.latency <= 499
    /\ p.timeout \in 10 .. 3200

\* One field of an accepted set replaces that of another legal set.
LEMMA LegalExcept ==
    ASSUME NEW p \in Params, NEW q \in Params, NEW v \in Uint16,
           NEW f \in {"min", "max", "latency", "timeout"},
           Valid([q EXCEPT ![f] = v]), Legal(p)
    PROVE  Legal([p EXCEPT ![f] = v])
  <1>1. CASE f = "min"
    BY <1>1 DEF Valid, Legal, Params
  <1>2. CASE f = "max"
    BY <1>2 DEF Valid, Legal, Params
  <1>3. CASE f = "latency"
    BY <1>3 DEF Valid, Legal, Params
  <1>4. CASE f = "timeout"
    BY <1>4 DEF Valid, Legal, Params
  <1> QED  BY <1>1, <1>2, <1>3, <1>4

\* Over any sequence of accepted and refused commands, and over resets,
\* GET_PARAMS reports values within the limits of the SoftDevice.
THEOREM ReportedLegalCorrect == Spec => []ReportedLegal
  <1>0. ReportedLegal <=> Legal(currentConnParams)
    BY DEF ReportedLegal, Legal
  <1>p. Legal(Preferred)
    BY PreferredValidAssumption DEF Valid, Legal
  <1>1. Init => ReportedLegal
    BY <1>0, <1>p, Zenon DEF Init
  <1>2. ASSUME TypeOK, ReportedLegal, [Next]_vars
        PROVE  ReportedLegal'
    <2>0. ReportedLegal' <=> Legal(currentConnParams')
      BY DEF ReportedLegal, Legal
    <2>k. ASSUME currentConnParams' = currentConnParams PROVE ReportedLegal'
      BY <1>2, <2>k DEF ReportedLegal
    <2>d. ASSUME NEW why, PowerDown(why) PROVE ReportedLegal'
      <3>1. currentConnParams' = Preferred
        BY <2>d, Zenon DEF PowerDown
      <3> QED  BY <3>1, <2>0, <1>p, Zenon
    <2>1. ASSUME NEW input \in SetInputs, SetParam(input)
          PROVE  ReportedLegal'
      <3>1. CASE currentConnParams' = currentConnParams
        BY <3>1, <2>k
      <3>2. CASE currentConnParams' # currentConnParams
        <4>1. /\ UpdateResult(connParams') = "success"
              /\ connParams' = [connParams EXCEPT ![input.field] = Units(input.value)]
              /\ currentConnParams' =
                     [currentConnParams EXCEPT ![input.field] = Units(input.value)]
          BY <2>1, <3>2, Zenon DEF SetParam
        <4>2. Valid(connParams')
          BY <4>1 DEF UpdateResult
        <4>3. Units(input.value) \in Uint16
              /\ input.field \in {"min", "max", "latency", "timeout"}
          BY InputFacts, UnitsType
        <4>4. /\ connParams \in Params /\ currentConnParams \in Params
              /\ Legal(currentConnParams)
          BY <1>2, <1>0, TypeParts
        <4> QED  BY <2>0, <4>1, <4>2, <4>3, <4>4, LegalExcept
      <3> QED  BY <3>1, <3>2
    <2>2. ASSUME NEW tolerated \in BOOLEAN, Disconnect(tolerated)
          PROVE  ReportedLegal'
      <3>1. currentConnParams' = currentConnParams \/ PowerDown("reset")
        BY <2>2, Zenon DEF Disconnect, info
      <3> QED  BY <3>1, <2>k, <2>d
    <2>3. CASE Boot
      BY <2>3, <2>k DEF Boot, info
    <2>4. CASE Events
      <3>1. currentConnParams' = currentConnParams \/ \E why : PowerDown(why)
        BY <2>4, Zenon
        DEF Events, DispatchConnected, DispatchDisconnected, DispatchUpdate,
            DispatchAdvTimeout, TimerQueueFull, EventsEnd, info
      <3> QED  BY <3>1, <2>k, <2>d
    <2>5. CASE TimerListUpdate \/ UpdateTimeoutLate \/ GetParams
      BY <2>5, <2>k DEF TimerListUpdate, UpdateTimeoutLate, GetParams, info
    <2>6. CASE UpdateTimeoutAsks
      <3>1. currentConnParams' = currentConnParams \/ PowerDown("reset")
        BY <2>6, Zenon DEF UpdateTimeoutAsks, info
      <3> QED  BY <3>1, <2>k, <2>d
    <2>7. CASE UpdateTimeoutGivesUp \/ ButtonDisconnect
      BY <2>7, <2>2 DEF UpdateTimeoutGivesUp, ButtonDisconnect
    <2>8. CASE ButtonSleep
      BY <2>8, <2>d DEF ButtonSleep
    <2>9. CASE Central \/ UNCHANGED vars
      <3>1. currentConnParams' = currentConnParams
        BY <2>9, Zenon
        DEF Central, PeerConnects, AdvertisingTimeout, LinkLost, LinkCloses, LinkEnds,
            CentralAnswers, CentralUpdates, vars, info
      <3> QED  BY <3>1, <2>k
    <2> QED
      BY <1>2, <2>1, <2>3, <2>4, <2>5, <2>6, <2>7, <2>8, <2>9
      DEF Next, UpdateTimeout, Commands
  <1> QED  BY <1>1, <1>2, TypeCorrect, PTL DEF Spec

-----------------------------------------------------------------------------
(* The requests of a connection.                                           *)

\* The connection has been given up; its end is on the way.
GaveUp == link # "up" /\ attempts = MaxUpdates /\ updateCount = 0

\* What ble_conn_params counts is what it has sent on this connection.
AttemptsCounted ==
    /\ ~connHandle => attempts = 0 /\ updateCount = 0
    /\ attempts = updateCount \/ GaveUp

\* The two counts are those of a device that has just started.
LEMMA PowerDownCounted ==
    ASSUME NEW why, PowerDown(why), History
    PROVE  AttemptsCounted'
  BY DEF PowerDown, History, AttemptsCounted

\* A request is counted in both places.
LEMMA AskedCounted ==
    ASSUME TypeOK, AttemptsCounted, Asked, History
    PROVE  AttemptsCounted' /\ attempts' = updateCount'
  <1>1. PowerDown("reset") => power' = "reset"
    BY Zenon DEF PowerDown
  <1>2. /\ UpdateResult(Preferred) = "success" /\ connHandle
        /\ updateCount' = updateCount + 1 /\ UNCHANGED <<link, connHandle>>
    BY <1>1, Zenon DEF Asked, UpdateTimeoutAsks
  <1>3. link = "up"
    BY <1>2 DEF UpdateResult
  <1>4. attempts = updateCount /\ attempts' = attempts + 1
    BY <1>2, <1>3 DEF AttemptsCounted, GaveUp, History
  <1> QED  BY <1>2, <1>4 DEF AttemptsCounted

\* A step that leaves the connection and the count of the module alone.
LEMMA QuietCounted ==
    ASSUME AttemptsCounted, ~Asked, History, UNCHANGED <<connHandle, updateCount>>,
           link' = link \/ link' # "up"
    PROVE  AttemptsCounted'
  BY DEF AttemptsCounted, GaveUp, History

\* Giving up sets the count of the module back while the connection stands.
LEMMA GivesUpCounted ==
    ASSUME TypeOK, AttemptsCounted, UpdateTimeoutGivesUp, History
    PROVE  AttemptsCounted' /\ attempts = MaxUpdates
  <1>1. updateCount = MaxUpdates /\ MaxUpdates > 0 /\ connHandle
    BY Constants, TypeParts DEF UpdateTimeoutGivesUp
  <1>2. attempts = MaxUpdates
    BY <1>1 DEF AttemptsCounted, GaveUp
  <1>3. ~Asked
    <2>1. Asked => updateCount < MaxUpdates
      BY Zenon DEF Asked, UpdateTimeoutAsks
    <2> QED  BY <1>1, <2>1, Constants
  <1>4. CASE PowerDown("reset")
    BY <1>2, <1>4, PowerDownCounted
  <1>5. CASE link' = "closing" /\ UNCHANGED connHandle
    <2>1. attempts' = MaxUpdates
      BY <1>1, <1>2, <1>3, <1>5 DEF History
    <2>2. updateCount' = 0
      BY Zenon DEF UpdateTimeoutGivesUp
    <2> QED  BY <1>1, <1>2, <1>5, <2>1, <2>2 DEF AttemptsCounted, GaveUp
  <1>6. Disconnect(FALSE) => PowerDown("reset") \/ (link' = "closing" /\ UNCHANGED connHandle)
    BY DEF Disconnect
  <1> QED  BY <1>2, <1>4, <1>5, <1>6 DEF UpdateTimeoutGivesUp

\* The count starts anew with each connection, and with its end.
LEMMA EventsCounted ==
    ASSUME IInv, AttemptsCounted, ~Asked, Events, History
    PROVE  AttemptsCounted'
  <1>1. CASE DispatchConnected
    <2>1. ~connHandle
      BY <1>1 DEF DispatchConnected, Take, Ready, IInv, EventsInOrder
    <2> QED  BY <1>1, <2>1 DEF DispatchConnected, History, AttemptsCounted
  <1>2. CASE DispatchDisconnected
    BY <1>2 DEF DispatchDisconnected, History, AttemptsCounted
  <1>3. CASE DispatchUpdate \/ EventsEnd
    BY <1>3, QuietCounted DEF DispatchUpdate, EventsEnd, module
  <1>4. CASE DispatchAdvTimeout \/ TimerQueueFull
    BY <1>4, PowerDownCounted DEF DispatchAdvTimeout, TimerQueueFull
  <1> QED  BY <1>1, <1>2, <1>3, <1>4 DEF Events

\* A link begins only when the last connection has been counted out.
LEMMA CentralCounted ==
    ASSUME IInv, AttemptsCounted, ~Asked, Central, History
    PROVE  AttemptsCounted'
  <1>1. CASE PeerConnects
    <2>1. ~connHandle /\ UNCHANGED <<connHandle, updateCount>>
      BY <1>1, WhenAdvertising DEF PeerConnects, module
    <2> QED  BY <2>1, MaxUpdatesAssumption DEF AttemptsCounted, GaveUp, History
  <1>2. CASE Central /\ ~PeerConnects
    <2>1. UNCHANGED <<connHandle, updateCount>> /\ (link' = link \/ link' # "up")
      BY <1>2 DEF Central, AdvertisingTimeout, LinkLost, LinkCloses, LinkEnds,
         CentralAnswers, CentralUpdates, module
    <2> QED  BY <2>1, QuietCounted
  <1> QED  BY <1>1, <1>2

\* Each step keeps the two counts together.
LEMMA NextCounted ==
    ASSUME IInv, AttemptsCounted, HistoryNext
    PROVE  AttemptsCounted'
  <1>h. TypeOK /\ History /\ Next
    BY DEF IInv, HistoryNext
  <1>1. CASE Asked
    BY <1>h, <1>1, AskedCounted
  <1>2. CASE ~Asked
    <2>1. CASE Boot
      <3>1. ~connHandle /\ UNCHANGED <<connHandle, updateCount>>
        BY <2>1 DEF Boot, IInv, EventsInOrder, module
      <3> QED  BY <1>h, <3>1, MaxUpdatesAssumption DEF AttemptsCounted, GaveUp, History
    <2>2. CASE Events
      BY <1>h, <1>2, <2>2, EventsCounted
    <2>3. CASE TimerListUpdate \/ UpdateTimeoutLate \/ Commands
      <3>1. UNCHANGED <<link, connHandle, updateCount>>
        BY <2>3, Zenon DEF TimerListUpdate, UpdateTimeoutLate, Commands, GetParams,
           SetParam, sd, module
      <3> QED  BY <1>h, <1>2, <3>1, QuietCounted
    <2>4. CASE UpdateTimeoutAsks
      <3>1. power' # "on"
        BY <1>2, <2>4 DEF Asked
      <3>2. PowerDown("reset")
        <4>1. power = "on"
          BY <2>4 DEF UpdateTimeoutAsks, IInv, EventsInOrder
        <4> QED  BY <2>4, <3>1, <4>1, Zenon DEF UpdateTimeoutAsks
      <3> QED  BY <1>h, <3>2, PowerDownCounted
    <2>5. CASE UpdateTimeoutGivesUp
      BY <1>h, <2>5, GivesUpCounted
    <2>6. CASE ButtonDisconnect
      <3>1. \/ PowerDown("reset")
            \/ power' = "on" /\ UNCHANGED connHandle /\ (link' = link \/ link' # "up")
        BY <2>6 DEF ButtonDisconnect, Disconnect, sd
      <3>2. power' = "on" => UNCHANGED updateCount
        BY <2>6 DEF ButtonDisconnect
      <3> QED  BY <1>h, <1>2, <3>1, <3>2, PowerDownCounted, QuietCounted
    <2>7. CASE ButtonSleep
      BY <1>h, <2>7, PowerDownCounted DEF ButtonSleep
    <2>8. CASE Central
      BY <1>h, <1>2, <2>8, CentralCounted
    <2> QED
      BY <1>h, <2>1, <2>2, <2>3, <2>4, <2>5, <2>6, <2>7, <2>8 DEF Next, UpdateTimeout
  <1> QED  BY <1>1, <1>2

\* The same invariant in the module with the history: nothing of Connection
\* depends on it.
LEMMA HistoryInvariant == HistorySpec => [](IInv /\ AttemptsCounted)
  <1>1. HistorySpec => Spec
    <2>1. [HistoryNext]_historyVars => [Next]_vars
      BY DEF HistoryNext, historyVars
    <2> QED  BY <2>1, PTL DEF HistorySpec, HistoryInit, Spec
  <1>2. HistoryInit => AttemptsCounted
    BY DEF HistoryInit, Init, AttemptsCounted
  <1>3. IInv /\ AttemptsCounted /\ [HistoryNext]_historyVars => AttemptsCounted'
    <2>1. AttemptsCounted /\ UNCHANGED historyVars => AttemptsCounted'
      BY DEF historyVars, vars, sd, module, AttemptsCounted, GaveUp
    <2> QED  BY <2>1, NextCounted
  <1> QED  BY <1>1, <1>2, <1>3, Invariant, PTL DEF HistorySpec

\* For every number of attempts, ble_conn_params closes a connection only after
\* just so many requests on it, and never sends one more: neither the count
\* of an earlier connection nor a timer that still runs from one adds to it.
THEOREM GivesUpCorrect == HistorySpec => GivesUpAfterAll
  <1>1. ASSUME IInv, AttemptsCounted, HistoryNext
        PROVE  /\ UpdateTimeoutGivesUp => attempts = MaxUpdates
               /\ attempts' <= MaxUpdates
    <2>1. UpdateTimeoutGivesUp => attempts = MaxUpdates
      BY <1>1, GivesUpCounted DEF IInv, HistoryNext
    <2>2. AttemptsCounted' /\ TypeOK'
      BY <1>1, NextCounted, NextType DEF HistoryNext, IInv
    <2>3. attempts' <= MaxUpdates
      <3>1. updateCount' \in 0 .. MaxUpdates
        BY <2>2, Zenon DEF TypeOK
      <3> QED  BY <2>2, <3>1, Constants DEF AttemptsCounted, GaveUp
    <2> QED  BY <2>1, <2>3
  <1>2. IInv /\ AttemptsCounted /\ [HistoryNext]_historyVars
        => [/\ UpdateTimeoutGivesUp => attempts = MaxUpdates
            /\ attempts' <= MaxUpdates]_historyVars
    BY <1>1, Zenon
  <1> QED  BY <1>2, HistoryInvariant, PTL DEF HistorySpec, GivesUpAfterAll
=============================================================================
