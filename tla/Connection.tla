----------------------------- MODULE Connection -----------------------------
(***************************************************************************)
(* The life of a connection: advertising and sleep (ble_advertising.c,     *)
(* main.c), the negotiation of the connection interval (ble_conn_params.c, *)
(* main.c), and the commands SET_PARAM and GET_PARAMS (communication.c).   *)
(*                                                                         *)
(* SoftDevice events, timers and buttons run at one interrupt priority, so *)
(* each handler is one step.  The link and the central do not wait for     *)
(* them: what a handler believes may be out of date until the event has    *)
(* been dispatched.                                                        *)
(***************************************************************************)
EXTENDS Integers, Sequences, SequencesExt

CONSTANTS
    Preferred,    \* the parameters of def.h, which are also the PPCP
    MaxUpdates,   \* MAX_CONN_PARAMS_UPDATE_COUNT
    Intervals,    \* connection intervals the central may choose
    OpQueueSize,  \* APP_TIMER_OP_QUEUE_SIZE
    SetInputs,    \* field and attribute of the peer's SET_PARAM commands
    MaxEvents     \* bound: events waiting in the SoftDevice's queue

Uint16 == 0 .. 65535
Params == [min : Uint16, max : Uint16, latency : Uint16, timeout : Uint16]

ASSUME PreferredAssumption == Preferred \in Params
ASSUME MaxUpdatesAssumption == MaxUpdates \in Nat \ {0}
ASSUME IntervalsAssumption == Intervals \subseteq Uint16 /\ Intervals # {}
ASSUME SetInputsAssumption ==
    SetInputs \subseteq [field : DOMAIN Preferred, value : Uint16]
ASSUME OpQueueSizeAssumption == OpQueueSize \in Nat \ {0, 1}
ASSUME MaxEventsAssumption == MaxEvents \in Nat \ {0, 1}

VARIABLES
    power,        \* "on", "asleep" (system off) or "reset"
    \* SoftDevice
    link,         \* "off", "advertising", "up" or "closing"
    interval,     \* the interval of the link
    procedure,    \* <<min, max>> of the update request in progress, or <<>>
    evq,
    draining,     \* the SoftDevice interrupt takes events until none is left
    \* the connection handles of all modules, set by the same event
    connHandle,
    \* ble_conn_params.c: m_current_conn_params, m_update_count, the timer
    current, updateCount, timer,
    ops,          \* app_timer.c: operations the timer interrupt has yet to do
    \* m_info_t
    connParams, currentConnParams

sd == <<link, interval, procedure, evq, draining>>
module == <<current, updateCount, timer, ops>>
info == <<connParams, currentConnParams>>
vars == <<power, sd, connHandle, module, info>>

None == <<>>
Event(t, n) == [type |-> t, interval |-> n]
CanPost == Len(evq) < MaxEvents
Post(e) == evq' = Append(evq, e)

\* What the program finds when main() runs.
Init ==
    /\ power = "reset" /\ link = "off"
    /\ interval = Preferred.max /\ procedure = None
    /\ evq = <<>> /\ draining = FALSE
    /\ connHandle = FALSE
    /\ current = Preferred.max /\ updateCount = 0 /\ timer = FALSE /\ ops = <<>>
    /\ connParams = Preferred /\ currentConnParams = Preferred

\* System-off and a reset both lose everything; waking up is a reset.
PowerDown(why) ==
    /\ power' = why /\ link' = "off"
    /\ interval' = Preferred.max /\ procedure' = None
    /\ evq' = <<>> /\ draining' = FALSE
    /\ connHandle' = FALSE
    /\ current' = Preferred.max /\ updateCount' = 0 /\ timer' = FALSE /\ ops' = <<>>
    /\ connParams' = Preferred /\ currentConnParams' = Preferred

\* main: initialisation, then fast advertising.
Boot ==
    /\ power # "on"
    /\ power' = "on" /\ link' = "advertising"
    /\ UNCHANGED <<interval, procedure, evq, draining, connHandle, module, info>>

-----------------------------------------------------------------------------
(* The SoftDevice and the central.                                         *)

PeerConnects ==
    /\ link = "advertising" /\ CanPost
    /\ link' = "up" /\ interval' \in Intervals
    /\ Post(Event("connected", interval'))
    /\ UNCHANGED <<power, procedure, draining, connHandle, module, info>>

AdvertisingTimeout ==
    /\ link = "advertising" /\ CanPost
    /\ link' = "off"
    /\ Post(Event("adv_timeout", interval))
    /\ UNCHANGED <<power, interval, procedure, draining, connHandle, module, info>>

LinkEnds(from) ==
    /\ link = from /\ CanPost
    /\ link' = "off" /\ procedure' = None
    /\ Post(Event("disconnected", interval))
    /\ UNCHANGED <<power, interval, draining, connHandle, module, info>>

\* The link is lost, or the central closes it; or the program's
\* sd_ble_gap_disconnect is carried out.
LinkLost == LinkEnds("up")
LinkCloses == LinkEnds("closing")

\* The central grants a request or refuses it: an event comes in both cases.
CentralAnswers ==
    /\ link = "up" /\ procedure # None /\ CanPost
    /\ interval' \in {n \in Intervals : n \in procedure[1] .. procedure[2]}
                     \cup {interval}
    /\ procedure' = None
    /\ Post(Event("update", interval'))
    /\ UNCHANGED <<power, link, draining, connHandle, module, info>>

\* The central changes the interval by itself; one place in the queue stays
\* free for the events the program waits for.
CentralUpdates ==
    /\ link = "up" /\ Len(evq) + 1 < MaxEvents
    /\ interval' \in Intervals
    /\ Post(Event("update", interval'))
    /\ UNCHANGED <<power, link, procedure, draining, connHandle, module, info>>

\* The limits and the constraint of ble_gap_conn_params_t.
Valid(p) ==
    /\ {p.min, p.max} \subseteq 6 .. 3200 /\ p.min <= p.max
    /\ p.latency <= 499 /\ p.timeout \in 10 .. 3200
    /\ p.timeout * 4 > (1 + p.latency) * p.max

ASSUME PreferredValidAssumption == Valid(Preferred)

\* sd_ble_gap_conn_param_update
UpdateResult(p) ==
    IF link # "up" THEN "invalid_state"
    ELSE IF procedure # None THEN "busy"
    ELSE IF ~Valid(p) THEN "invalid_param" ELSE "success"

-----------------------------------------------------------------------------
(* app_timer.c: starting and stopping a timer only queues an operation.    *)

\* is_conn_params_ok
IntervalOk(n) == n >= Preferred.min /\ n <= Preferred.max

\* What the handler of an event queues: a negotiation that is needed starts
\* the update timer; a disconnection stops it, and advertising starts the
\* timer of the LED.
Operations(e) ==
    CASE e.type = "disconnected" -> <<"stop", "led">>
      [] e.type \in {"connected", "update"} /\ ~IntervalOk(e.interval) -> <<"start">>
      [] OTHER -> <<>>

Fits(e) == Len(ops) + Len(Operations(e)) <= OpQueueSize

\* timer_list_handler, an interrupt of its own: the deletions first, then the
\* insertions.  app_timer_stop has already marked the timer as not running, so
\* a start queued before the stop takes effect all the same.
TimerListUpdate ==
    /\ ~draining /\ ops # <<>>
    /\ ops' = <<>>
    /\ timer' = (timer \/ Contains(ops, "start"))
    /\ UNCHANGED <<power, sd, connHandle, current, updateCount, info>>

\* intern_softdevice_events_execute takes the next event and calls
\* ble_evt_dispatch.  It begins after the timer interrupt, which comes first.
Ready(type) ==
    /\ evq # <<>> /\ Head(evq).type = type
    /\ draining \/ ops = <<>>

Take(type) ==
    /\ Ready(type) /\ Fits(Head(evq))
    /\ evq' = Tail(evq) /\ draining' = TRUE
    /\ ops' = ops \o Operations(Head(evq))

EventsEnd ==
    /\ draining /\ evq = <<>>
    /\ draining' = FALSE
    /\ UNCHANGED <<power, link, interval, procedure, evq, connHandle, module, info>>

\* No room for an operation: NRF_ERROR_NO_MEM, which both the error handler of
\* ble_conn_params and APP_ERROR_CHECK answer with a reset.
TimerQueueFull ==
    /\ draining /\ evq # <<>> /\ ~Fits(Head(evq))
    /\ PowerDown("reset")

-----------------------------------------------------------------------------
(* ble_conn_params.c with on_conn_params_evt.                              *)

\* Faulty variant: advertising is not started again.
DisconnectedSilent ==
    /\ Take("disconnected")
    /\ connHandle' = FALSE /\ updateCount' = 0 /\ timer' = FALSE
    /\ UNCHANGED <<power, link, interval, procedure, current, info>>

\* Faulty variant: the handle of the old connection is kept.
DisconnectedKept ==
    /\ Take("disconnected")
    /\ updateCount' = 0 /\ timer' = FALSE
    /\ link' = "advertising"
    /\ UNCHANGED <<power, interval, procedure, connHandle, current, info>>

\* on_disconnect of all modules; advertising starts again.
DispatchDisconnected ==
    /\ Take("disconnected")
    /\ connHandle' = FALSE /\ updateCount' = 0 /\ timer' = FALSE
    /\ link' = "advertising"
    /\ UNCHANGED <<power, interval, procedure, current, info>>

\* on_connect of all modules
DispatchConnected ==
    /\ Take("connected")
    /\ connHandle' = TRUE
    /\ current' = Head(evq).interval
    /\ updateCount' = 0
    /\ UNCHANGED <<power, link, interval, procedure, timer, info>>

\* Faulty variant: the parameters of the event are not copied.
UpdateNotCopied ==
    /\ Take("update")
    /\ UNCHANGED <<power, link, interval, procedure, connHandle, current,
                   updateCount, timer, info>>

\* Faulty variant: only the first negotiation starts the timer.
UpdateNotRestarted ==
    /\ Ready("update")
    /\ evq' = Tail(evq) /\ draining' = TRUE
    /\ current' = Head(evq).interval
    /\ UNCHANGED <<power, link, interval, procedure, connHandle, updateCount,
                   timer, ops, info>>

\* on_conn_params_update: if the interval has become acceptable, the timer is
\* not stopped.
DispatchUpdate ==
    /\ Take("update")
    /\ current' = Head(evq).interval
    /\ UNCHANGED <<power, link, interval, procedure, connHandle, updateCount,
                   timer, info>>

\* Fast advertising has timed out, slow advertising is disabled: sleep.
DispatchAdvTimeout ==
    /\ Ready("adv_timeout")
    /\ PowerDown("asleep")

\* update_timeout_handler; after the disconnection it does nothing.
UpdateTimeoutLate ==
    /\ ~draining /\ timer /\ ~connHandle
    /\ timer' = FALSE
    /\ UNCHANGED <<power, sd, connHandle, current, updateCount, ops, info>>

\* Faulty variant: the number of attempts is not limited.
AsksForEver ==
    /\ ~draining /\ timer /\ connHandle /\ UpdateResult(Preferred) = "success"
    /\ timer' = FALSE
    /\ updateCount' = updateCount + 1
    /\ procedure' = <<Preferred.min, Preferred.max>>
    /\ UNCHANGED <<power, link, interval, evq, draining, connHandle, current,
                   ops, info>>

\* With attempts left it asks; any error resets the device.
UpdateTimeoutAsks ==
    /\ ~draining /\ timer /\ connHandle /\ updateCount < MaxUpdates
    /\ IF UpdateResult(Preferred) = "success"
       THEN /\ timer' = FALSE
            /\ updateCount' = updateCount + 1
            /\ procedure' = <<Preferred.min, Preferred.max>>
            /\ UNCHANGED <<power, link, interval, evq, draining, connHandle,
                           current, ops, info>>
       ELSE PowerDown("reset")

\* sd_ble_gap_disconnect, whose error, but for `tolerated', resets the device.
Disconnect(tolerated) ==
    CASE link = "up" ->
            /\ link' = "closing" /\ procedure' = None
            /\ UNCHANGED <<power, interval, evq, draining, connHandle, current,
                           ops, info>>
      [] link = "closing" /\ tolerated ->
            UNCHANGED <<power, sd, connHandle, current, ops, info>>
      [] OTHER -> PowerDown("reset")

\* Faulty variant: the last attempt is not made.
GivesUpEarly ==
    /\ ~draining /\ timer /\ connHandle /\ updateCount >= MaxUpdates - 1
    /\ Disconnect(FALSE)
    /\ timer' = FALSE /\ updateCount' = 0

\* With none left on_conn_params_evt closes the connection.
UpdateTimeoutGivesUp ==
    /\ ~draining /\ timer /\ connHandle /\ updateCount >= MaxUpdates
    /\ Disconnect(FALSE)
    /\ timer' = FALSE /\ updateCount' = 0

-----------------------------------------------------------------------------
(* The commands of the peer and the buttons.                               *)

\* The peer's write event is dispatched when the events before it have been.
WriteTaken == connHandle /\ (draining \/ ops = <<>>)

\* MSEC_TO_UNITS(value, UNIT_1_25_MS), for each of the four fields.
Units(ms) == (ms * 1000) \div 1250

\* Faulty variant: an error of the SoftDevice is checked like the others.
SetParamChecked(input) ==
    LET p == [connParams EXCEPT ![input.field] = Units(input.value)] IN
    /\ WriteTaken
    /\ \/ /\ UpdateResult(p) = "success"
          /\ connParams' = p
          /\ currentConnParams' =
                 [currentConnParams EXCEPT ![input.field] = Units(input.value)]
          /\ procedure' = <<p.min, p.max>>
          /\ UNCHANGED <<power, link, interval, evq, draining, connHandle, module>>
       \/ UpdateResult(p) # "success" /\ PowerDown("reset")

\* Faulty variant: the value is taken for current before it is accepted.
SetParamBelieved(input) ==
    /\ WriteTaken
    /\ connParams' = [connParams EXCEPT ![input.field] = Units(input.value)]
    /\ currentConnParams' =
           [currentConnParams EXCEPT ![input.field] = Units(input.value)]
    /\ procedure' = IF UpdateResult(connParams') = "success"
                    THEN <<connParams'.min, connParams'.max>> ELSE procedure
    /\ UNCHANGED <<power, link, interval, evq, draining, connHandle, module>>

\* SET_PARAM -modify field value: the value is stored before it is accepted.
SetParam(input) ==
    /\ WriteTaken
    /\ connParams' = [connParams EXCEPT ![input.field] = Units(input.value)]
    /\ IF UpdateResult(connParams') = "success"
       THEN /\ currentConnParams' =
                   [currentConnParams EXCEPT ![input.field] = Units(input.value)]
            /\ procedure' = <<connParams'.min, connParams'.max>>
       ELSE UNCHANGED <<currentConnParams, procedure>>
    /\ UNCHANGED <<power, link, interval, evq, draining, connHandle, module>>

\* GET_PARAMS reads the PPCP into conn_params, then reports current_conn_params.
GetParams ==
    /\ WriteTaken
    /\ connParams' = Preferred
    /\ UNCHANGED <<power, sd, connHandle, module, currentConnParams>>

\* BSP_EVENT_DISCONNECT: bsp_btn_ble.c assigns the button while connected.
ButtonDisconnect ==
    /\ power = "on" /\ ~draining /\ connHandle
    /\ Disconnect(TRUE)
    /\ power' = "on" => UNCHANGED <<updateCount, timer>>

\* BSP_EVENT_SLEEP, assigned while not connected.
ButtonSleep ==
    /\ power = "on" /\ ~draining /\ ~connHandle
    /\ PowerDown("asleep")

-----------------------------------------------------------------------------
Events ==
    \/ DispatchConnected \/ DispatchDisconnected
    \/ DispatchUpdate \/ DispatchAdvTimeout \/ TimerQueueFull \/ EventsEnd

UpdateTimeout == UpdateTimeoutLate \/ UpdateTimeoutAsks \/ UpdateTimeoutGivesUp

Central ==
    \/ PeerConnects \/ AdvertisingTimeout \/ LinkLost \/ LinkCloses
    \/ CentralAnswers \/ CentralUpdates

Commands == GetParams \/ \E input \in SetInputs : SetParam(input)

Next ==
    \/ Boot \/ Events \/ TimerListUpdate \/ UpdateTimeout
    \/ Central \/ Commands \/ ButtonDisconnect \/ ButtonSleep

Spec == Init /\ [][Next]_vars

\* Interrupts are served, the one of the timer before the next events; events
\* come slower than they are handled; the SoftDevice reports the result of
\* every request and carries out a disconnection.  The central's own updates,
\* commands, buttons and losses are not fair.
Fairness ==
    /\ WF_vars(Events) /\ WF_vars(TimerListUpdate) /\ SF_vars(UpdateTimeout)
    /\ WF_vars(CentralAnswers) /\ WF_vars(LinkCloses)
    /\ []<>~draining

-----------------------------------------------------------------------------
(* Properties.                                                             *)

TypeOK ==
    /\ power \in {"on", "asleep", "reset"}
    /\ link \in {"off", "advertising", "up", "closing"}
    /\ interval \in Uint16 /\ current \in Uint16
    /\ procedure = None \/ procedure \in Uint16 \X Uint16
    /\ evq \in Seq([type : {"connected", "disconnected", "update", "adv_timeout"},
                    interval : Uint16])
    /\ Len(evq) <= MaxEvents
    /\ draining \in BOOLEAN /\ connHandle \in BOOLEAN /\ timer \in BOOLEAN
    /\ updateCount \in 0 .. MaxUpdates
    /\ ops \in Seq({"start", "stop", "led"}) /\ Len(ops) <= OpQueueSize
    /\ connParams \in Params /\ currentConnParams \in Params

Linked == link \in {"up", "closing"}

\* What the SoftDevice has posted and the program has not yet seen: events
\* of one connection, in order, of which the last one tells the link's state;
\* a device that is off has posted none.
EventsInOrder ==
    /\ \A i \in 1 .. Len(evq) - 1 :
          /\ evq[i].type \in {"connected", "update"}
          /\ evq[i + 1].type \in {"update", "disconnected"}
    /\ evq # <<>> =>
          /\ evq[1].type \in IF connHandle THEN {"update", "disconnected"}
                              ELSE {"connected", "adv_timeout"}
          /\ LET last == evq[Len(evq)] IN
             IF last.type \in {"connected", "update"}
             THEN Linked /\ last.interval = interval ELSE link = "off"
    /\ power # "on" => evq = <<>> /\ ~connHandle /\ link = "off"

\* When no event waits, the modules know of a connection exactly if there is
\* one, and ble_conn_params knows its interval; without one the device
\* advertises.  However long a handler kept the events waiting, none of them is
\* applied to another connection.
CaughtUp ==
    power = "on" /\ evq = <<>> =>
        IF connHandle THEN Linked /\ current = interval ELSE link = "advertising"

\* A device that has dispatched every event of a standing link, and has no
\* request under way, is not reset by its connection, whatever the peer
\* commands: a value that the SoftDevice refuses in SET_PARAM is survived.
\* (Its serial line can still reset it at any time: see UartBridge.)
ResetNeedsRace ==
    [][link = "up" /\ evq = <<>> /\ procedure = None => power' # "reset"]_vars

\* GET_PARAMS never reports a value outside the limits of the SoftDevice: a
\* refused SET_PARAM stays in conn_params but not in current_conn_params, over
\* any sequence of accepted and refused commands.
ReportedLegal ==
    /\ {currentConnParams.min, currentConnParams.max} \subseteq 6 .. 3200
    /\ currentConnParams.latency <= 499
    /\ currentConnParams.timeout \in 10 .. 3200

\* A connection with an interval outside the preferred range is negotiated to
\* the end: the interval becomes acceptable or the connection ends, although
\* starts and stops of the timer overtake each other in its queue.
NegotiationEnds ==
    connHandle /\ ~IntervalOk(current) ~> ~connHandle \/ IntervalOk(current)

\* After a link has gone the device advertises again, unless it sleeps or
\* has been reset: it never stays on without being reachable.
StaysReachable == power = "on" /\ link = "off" ~> power # "on" \/ link = "advertising"
=============================================================================
