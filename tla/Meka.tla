-------------------------------- MODULE Meka --------------------------------
(***************************************************************************)
(* The trading bot: the loop of Meka::start, the AccountManager calls it   *)
(* makes (placeTrade, monitorTrade), the candle queue it shares with the   *)
(* Aggregator thread, and the exchange at the other end of CoinbaseAPI.    *)
(*                                                                         *)
(* The bot is one thread.  It takes a closed candle off candleData and     *)
(* asks the strategy for an intent; on a signal it creates an order that   *)
(* expires after 60 seconds, sleeps 70 seconds and asks for the status of  *)
(* the order; if the answer says it has a position it polls every 30       *)
(* seconds until the exit is filled, then resets the strategy and empties  *)
(* the queue.  Everything else happens around it: candles close, orders    *)
(* fill and expire, exits fill, requests fail and take the process down,   *)
(* and the operator starts the program again.                              *)
(*                                                                         *)
(* Time passes in ticks of TickSeconds.  Code between two waits takes no   *)
(* time.  Prices, sizes and the direction of a trade are left out.         *)
(***************************************************************************)
EXTENDS Naturals, Sequences

CONSTANTS
    OrderIds,    \* order ids of the exchange
    NoOrder,     \* the empty string: no order
    Status,      \* what getOrder answers for an order at each of its stages
    LagTicks,    \* how late, in ticks, the exchange may expire an order
    MaxBacklog   \* bound: candles waiting in candleData

\* The stages of an order at the exchange.  "working": the entry is in the
\* book; "held": it filled and the position is open under its bracket;
\* "closed": the bracket filled and the position is gone.
Stages == {"none", "working", "held", "closed", "expired", "cancelled"}
Live == {"working", "held"}
Finished == Stages \ Live
Statuses == {"OPEN", "FILLED", "EXPIRED", "CANCELLED", ""}

ASSUME MekaAssumption ==
    /\ NoOrder \notin OrderIds
    /\ Status \in [Stages -> Statuses]
    /\ LagTicks \in Nat
    /\ MaxBacklog \in Nat \ {0}

VARIABLES
    \* the program
    pc,          \* where the bot thread is
    inTrade,     \* Meka::inTrade
    order_id,    \* order_id of Meka::start, and of placeTrade while it runs
    timer,       \* ticks left of the sleep the bot is in
    candleData,  \* the queue of closed candles, each tagged by its age
    \* the world around it
    orders,      \* the stage of every order at the exchange
    left,        \* ticks until a working order is expired at the latest
    candleDue,   \* whether another candle may close before the next tick
    \* history
    mine,        \* the orders the running process placed
    lost         \* those of them for which it got an answer it could not read

botVars == <<pc, inTrade, order_id, timer>>
worldVars == <<orders, left, candleDue>>
history == <<mine, lost>>
vars == <<botVars, candleData, worldVars, history>>

PCs == {"loop", "create", "waitFill", "pollSleep", "clear", "terminated"}

\* A candle is "stale" once the bot has seen an exit filled after it closed.
CandleTags == {"fresh", "stale"}

-----------------------------------------------------------------------------
\* Durations.

TickSeconds == 5

\* createOrder asks the exchange to expire the entry after 60 seconds.
ExpiryTicks == 60 \div TickSeconds

\* Faulty variant of WaitTicks: the status is read 50 seconds after ordering.
WaitTicksTooShort == 50 \div TickSeconds

\* placeTrade reads the status 70 seconds after ordering.
WaitTicks == 70 \div TickSeconds

\* Faulty variant of PollTicks: minutes are taken for seconds.
PollTicksInMinutes == (30 * 60) \div TickSeconds

\* monitorTrade asks again every 30 seconds.
PollTicks == 30 \div TickSeconds

MaxTicks == ExpiryTicks + LagTicks

-----------------------------------------------------------------------------
\* Start of the program.

Init ==
    /\ pc = "loop"
    /\ inTrade = FALSE
    /\ order_id = NoOrder
    /\ timer = 0
    /\ candleData = <<>>
    /\ orders = [o \in OrderIds |-> "none"]
    /\ left = [o \in OrderIds |-> 0]
    /\ candleDue = TRUE
    /\ mine = {}
    /\ lost = {}

-----------------------------------------------------------------------------
\* The bot thread.

\* Take a candle and ask the strategy, which may or may not signal a trade.
PopCandle ==
    /\ pc = "loop" /\ ~inTrade
    /\ candleData # <<>>
    /\ candleData' = Tail(candleData)
    /\ pc' \in {"loop", "create"}
    /\ UNCHANGED <<inTrade, order_id, timer, worldVars, history>>

\* An order reaches the exchange and starts working.
Accept(o) ==
    /\ orders[o] \in Finished
    /\ orders' = [orders EXCEPT ![o] = "working"]
    /\ left' = [left EXCEPT ![o] = MaxTicks]

\* placeTrade up to its sleep: createOrder returns the id of the order, or
\* the empty string when the answer holds none, which is what it holds when
\* the order was turned down, and may hold although it was taken.
CreateOrder ==
    /\ pc = "create"
    /\ \/ \E o \in OrderIds :
            /\ Accept(o)
            /\ mine' = mine \cup {o}
            /\ \/ order_id' = o /\ lost' = lost \ {o}
               \/ order_id' = NoOrder /\ lost' = lost \cup {o}
       \/ /\ order_id' = NoOrder
          /\ UNCHANGED <<orders, left, history>>
    /\ pc' = "waitFill"
    /\ timer' = WaitTicks
    /\ UNCHANGED <<inTrade, candleData, candleDue>>

\* Every way the process dies: nothing the program knew is kept.
Terminate ==
    /\ pc' = "terminated"
    /\ inTrade' = FALSE
    /\ order_id' = NoOrder
    /\ timer' = 0
    /\ candleData' = <<>>
    /\ mine' = {}
    /\ lost' = {}

\* The exchange takes the order, but the answer never arrives: perform()
\* throws, nothing catches it and the process ends.
CreateOrderResponseLost ==
    /\ pc = "create"
    /\ \E o \in OrderIds : Accept(o)
    /\ Terminate
    /\ UNCHANGED candleDue

\* The answer of getOrder; there is none for the empty id.
StatusOf(id) == IF id = NoOrder THEN "" ELSE Status[orders[id]]

\* Faulty variant of FillConfirmed: the status names are mixed up.
FillConfirmedByFilled(id) == StatusOf(id) = "FILLED"

\* What placeTrade takes for "the entry filled".
FillConfirmed(id) == StatusOf(id) = "OPEN"

\* Faulty variant of CheckFill: no result is returned for a rejected order.
CheckFillOnlyIfPlaced ==
    /\ pc = "waitFill" /\ timer = 0
    /\ order_id # NoOrder
    /\ order_id' = IF FillConfirmed(order_id) THEN order_id ELSE NoOrder
    /\ inTrade' = (order_id' # NoOrder)
    /\ pc' = "loop"
    /\ UNCHANGED <<timer, candleData, worldVars, history>>

\* The same when the answer of getOrder holds no status: the empty string.
CheckFillUnanswered ==
    /\ pc = "waitFill" /\ timer = 0
    /\ order_id # NoOrder
    /\ lost' = lost \cup {order_id}
    /\ order_id' = NoOrder
    /\ inTrade' = FALSE
    /\ pc' = "loop"
    /\ UNCHANGED <<timer, candleData, worldVars, mine>>

\* The sleep is over: placeTrade returns the id if the trade is on and the
\* empty string otherwise, and Meka::start sets inTrade from it.
CheckFill ==
    /\ pc = "waitFill" /\ timer = 0
    /\ order_id' = IF FillConfirmed(order_id) THEN order_id ELSE NoOrder
    /\ inTrade' = (order_id' # NoOrder)
    /\ pc' = "loop"
    /\ UNCHANGED <<timer, candleData, worldVars, history>>

\* Faulty variant of ExitFilled: any change of the status ends the trade.
ExitFilledUnlessOpen(id) == StatusOf(id) # "OPEN"

\* Faulty variant of ExitFilled: waits for a status a filled exit never has.
ExitFilledOnExpiry(id) == StatusOf(id) = "EXPIRED"

\* What monitorTrade waits for.
ExitFilled(id) == StatusOf(id) = "FILLED"

\* monitorTrade reads the status at once, and again after every sleep.
AtPoll ==
    /\ inTrade
    /\ pc = "loop" \/ (pc = "pollSleep" /\ timer = 0)

SleepAndPollAgain ==
    /\ pc' = "pollSleep"
    /\ timer' = PollTicks
    /\ UNCHANGED <<inTrade, candleData>>

\* When the exit is filled Meka::start clears inTrade and goes on to empty
\* the queue, whose candles all closed before this moment.
LeaveTrade ==
    /\ inTrade' = FALSE
    /\ pc' = "clear"
    /\ candleData' = [i \in DOMAIN candleData |-> "stale"]
    /\ UNCHANGED timer

PollTrade ==
    /\ AtPoll
    /\ \/ ExitFilled(order_id) /\ LeaveTrade
       \/ ~ExitFilled(order_id) /\ SleepAndPollAgain
    /\ UNCHANGED <<order_id, worldVars, history>>

\* The same when the answer of getOrder holds no status.
PollUnanswered ==
    /\ AtPoll
    /\ SleepAndPollAgain
    /\ UNCHANGED <<order_id, worldVars, history>>

\* Faulty variant of ClearQueue: one candle is taken off, not all of them.
ClearQueueOnce ==
    /\ pc = "clear"
    /\ pc' = "loop"
    /\ candleData' = IF candleData = <<>> THEN <<>> ELSE Tail(candleData)
    /\ UNCHANGED <<inTrade, order_id, timer, worldVars, history>>

\* clearData: one try_dequeue of its loop.  The Aggregator may push between
\* two of them; the loop ends when a try finds the queue empty.
ClearQueue ==
    /\ pc = "clear"
    /\ \/ /\ candleData # <<>>
          /\ candleData' = Tail(candleData)
          /\ UNCHANGED pc
       \/ /\ candleData = <<>>
          /\ pc' = "loop"
          /\ UNCHANGED candleData
    /\ UNCHANGED <<inTrade, order_id, timer, worldVars, history>>

\* A thread throws (a request, the socket or the parser) and nothing catches.
Crash ==
    /\ pc # "terminated"
    /\ Terminate
    /\ UNCHANGED worldVars

\* The operator starts the bot again: it asks the exchange for no orders.
Restart ==
    /\ pc = "terminated"
    /\ pc' = "loop"
    /\ UNCHANGED <<inTrade, order_id, timer, candleData, worldVars, history>>

-----------------------------------------------------------------------------
\* The Aggregator thread and the exchange.

\* The Aggregator pushes a candle that has just closed.
CloseCandle ==
    /\ pc # "terminated"
    /\ candleDue
    /\ Len(candleData) < MaxBacklog
    /\ candleData' = Append(candleData, "fresh")
    /\ candleDue' = FALSE
    /\ UNCHANGED <<botVars, orders, left, history>>

\* An order moves from one stage to another; only a working one has a deadline.
Move(o, from, to) ==
    /\ orders[o] = from
    /\ orders' = [orders EXCEPT ![o] = to]
    /\ left' = [left EXCEPT ![o] = 0]
    /\ UNCHANGED <<botVars, candleData, candleDue, history>>

FillEntry(o) == Move(o, "working", "held")

\* End of the entry's time in force, at most LagTicks late.
Expire(o) ==
    /\ left[o] <= LagTicks
    /\ Move(o, "working", "expired")

FillExit(o) == Move(o, "held", "closed")

\* The order is cancelled, or its position closed, outside the program.
Cancel(o) == \E stage \in Live : Move(o, stage, "cancelled")

\* Time passes: not while the bot is emptying the queue, and not beyond the
\* last moment at which the exchange expires an order.
Tick ==
    /\ pc # "clear"
    /\ \A o \in OrderIds : orders[o] = "working" => left[o] > 0
    /\ timer' = IF timer > 0 THEN timer - 1 ELSE 0
    /\ left' = [o \in OrderIds |-> IF left[o] > 0 THEN left[o] - 1 ELSE 0]
    /\ candleDue' = TRUE
    /\ UNCHANGED <<pc, inTrade, order_id, candleData, orders, history>>

-----------------------------------------------------------------------------
Bot ==
    \/ PopCandle
    \/ CreateOrder
    \/ CheckFill \/ CheckFillUnanswered
    \/ PollTrade \/ PollUnanswered
    \/ ClearQueue

Exchange ==
    \E o \in OrderIds : FillEntry(o) \/ Expire(o) \/ FillExit(o) \/ Cancel(o)

Next ==
    \/ Bot
    \/ CreateOrderResponseLost
    \/ Crash
    \/ Restart
    \/ CloseCandle
    \/ Exchange
    \/ Tick

\* The bot thread is scheduled, time passes, the exchange honours the
\* end_time of an order, and a status asked for again and again is answered
\* at last.  Nothing obliges an entry or an exit to fill, a candle to close
\* or the process to die or be started again.
Fairness ==
    /\ WF_vars(Bot)
    /\ WF_vars(Tick)
    /\ SF_vars(PollTrade)
    /\ \A o \in OrderIds : WF_vars(Expire(o))

Spec == Init /\ [][Next]_vars

FairSpec == Spec /\ Fairness

-----------------------------------------------------------------------------
(***************************************************************************)
(* The reading of an order's status on which the code relies: placeTrade   *)
(* takes "OPEN" for a trade that is on, and monitorTrade takes "FILLED"    *)
(* for a trade whose exit has filled.                                      *)
(***************************************************************************)
BracketReading ==
    /\ Status["working"] = "OPEN"
    /\ Status["held"] = "OPEN"
    /\ \A s \in Stages : Status[s] = "FILLED" <=> s = "closed"

\* The order cannot be in the book any more when its status is read.
WaitOutlastsEntry == MaxTicks < WaitTicks

-----------------------------------------------------------------------------
\* Properties.

\* Every variable keeps its type, and the sleep and the deadlines their bounds.
TypeOK ==
    /\ pc \in PCs
    /\ inTrade \in BOOLEAN
    /\ order_id \in OrderIds \cup {NoOrder}
    /\ timer \in 0..WaitTicks
    /\ candleData \in Seq(CandleTags)
    /\ Len(candleData) <= MaxBacklog
    /\ orders \in [OrderIds -> Stages]
    /\ left \in [OrderIds -> 0..MaxTicks]
    /\ candleDue \in BOOLEAN
    /\ lost \subseteq mine
    /\ mine \subseteq OrderIds

\* An order of the running process that is still working or holds a position
\* is the one the bot is waiting for or monitoring: however the fills, exits,
\* cancellations and time-outs fall, placeTrade and monitorTrade never let go
\* of a live trade, so the loop never opens a second one beside it.  The one
\* exception is an order the bot was given an unreadable answer about.
NoOrphanedTrade ==
    \A o \in mine \ lost : orders[o] \in Live =>
        /\ o = order_id
        /\ pc = "waitFill" \/ inTrade

\* When placeTrade wakes and reads the status, the entry has left the book:
\* it cannot fill behind the back of a bot that has taken it for unfilled.
EntryDecidedAtCheck ==
    pc = "waitFill" /\ timer = 0 /\ order_id # NoOrder =>
        orders[order_id] # "working"

\* Whenever the loop of Meka::start may hand a candle to the strategy, no
\* candle in the queue closed before the last exit the bot saw, although the
\* Aggregator goes on pushing while the queue is being emptied.
NoStaleCandle ==
    pc = "loop" /\ ~inTrade =>
        \A i \in 1..Len(candleData) : candleData[i] = "fresh"

\* monitorTrade blocks until an exit order is filled: the bot leaves a trade
\* for no other reason, an exit that was cancelled included, unless it dies.
MonitorUntilExit ==
    [][inTrade /\ ~inTrade' /\ pc' # "terminated" => orders[order_id] = "closed"]_vars

\* The bot learns of every exit: a trade whose exit filled is left behind and
\* the loop is back to taking candles, unless the process dies first.
ExitNoticed ==
    (inTrade /\ orders[order_id] = "closed")
        ~> (pc = "loop" /\ ~inTrade) \/ pc = "terminated"

\* placeTrade always returns, whether the order was taken, turned down or
\* cancelled meanwhile, and whatever other orders do.
PlaceTradeReturns == pc = "create" ~> pc \in {"loop", "terminated"}

\* The trading loop implements one trade at a time (OneTrade.tla).
Phase ==
    IF pc = "create" THEN "signal"
    ELSE IF pc = "waitFill" \/ inTrade THEN "placed" ELSE "idle"

OpenOrders == {o \in mine \ lost : orders[o] \in Live}

Account == INSTANCE OneTrade WITH phase <- Phase, open <- OpenOrders

ImplementsOneTrade == Account!Spec

\* placeTrade "returns empty string if unsuccessful fill": an order whose
\* entry filled is not reported by an empty string, when its status is read.
EmptyOnlyIfUnfilled ==
    [][pc = "waitFill" /\ pc' = "loop" /\ order_id # NoOrder /\ order_id' = NoOrder
            /\ lost' = lost
        => orders[order_id] \notin {"held", "closed"}]_vars

\* The account is bound to one trade at a time.
OneTradeAtATime ==
    \A o1, o2 \in OrderIds :
        orders[o1] \in Live /\ orders[o2] \in Live => o1 = o2
=============================================================================
