----------------------------- MODULE MekaProofs -----------------------------
(***************************************************************************)
(* Proofs about Meka.tla, for any set of order ids, any bound of the queue *)
(* and any lag of the exchange.                                            *)
(*                                                                         *)
(* Tracked says that the bot knows the order it is waiting for or          *)
(* monitoring; QueueFresh, that stale candles exist only while the queue   *)
(* is being emptied; DeadlineFirst, that the sleep of placeTrade outlasts  *)
(* the entry it waits for.  Each is inductive together with TypeOK.  Two   *)
(* facts about the exchange are assumed where they are needed, and only    *)
(* there: BracketReading and WaitOutlastsEntry.                            *)
(***************************************************************************)
EXTENDS Meka, TLAPS

\* The order the bot waits for or monitors is one it placed and was told of.
Tracked ==
    /\ (pc = "waitFill" /\ order_id # NoOrder) \/ inTrade => order_id \in mine \ lost
    /\ inTrade => pc \in {"loop", "pollSleep"}
    /\ pc = "pollSleep" => inTrade

\* Only a bot that is emptying the queue has stale candles in it.
QueueFresh ==
    pc # "clear" => \A i \in 1..Len(candleData) : candleData[i] = "fresh"

\* The exchange expires the entry before the bot wakes.
DeadlineFirst ==
    pc = "waitFill" /\ order_id # NoOrder /\ orders[order_id] = "working"
        => left[order_id] < timer

Base == TypeOK /\ Tracked /\ QueueFresh

\* TypeOK in four parts, for the provers.
BotType ==
    /\ pc \in PCs
    /\ order_id \in OrderIds \cup {NoOrder}
    /\ timer \in 0..WaitTicks
    /\ lost \subseteq mine
    /\ mine \subseteq OrderIds

FlagType == inTrade \in BOOLEAN /\ candleDue \in BOOLEAN

QueueType == candleData \in Seq(CandleTags) /\ Len(candleData) <= MaxBacklog

WorldType ==
    /\ orders \in [OrderIds -> Stages]
    /\ left \in [OrderIds -> 0..MaxTicks]

-----------------------------------------------------------------------------
\* The durations of the code, in ticks.
LEMMA Durations ==
    /\ ExpiryTicks = 12 /\ WaitTicks = 14 /\ PollTicks = 6
    /\ MaxTicks \in Nat
BY MekaAssumption DEF ExpiryTicks, WaitTicks, PollTicks, MaxTicks, TickSeconds, MekaAssumption

\* The parts are the whole.
LEMMA TypeParts == TypeOK <=> BotType /\ FlagType /\ QueueType /\ WorldType
BY DEF TypeOK, BotType, FlagType, QueueType, WorldType

\* The program starts in the invariant.
LEMMA InitBase == Init => Base
<1> SUFFICES ASSUME Init PROVE Base
  OBVIOUS
<1>1. BotType
  BY Durations DEF Init, BotType, PCs
<1>2. FlagType
  BY DEF Init, FlagType
<1>3. QueueType
  BY MekaAssumption DEF Init, QueueType, MekaAssumption
<1>4. WorldType
  BY Durations DEF Init, WorldType, Stages
<1>5. Tracked /\ QueueFresh
  BY DEF Init, Tracked, QueueFresh
<1> QED
  BY <1>1, <1>2, <1>3, <1>4, <1>5, TypeParts DEF Base

\* Every step keeps the types of the bot and of the history.
LEMMA StepBotType ==
    ASSUME BotType, Tracked, [Next]_vars
    PROVE  BotType'
<1> USE Durations
<1> USE DEF BotType, Tracked, PCs
<1>1. CASE PopCandle
  BY <1>1 DEF PopCandle, worldVars, history
<1>2. CASE CreateOrder
  BY <1>2 DEF CreateOrder, Accept, history
<1>3. CASE CheckFill
  BY <1>3 DEF CheckFill, worldVars, history
<1>4. CASE CheckFillUnanswered
  BY <1>4 DEF CheckFillUnanswered, worldVars
<1>5. CASE PollTrade
  <2>1. CASE LeaveTrade
    BY <1>5, <2>1 DEF PollTrade, LeaveTrade, worldVars, history
  <2>2. CASE SleepAndPollAgain
    BY <1>5, <2>2 DEF PollTrade, SleepAndPollAgain, worldVars, history
  <2> QED
    BY <1>5, <2>1, <2>2 DEF PollTrade
<1>6. CASE PollUnanswered
  BY <1>6 DEF PollUnanswered, AtPoll, SleepAndPollAgain, worldVars, history
<1>7. CASE ClearQueue
  BY <1>7 DEF ClearQueue, worldVars, history
<1>8. CASE CreateOrderResponseLost
  BY <1>8 DEF CreateOrderResponseLost, Accept, Terminate
<1>9. CASE Crash
  BY <1>9 DEF Crash, Terminate, worldVars
<1>10. CASE Restart
  BY <1>10 DEF Restart, worldVars, history
<1>11. CASE CloseCandle
  BY <1>11 DEF CloseCandle, botVars, history
<1>12. CASE Exchange
  BY <1>12 DEF Exchange, FillEntry, Expire, FillExit, Cancel, Move, botVars, history
<1>13. CASE Tick
  BY <1>13 DEF Tick, history
<1>14. CASE UNCHANGED vars
  BY <1>14 DEF vars, botVars, worldVars, history
<1> QED
  BY <1>1, <1>2, <1>3, <1>4, <1>5, <1>6, <1>7, <1>8,
     <1>9, <1>10, <1>11, <1>12, <1>13, <1>14 DEF Next, Bot

\* Every step keeps the flags Boolean.
LEMMA StepFlagType ==
    ASSUME FlagType, [Next]_vars
    PROVE  FlagType'
<1> USE DEF FlagType
<1>1. CASE CheckFill
  BY <1>1 DEF CheckFill, worldVars, history
<1>2. CASE PollTrade
  BY <1>2 DEF PollTrade, AtPoll, LeaveTrade, SleepAndPollAgain, worldVars, history
<1>3. CASE CloseCandle
  BY <1>3 DEF CloseCandle, botVars, history
<1>4. CASE Tick
  BY <1>4 DEF Tick, history
<1>5. CASE PopCandle \/ CreateOrder \/ CheckFillUnanswered \/ PollUnanswered \/
            ClearQueue \/ CreateOrderResponseLost \/ Crash \/ Restart \/
            Exchange \/ UNCHANGED vars
  BY <1>5
     DEF PopCandle, worldVars, history, CreateOrder, Accept,
         CheckFillUnanswered, PollUnanswered, AtPoll, SleepAndPollAgain,
         ClearQueue, CreateOrderResponseLost, Terminate, Crash, Restart,
         Exchange, FillEntry, Expire, FillExit, Cancel, Move, botVars,
         vars
<1> QED
  BY <1>1, <1>2, <1>3, <1>4, <1>5 DEF Next, Bot

\* Every step keeps the queue within its bound.
LEMMA StepQueueType ==
    ASSUME QueueType, [Next]_vars
    PROVE  QueueType'
<1> USE MekaAssumption DEF MekaAssumption
<1> USE DEF QueueType, CandleTags
<1>1. CASE PopCandle
  BY <1>1 DEF PopCandle, worldVars, history
<1>2. CASE PollTrade
  <2>1. CASE LeaveTrade
    BY <1>2, <2>1 DEF PollTrade, LeaveTrade, worldVars, history
  <2>2. CASE SleepAndPollAgain
    BY <1>2, <2>2 DEF PollTrade, SleepAndPollAgain, worldVars, history
  <2> QED
    BY <1>2, <2>1, <2>2 DEF PollTrade
<1>3. CASE ClearQueue
  BY <1>3 DEF ClearQueue, worldVars, history
<1>4. CASE CreateOrderResponseLost
  BY <1>4 DEF CreateOrderResponseLost, Accept, Terminate
<1>5. CASE Crash
  BY <1>5 DEF Crash, Terminate, worldVars
<1>6. CASE CloseCandle
  BY <1>6 DEF CloseCandle, botVars, history
<1>7. CASE CreateOrder \/ CheckFill \/ CheckFillUnanswered \/ PollUnanswered \/
            Restart \/ Exchange \/ Tick \/ UNCHANGED vars
  BY <1>7
     DEF CreateOrder, Accept, history, CheckFill, worldVars,
         CheckFillUnanswered, PollUnanswered, AtPoll, SleepAndPollAgain,
         Restart, Exchange, FillEntry, Expire, FillExit, Cancel, Move,
         botVars, Tick, vars
<1> QED
  BY <1>1, <1>2, <1>3, <1>4, <1>5, <1>6, <1>7 DEF Next, Bot

\* Every step keeps the orders and their deadlines in their ranges.
LEMMA StepWorldType ==
    ASSUME WorldType, [Next]_vars
    PROVE  WorldType'
<1> USE Durations
<1> USE DEF WorldType, Stages, Live
<1>1. CASE CreateOrder
  BY <1>1 DEF CreateOrder, Accept, history
<1>2. CASE CreateOrderResponseLost
  BY <1>2 DEF CreateOrderResponseLost, Accept, Terminate
<1>3. CASE Exchange
  BY <1>3 DEF Exchange, FillEntry, Expire, FillExit, Cancel, Move, botVars, history
<1>4. CASE Tick
  BY <1>4 DEF Tick, history
<1>5. CASE PopCandle \/ CheckFill \/ CheckFillUnanswered \/ PollTrade \/
            PollUnanswered \/ ClearQueue \/ Crash \/ Restart \/
            CloseCandle \/ UNCHANGED vars
  BY <1>5
     DEF PopCandle, worldVars, history, CheckFill, CheckFillUnanswered,
         PollTrade, AtPoll, LeaveTrade, SleepAndPollAgain, PollUnanswered,
         ClearQueue, Crash, Terminate, Restart, CloseCandle, botVars, vars
<1> QED
  BY <1>1, <1>2, <1>3, <1>4, <1>5 DEF Next, Bot

\* The bot never loses track of the order it was told of.
LEMMA StepTracked ==
    ASSUME BotType, Tracked, [Next]_vars
    PROVE  Tracked'
<1> USE DEF BotType, Tracked
<1>1. CASE PopCandle
  BY <1>1 DEF PopCandle, worldVars, history
<1>2. CASE CreateOrder
  BY <1>2 DEF CreateOrder, Accept, history
<1>3. CASE CheckFill
  BY <1>3 DEF CheckFill, worldVars, history
<1>4. CASE CheckFillUnanswered
  BY <1>4 DEF CheckFillUnanswered, worldVars
<1>5. CASE PollTrade
  BY <1>5 DEF PollTrade, AtPoll, LeaveTrade, SleepAndPollAgain, worldVars, history
<1>6. CASE PollUnanswered
  BY <1>6 DEF PollUnanswered, AtPoll, SleepAndPollAgain, worldVars, history
<1>7. CASE ClearQueue
  BY <1>7 DEF ClearQueue, worldVars, history
<1>8. CASE CreateOrderResponseLost
  BY <1>8 DEF CreateOrderResponseLost, Accept, Terminate
<1>9. CASE Crash
  BY <1>9 DEF Crash, Terminate, worldVars
<1>10. CASE Restart
  BY <1>10 DEF Restart, worldVars, history
<1>11. CASE CloseCandle
  BY <1>11 DEF CloseCandle, botVars, history
<1>12. CASE Exchange
  BY <1>12 DEF Exchange, FillEntry, Expire, FillExit, Cancel, Move, botVars, history
<1>13. CASE Tick
  BY <1>13 DEF Tick, history
<1>14. CASE UNCHANGED vars
  BY <1>14 DEF vars, botVars, worldVars, history
<1> QED
  BY <1>1, <1>2, <1>3, <1>4, <1>5, <1>6, <1>7, <1>8,
     <1>9, <1>10, <1>11, <1>12, <1>13, <1>14 DEF Next, Bot

\* Stale candles are gone when the queue has been emptied.
LEMMA StepQueue ==
    ASSUME QueueType, QueueFresh, [Next]_vars
    PROVE  QueueFresh'
<1> USE DEF QueueType, CandleTags, QueueFresh
<1>1. CASE PopCandle
  BY <1>1 DEF PopCandle, worldVars, history
<1>2. CASE PollTrade
  BY <1>2 DEF PollTrade, AtPoll, LeaveTrade, SleepAndPollAgain, worldVars, history
<1>3. CASE ClearQueue
  BY <1>3 DEF ClearQueue, worldVars, history
<1>4. CASE CreateOrderResponseLost
  BY <1>4 DEF CreateOrderResponseLost, Accept, Terminate
<1>5. CASE Crash
  BY <1>5 DEF Crash, Terminate, worldVars
<1>6. CASE CloseCandle
  BY <1>6 DEF CloseCandle, botVars, history
<1>7. CASE CreateOrder \/ CheckFill \/ CheckFillUnanswered \/ PollUnanswered \/
            Restart \/ Exchange \/ Tick \/ UNCHANGED vars
  BY <1>7
     DEF CreateOrder, Accept, history, CheckFill, worldVars,
         CheckFillUnanswered, PollUnanswered, AtPoll, SleepAndPollAgain,
         Restart, Exchange, FillEntry, Expire, FillExit, Cancel, Move,
         botVars, Tick, vars
<1> QED
  BY <1>1, <1>2, <1>3, <1>4, <1>5, <1>6, <1>7 DEF Next, Bot

-----------------------------------------------------------------------------
\* Base is an invariant: the state and the transition facts together.
LEMMA BaseInvariant == Spec => []Base
<1>1. Init => Base
  BY InitBase
<1>2. Base /\ [Next]_vars => Base'
  <2> SUFFICES ASSUME Base, [Next]_vars PROVE Base'
    OBVIOUS
  <2>1. BotType' /\ FlagType' /\ QueueType' /\ WorldType'
    BY StepBotType, StepFlagType, StepQueueType, StepWorldType, TypeParts DEF Base
  <2>2. TypeOK'
    BY <2>1 DEF TypeOK, BotType, FlagType, QueueType, WorldType
  <2>3. Tracked' /\ QueueFresh'
    BY StepTracked, StepQueue, TypeParts DEF Base
  <2> QED
    BY <2>2, <2>3 DEF Base
<1> QED
  BY <1>1, <1>2, PTL DEF Spec

\* Every variable of the bot, the queue and the exchange keeps its type.
THEOREM TypeCorrect == Spec => []TypeOK
<1>1. Base => TypeOK
  BY DEF Base
<1> QED
  BY <1>1, BaseInvariant, PTL

\* The loop of Meka::start never hands the strategy a candle that closed
\* before the last exit it saw, however long the queue is and however the
\* Aggregator's pushes fall between the dequeues of clearData.
THEOREM QueueEmptied == Spec => []NoStaleCandle
<1>1. Base => NoStaleCandle
  BY DEF Base, QueueFresh, NoStaleCandle
<1> QED
  BY <1>1, BaseInvariant, PTL

-----------------------------------------------------------------------------
\* The deadline of the order the bot waits for comes before its timer.
LEMMA StepDeadline ==
    ASSUME WaitOutlastsEntry, Base, DeadlineFirst, [Next]_vars
    PROVE  DeadlineFirst'
<1> USE Durations DEF WaitOutlastsEntry, Base, TypeOK, DeadlineFirst
<1>1. CASE CreateOrder
  BY <1>1 DEF CreateOrder, Accept, history
<1>2. CASE Exchange
  BY <1>2 DEF Exchange, FillEntry, Expire, FillExit, Cancel, Move, botVars, history
<1>3. CASE Tick
  BY <1>3 DEF Tick, history
<1>4. CASE PopCandle \/ CheckFill \/ CheckFillUnanswered \/ PollTrade \/
            PollUnanswered \/ ClearQueue \/ CreateOrderResponseLost \/
            Crash \/ Restart \/ CloseCandle \/ UNCHANGED vars
  BY <1>4
     DEF PopCandle, worldVars, history, CheckFill, CheckFillUnanswered,
         PollTrade, AtPoll, LeaveTrade, SleepAndPollAgain, PollUnanswered,
         ClearQueue, CreateOrderResponseLost, Accept, Terminate, Crash,
         Restart, CloseCandle, botVars, vars
<1> QED
  BY <1>1, <1>2, <1>3, <1>4 DEF Next, Bot

\* When placeTrade reads the status, the entry has been decided: for every lag
\* of the exchange that leaves the sleep longer than the entry can live.
THEOREM EntryDecided ==
    ASSUME WaitOutlastsEntry
    PROVE  Spec => []EntryDecidedAtCheck
<1>1. Init => DeadlineFirst
  BY DEF Init, DeadlineFirst
<1>2. Base /\ DeadlineFirst /\ [Next]_vars => DeadlineFirst'
  BY StepDeadline
<1>3. Base /\ DeadlineFirst => EntryDecidedAtCheck
  BY Durations DEF Base, TypeOK, DeadlineFirst, EntryDecidedAtCheck
<1> QED
  BY <1>1, <1>2, <1>3, BaseInvariant, PTL DEF Spec

-----------------------------------------------------------------------------
\* No step of the bot lets go of an order that is live.
LEMMA StepNoOrphan ==
    ASSUME BracketReading, Base, NoOrphanedTrade, [Next]_vars
    PROVE  NoOrphanedTrade'
<1> USE DEF BracketReading, Base, TypeOK, Tracked, NoOrphanedTrade, Live, Stages
<1>1. CASE PopCandle
  BY <1>1 DEF PopCandle, worldVars, history
<1>2. CASE CreateOrder
  BY <1>2 DEF CreateOrder, Accept, Finished, history
<1>3. CASE CheckFill
  <2>1. UNCHANGED <<orders, mine, lost>> /\ ~inTrade
    BY <1>3 DEF CheckFill, worldVars, history
  <2>2. CASE FillConfirmed(order_id)
    <3>1. order_id' = order_id /\ order_id # NoOrder
      BY <1>3, <2>2 DEF CheckFill, FillConfirmed, StatusOf
    <3> QED
      BY <1>3, <2>1, <3>1 DEF CheckFill
  <2>3. CASE ~FillConfirmed(order_id)
    <3>1. \A o \in mine \ lost : orders[o] \notin Live
      BY <1>3, <2>1, <2>3, MekaAssumption
         DEF CheckFill, FillConfirmed, StatusOf, MekaAssumption
    <3> QED
      BY <2>1, <3>1
  <2> QED
    BY <2>2, <2>3
<1>4. CASE CheckFillUnanswered
  BY <1>4 DEF CheckFillUnanswered, worldVars
<1>5. CASE PollTrade
  BY <1>5 DEF PollTrade, AtPoll, ExitFilled, StatusOf, LeaveTrade, SleepAndPollAgain, worldVars, history
<1>6. CASE PollUnanswered
  BY <1>6 DEF PollUnanswered, AtPoll, SleepAndPollAgain, worldVars, history
<1>7. CASE ClearQueue
  BY <1>7 DEF ClearQueue, worldVars, history
<1>8. CASE CreateOrderResponseLost
  BY <1>8 DEF CreateOrderResponseLost, Accept, Terminate
<1>9. CASE Crash
  BY <1>9 DEF Crash, Terminate, worldVars
<1>10. CASE Restart
  BY <1>10 DEF Restart, worldVars, history
<1>11. CASE CloseCandle
  BY <1>11 DEF CloseCandle, botVars, history
<1>12. CASE Exchange
  BY <1>12 DEF Exchange, FillEntry, Expire, FillExit, Cancel, Move, botVars, history
<1>13. CASE Tick
  BY <1>13 DEF Tick, history
<1>14. CASE UNCHANGED vars
  BY <1>14 DEF vars, botVars, worldVars, history
<1> QED
  BY <1>1, <1>2, <1>3, <1>4, <1>5, <1>6, <1>7, <1>8,
     <1>9, <1>10, <1>11, <1>12, <1>13, <1>14 DEF Next, Bot

\* placeTrade and monitorTrade never let go of a live order of the process,
\* if the exchange reports an order the way they read it.
THEOREM NoOrphan ==
    ASSUME BracketReading
    PROVE  Spec => []NoOrphanedTrade
<1>1. Init => NoOrphanedTrade
  BY DEF Init, NoOrphanedTrade
<1>2. Base /\ NoOrphanedTrade /\ [Next]_vars => NoOrphanedTrade'
  BY StepNoOrphan
<1> QED
  BY <1>1, <1>2, BaseInvariant, PTL DEF Spec

\* The bot leaves a trade for no other reason than a filled exit, or dies.
THEOREM MonitoredUntilExit ==
    ASSUME BracketReading
    PROVE  Spec => MonitorUntilExit
<1> DEFINE Step == inTrade /\ ~inTrade' /\ pc' # "terminated" => orders[order_id] = "closed"
<1>1. Base /\ [Next]_vars => [Step]_vars
  <2> SUFFICES ASSUME Base, [Next]_vars, inTrade, ~inTrade', pc' # "terminated"
               PROVE  orders[order_id] = "closed"
    OBVIOUS
  <2>1. PollTrade
    <3>1. pc \notin {"create", "waitFill", "clear", "terminated"}
      BY DEF Base, Tracked
    <3> QED
      BY <3>1 DEF Next, Bot, PopCandle, CreateOrder, CheckFill, CheckFillUnanswered,
           PollUnanswered, SleepAndPollAgain, ClearQueue, CreateOrderResponseLost, Crash,
           Terminate, Restart, CloseCandle, Exchange, FillEntry, Expire, FillExit, Cancel,
           Move, Tick, vars, botVars
  <2>2. ExitFilled(order_id)
    BY <2>1 DEF PollTrade, SleepAndPollAgain
  <2>3. order_id \in OrderIds /\ order_id # NoOrder /\ orders[order_id] \in Stages
    BY MekaAssumption DEF Base, Tracked, TypeOK, MekaAssumption
  <2> QED
    BY <2>2, <2>3 DEF ExitFilled, StatusOf, BracketReading
<1> QED
  BY <1>1, BaseInvariant, PTL DEF Spec, MonitorUntilExit

-----------------------------------------------------------------------------
\* The open orders of the process: none, or the one it is occupied with.
LEMMA OpenOrderIsOurs ==
    ASSUME Base, NoOrphanedTrade
    PROVE  OpenOrders = {} \/ (OpenOrders = {order_id} /\ Phase = "placed")
BY DEF Base, Tracked, NoOrphanedTrade, OpenOrders, Phase

\* A step of the exchange ends the open order, or is no step of the trade.
LEMMA ExchangeImplements ==
    ASSUME Base, NoOrphanedTrade, Exchange
    PROVE  Account!End \/ UNCHANGED <<Phase, OpenOrders>>
<1>1. UNCHANGED Phase
  BY DEF Exchange, FillEntry, Expire, FillExit, Cancel, Move, botVars, Phase
<1>2. PICK o \in OrderIds, from \in Live, to \in Stages :
          /\ Move(o, from, to)
          /\ to \in Live => from \in Live
  BY DEF Exchange, FillEntry, Expire, FillExit, Cancel, Live, Stages
<1>3. UNCHANGED <<mine, lost>> /\ orders' = [orders EXCEPT ![o] = to]
      /\ orders[o] \in Live
  BY <1>2 DEF Move, history
<1>4. CASE to \in Live \/ o \notin OpenOrders
  BY <1>1, <1>3, <1>4 DEF OpenOrders, Base, TypeOK
<1>5. CASE to \notin Live /\ o \in OpenOrders
  <2>1. OpenOrders = {o}
    BY <1>5, OpenOrderIsOurs
  <2>2. OpenOrders' = {}
    BY <1>3, <1>5, <2>1 DEF OpenOrders, Base, TypeOK
  <2> QED
    BY <1>1, <2>1, <2>2 DEF Account!End
<1> QED
  BY <1>4, <1>5

\* Every step of the bot and of the world around it is a step of OneTrade.
LEMMA StepImplements ==
    ASSUME BracketReading, Base, NoOrphanedTrade, NoOrphanedTrade', [Next]_vars
    PROVE  [Account!Next]_<<Phase, OpenOrders>>
<1> USE DEF Base, TypeOK, Tracked, Phase, OpenOrders
<1> USE OpenOrderIsOurs
<1>1. CASE PopCandle
  BY <1>1 DEF PopCandle, worldVars, history, Account!Next, Account!Signal
<1>2. CASE CreateOrder
  <2>1. Phase = "signal" /\ Phase' = "placed" /\ OpenOrders = {}
    BY <1>2 DEF CreateOrder, NoOrphanedTrade
  <2>2. OpenOrders' = {} \/ OpenOrders' = {order_id'}
    BY DEF NoOrphanedTrade
  <2>3. OpenOrders' \subseteq OrderIds
    BY <1>2 DEF CreateOrder, history
  <2> QED
    BY <2>1, <2>2, <2>3 DEF Account!Next, Account!Place
<1>3. CASE CheckFill
  <2>1. Phase = "placed" /\ Phase' \in {"placed", "idle"} /\ UNCHANGED OpenOrders
    BY <1>3 DEF CheckFill, worldVars, history
  <2>2. Phase' = "idle" => OpenOrders' = {}
    BY <1>3 DEF CheckFill, NoOrphanedTrade
  <2> QED
    BY <2>1, <2>2 DEF Account!Next, Account!Notice
<1>4. CASE CheckFillUnanswered
  BY <1>4 DEF CheckFillUnanswered, worldVars, Account!Next, Account!Forget, Account!Notice
<1>5. CASE PollTrade
  <2>1. Phase = "placed" /\ Phase' \in {"placed", "idle"} /\ UNCHANGED OpenOrders
    BY <1>5 DEF PollTrade, AtPoll, LeaveTrade, SleepAndPollAgain, worldVars, history
  <2>2. Phase' = "idle" => OpenOrders' = {}
    BY <1>5 DEF PollTrade, AtPoll, LeaveTrade, SleepAndPollAgain, NoOrphanedTrade
  <2> QED
    BY <2>1, <2>2 DEF Account!Next, Account!Notice
<1>6. CASE PollUnanswered
  BY <1>6 DEF PollUnanswered, AtPoll, SleepAndPollAgain, worldVars, history
<1>7. CASE ClearQueue
  BY <1>7 DEF ClearQueue, worldVars, history
<1>8. CASE CreateOrderResponseLost
  BY <1>8 DEF CreateOrderResponseLost, Accept, Terminate, Account!Next, Account!Forget
<1>9. CASE Crash
  BY <1>9 DEF Crash, Terminate, worldVars, Account!Next, Account!Forget
<1>10. CASE Restart
  BY <1>10 DEF Restart, worldVars, history
<1>11. CASE CloseCandle
  BY <1>11 DEF CloseCandle, botVars, history
<1>12. CASE Exchange
  BY <1>12, ExchangeImplements DEF Account!Next
<1>13. CASE Tick
  BY <1>13 DEF Tick, history
<1>14. CASE UNCHANGED vars
  BY <1>14 DEF vars, botVars, worldVars, history
<1> QED
  BY <1>1, <1>2, <1>3, <1>4, <1>5, <1>6, <1>7, <1>8,
     <1>9, <1>10, <1>11, <1>12, <1>13, <1>14 DEF Next, Bot

\* The trading loop implements one trade at a time, for any number of orders,
\* any timing and any crash, if the exchange reports orders as it reads them.
THEOREM OneTradeImplemented ==
    ASSUME BracketReading
    PROVE  Spec => ImplementsOneTrade
<1>1. Init => Account!Init
  BY DEF Init, Account!Init, Phase, OpenOrders
<1>2. Base /\ NoOrphanedTrade /\ NoOrphanedTrade' /\ [Next]_vars
        => [Account!Next]_<<Phase, OpenOrders>>
  BY StepImplements
<1> QED
  BY <1>1, <1>2, BaseInvariant, NoOrphan, PTL DEF Spec, ImplementsOneTrade, Account!Spec, Account!oneTradeVars

=============================================================================
