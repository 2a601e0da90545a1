-------------------------- MODULE ProgressWindowProofs --------------------------
(***************************************************************************)
(* Theorems about ProgressWindow, for any number of failures, clicks,      *)
(* retries and calls under way.                                            *)
(***************************************************************************)
EXTENDS ProgressWindow, TLAPS

Questions == [for : {"init", "retry", "poll"}, value : Status \cup {"sent", "none"}, seen : Nat]

\* Something that is put into a bag, or taken out of it, leaves the rest as it is.
LEMMA PutIn ==
  ASSUME NEW bag, IsABag(bag), NEW x
  PROVE  /\ IsABag(Plus(bag, x))
         /\ BagToSet(Plus(bag, x)) = BagToSet(bag) \cup {x}
         /\ Count(x, Plus(bag, x)) = Count(x, bag) + 1
         /\ \A y : y # x => Count(y, Plus(bag, x)) = Count(y, bag)
  BY DEF IsABag, Plus, One, BagToSet, SetToBag, Count, Has, BagIn, (+)

\* The same of what is taken out.
LEMMA TakenOut ==
  ASSUME NEW bag, IsABag(bag), NEW x
  PROVE  /\ IsABag(Minus(bag, x))
         /\ BagToSet(Minus(bag, x)) \subseteq BagToSet(bag)
         /\ x \in BagToSet(bag) => Count(x, Minus(bag, x)) = Count(x, bag) - 1
         /\ \A y : y # x => Count(y, Minus(bag, x)) = Count(y, bag)
  BY DEF IsABag, Minus, One, BagToSet, SetToBag, Count, Has, BagIn, (-)

\* How often a thing is in a bag.
LEMMA Counting ==
  ASSUME NEW bag, IsABag(bag), NEW x
  PROVE  /\ Count(x, bag) \in Nat
         /\ Has(bag, x) <=> x \in BagToSet(bag)
         /\ x \in BagToSet(bag) => Count(x, bag) > 0
  BY DEF IsABag, Has, BagToSet, Count, BagIn

\* The bags the window starts with.
LEMMA FirstBags ==
  /\ IsABag(EmptyBag) /\ BagToSet(EmptyBag) = {}
  /\ \A x : Count(x, EmptyBag) = 0
  /\ \A x : IsABag(One(x)) /\ BagToSet(One(x)) = {x}
  BY DEF IsABag, EmptyBag, One, BagToSet, SetToBag, Count, Has, BagIn

Messages == Status \cup Error \cup {"close"}

\* The commands by their kind.
LEMMA Commands ==
  /\ \A do \in {"resume", "pause", "cancel"} : Call(do) \in Calls /\ Call(do).do = do
  /\ \A n \in 0..MaxClicks : Retry(n) \in Calls /\ Retry(n).do = "retry" /\ Retry(n).seen = n
  /\ Call("pause") # Call("resume") /\ Call("pause") # Call("cancel")
  /\ \A n : Call("pause") # Retry(n)
  /\ \A c \in Calls : c.do = "pause" => c = Call("pause")
  /\ \A c \in Calls : c.seen \in Nat /\ c.do \in {"resume", "pause", "cancel", "retry"}
<1>1. \A n \in 0..MaxClicks : n \in 0..(MaxClicks + MaxClicks)
  BY ConstantsAssumption
<1>2. \A n \in 0..(MaxClicks + MaxClicks) : n \in Nat
  BY ConstantsAssumption
<1>3. \A c \in Calls : \/ c \in {Call("resume"), Call("pause"), Call("cancel")}
                        \/ \E n \in Nat : c = Retry(n)
  BY <1>2 DEF Calls
<1>4. \A do : Call(do).do = do /\ Call(do).seen = 0
  BY DEF Call
<1>5. \A n : Retry(n).do = "retry" /\ Retry(n).seen = n
  BY DEF Retry
<1>6. \A do \in {"resume", "pause", "cancel"} : Call(do) \in Calls
  BY DEF Calls
<1>7. \A n \in 0..MaxClicks : Retry(n) \in Calls
  BY <1>1 DEF Calls
<1>8. /\ Call("pause") # Call("resume") /\ Call("pause") # Call("cancel")
      /\ \A n : Call("pause") # Retry(n)
  BY <1>4, <1>5
<1>9. \A c \in Calls : c.do = "pause" => c = Call("pause")
  BY <1>3, <1>4, <1>5
<1>10. \A c \in Calls : c.seen \in Nat /\ c.do \in {"resume", "pause", "cancel", "retry"}
  BY <1>3, <1>4, <1>5
<1> QED
  BY <1>4, <1>5, <1>6, <1>7, <1>8, <1>9, <1>10

\* The status questions, asked and answered.
LEMMA Asking ==
  /\ \A for \in {"init", "retry", "poll"} :
       /\ Question(for) \in Questions
       /\ Question(for).value = "sent" /\ Question(for).seen = 0
  BY DEF Questions, Question

AnswerTo(q, s, n) == [q EXCEPT !.value = s, !.seen = n]

\* An answer is a question that says what the engine found.
LEMMA Answering ==
  ASSUME NEW q \in Questions, NEW s \in Status \cup {"none"}, NEW n \in Nat
  PROVE  /\ AnswerTo(q, s, n) \in Questions
         /\ AnswerTo(q, s, n).value = s /\ AnswerTo(q, s, n).seen = n
  BY DEF AnswerTo, Questions

\* An event that finds the queue full is lost.
LEMMA Emitting ==
  ASSUME IsABag(events), BagToSet(events) \subseteq Messages, NEW x \in Messages, Emitted(x)
  PROVE  IsABag(events') /\ BagToSet(events') \subseteq Messages
  BY PutIn DEF Emitted

\* What TypeOK leaves out: the window that is gone handles nothing, no question has seen
\* a pause that was not made, and every pause is somebody's click.
Bounded ==
  /\ ~open => handling = EmptyBag
  /\ BagToSet(asks) \subseteq Questions
  /\ \A q \in BagToSet(asks) : q.seen <= pauses
  /\ pauses + Count(Call("pause"), calls) <= clicks

\* A retry, or an answer that will make one, that has seen the last pause has not seen
\* the task paused by it.
Fresh ==
  /\ \A c \in BagToSet(calls) :
       c.do = "retry" => c.seen <= pauses /\ (c.seen = pauses => task # "Paused")
  /\ \A q \in BagToSet(asks) :
       q.value \notin Settled \cup {"sent"} /\ q.seen = pauses => task # "Paused"

\* The bounds of the counters.
LEMMA Limits ==
  /\ MaxRetries \in Nat /\ MaxFaults \in Nat /\ MaxClicks \in Nat
  /\ 0 \in 0..MaxRetries /\ MaxRetries \in 0..MaxRetries
  /\ 0 \in 0..MaxFaults /\ 0 \in 0..MaxClicks
  BY ConstantsAssumption

\* TypeOK, its parts named.
Scalars ==
  /\ open \in BOOLEAN /\ listening \in BOOLEAN /\ closing \in BOOLEAN
  /\ leaving \in BOOLEAN /\ timer \in BOOLEAN

Counters ==
  /\ attempts \in 0..MaxRetries
  /\ pauses \in Nat /\ faults \in 0..MaxFaults /\ clicks \in 0..MaxClicks

Bags ==
  /\ IsABag(events) /\ BagToSet(events) \subseteq Messages
  /\ IsABag(calls) /\ BagToSet(calls) \subseteq Calls
  /\ IsABag(asks)
  /\ IsABag(handling) /\ BagToSet(handling) \subseteq Error

Types ==
  /\ task \in Task /\ shown \in Shown
  /\ Scalars /\ Counters /\ Bags
  /\ ~open => ~timer /\ asks = EmptyBag

\* They are what TypeOK says.
LEMMA TypeParts == Types => TypeOK
  BY DEF TypeOK, Types, Scalars, Counters, Bags, Messages

Inv == Types /\ Bounded /\ Fresh

\* Pausing keeps the counts: one pause more, paid for by the command or the click.
LEMMA Pausing ==
  ASSUME Types, Paused
  PROVE  /\ task' \in Task /\ pauses' \in Nat
         /\ IsABag(events') /\ BagToSet(events') \subseteq Messages
         /\ \/ pauses' = pauses /\ task' = task
            \/ pauses' = pauses + 1
  BY Emitting DEF Types, Counters, Bags, Paused, Messages, Status, Task

\* The invariant with what TypeOK names, for a step that leaves the calls, the questions
\* and the pauses alone.
LEMMA Unasked ==
  ASSUME Inv, UNCHANGED <<calls, asks, pauses>>,
         task' = "Paused" => task = "Paused",
         clicks' \in 0..MaxClicks, clicks <= clicks',
         ~open' => handling' = EmptyBag
  PROVE  Bounded' /\ Fresh'
<1>1. /\ calls' = calls /\ asks' = asks /\ pauses' = pauses
      /\ Count(Call("pause"), calls') = Count(Call("pause"), calls)
  OBVIOUS
<1>2. Count(Call("pause"), calls) \in Nat /\ pauses \in Nat /\ clicks \in Nat /\ clicks' \in Nat
  BY Counting, ConstantsAssumption DEF Inv, Types, Counters, Bags
<1>3. Bounded'
  BY <1>1, <1>2 DEF Inv, Bounded
<1>4. Fresh'
  BY <1>1 DEF Inv, Fresh
<1> QED
  BY <1>3, <1>4

\* The first state has the invariant.
LEMMA InvInit == Init => Inv
<1> SUFFICES ASSUME Init PROVE Inv
  OBVIOUS
<1>1. asks = One(Question("init")) /\ BagToSet(asks) = {Question("init")} /\ IsABag(asks)
  BY FirstBags DEF Init
<1>2. /\ calls = EmptyBag /\ events = EmptyBag /\ handling = EmptyBag
      /\ BagToSet(EmptyBag) = {} /\ IsABag(EmptyBag) /\ Count(Call("pause"), calls) = 0
  BY FirstBags DEF Init
<1>3. Types
  BY <1>1, <1>2, Limits DEF Init, Types, Counters, Bags, Task, Shown, Scalars
<1>4. Question("init") \in Questions /\ Question("init").seen = 0
  BY Asking
<1>5. Bounded
  BY <1>1, <1>2, <1>4 DEF Init, Bounded
<1>6. Fresh
  BY <1>1, <1>2, Asking DEF Init, Fresh
<1> QED
  BY <1>3, <1>5, <1>6 DEF Inv

\* The steps of the engine and of the listeners, which neither ask nor command.
LEMMA QuietSteps ==
  ASSUME Inv,
         \/ EngineMoves \/ EngineFinishes \/ EngineFails
         \/ \E e \in BagToSet(events) : OnEvent(e) \/ OnError(e)
         \/ \E e \in BagToSet(handling) : ErrorHandled(e)
  PROVE  Inv'
<1> USE DEF Inv, Types, Counters, Bags, Scalars, view
<1>1. CASE EngineMoves \/ EngineFinishes
  <2>1. Types'
    BY <1>1, Emitting DEF EngineMoves, EngineFinishes, Task, Messages, Status, Scalars
  <2>2. Bounded' /\ Fresh'
    BY <1>1, Unasked DEF EngineMoves, EngineFinishes, Bounded
  <2> QED
    BY <2>1, <2>2
<1>2. CASE EngineFails
  <2>1. PICK e \in Error : events' = Plus(Plus(events, "Error"), e)
    BY <1>2 DEF EngineFails
  <2>2. IsABag(events') /\ BagToSet(events') \subseteq Messages
    BY <2>1, PutIn DEF Messages, Status
  <2>3. Types'
    BY <1>2, <2>2, Limits DEF EngineFails, Task, Scalars
  <2>4. Bounded' /\ Fresh'
    BY <1>2, Unasked DEF EngineFails, Bounded
  <2> QED
    BY <2>3, <2>4
<1>3. ASSUME NEW e \in BagToSet(events), OnEvent(e)
      PROVE  Inv'
  <2>1. IsABag(events') /\ BagToSet(events') \subseteq Messages
    BY <1>3, TakenOut DEF OnEvent
  <2>2. shown' \in Shown /\ attempts' \in 0..MaxRetries
    BY <1>3, Limits DEF OnEvent, Apply, CloseEvent, Shown, Messages, Status
  <2>3. Scalars' /\ open
    BY <1>3 DEF OnEvent, Apply, CloseEvent, Completed, Scalars
  <2>4. Types'
    BY <1>3, <2>1, <2>2, <2>3 DEF OnEvent
  <2>5. Bounded' /\ Fresh'
    BY <1>3, Unasked DEF OnEvent, Bounded
  <2> QED
    BY <2>4, <2>5
<1>4. ASSUME NEW e \in BagToSet(events), OnError(e)
      PROVE  Inv'
  <2>1. IsABag(events') /\ BagToSet(events') \subseteq Messages
    BY <1>4, TakenOut DEF OnError
  <2>2. IsABag(handling') /\ BagToSet(handling') \subseteq Error
    BY <1>4, PutIn DEF OnError
  <2>3. Types'
    BY <1>4, <2>1, <2>2 DEF OnError, Scalars
  <2>4. Bounded' /\ Fresh'
    BY <1>4, Unasked DEF OnError, Bounded
  <2> QED
    BY <2>3, <2>4
<1>5. ASSUME NEW e \in BagToSet(handling), ErrorHandled(e)
      PROVE  Inv'
  <2>1. IsABag(handling') /\ BagToSet(handling') \subseteq Error
    BY <1>5, TakenOut DEF ErrorHandled
  <2>2. open
    BY <1>5, FirstBags DEF Bounded
  <2>3. \/ attempts < MaxRetries /\ attempts' = attempts + 1
        \/ attempts' \in {attempts, MaxRetries}
    BY <1>5 DEF ErrorHandled
  <2>4. attempts' \in 0..MaxRetries
    BY <2>3, Limits
  <2>5. shown' \in Shown /\ timer' \in BOOLEAN
    BY <1>5 DEF ErrorHandled, Shown
  <2>6. Types'
    BY <1>5, <2>1, <2>2, <2>4, <2>5 DEF ErrorHandled
  <2>7. Bounded' /\ Fresh'
    BY <1>5, <2>2, Unasked DEF ErrorHandled, Bounded
  <2> QED
    BY <2>6, <2>7
<1> QED
  BY <1>1, <1>2, <1>3, <1>4, <1>5

\* After a pause everything that has been seen is older than it.
LEMMA PausedLater ==
  ASSUME Inv, pauses' = pauses + 1, UNCHANGED asks,
         BagToSet(calls') \subseteq BagToSet(calls)
  PROVE  Fresh'
<1>1. \A c \in BagToSet(calls') : c.do = "retry" => c.seen <= pauses' /\ c.seen # pauses'
  <2> TAKE c \in BagToSet(calls')
  <2> HAVE c.do = "retry"
  <2>1. c.seen \in Nat /\ c.seen <= pauses /\ pauses \in Nat
    BY Commands DEF Inv, Types, Bags, Counters, Fresh
  <2> QED
    BY <2>1
<1>2. \A q \in BagToSet(asks') : q.seen # pauses'
  <2> TAKE q \in BagToSet(asks')
  <2>1. q.seen \in Nat /\ q.seen <= pauses /\ pauses \in Nat
    BY DEF Inv, Types, Counters, Bounded, Questions
  <2> QED
    BY <2>1
<1> QED
  BY <1>1, <1>2 DEF Fresh

\* A step that takes no pause and leaves no new call or question keeps what they saw.
LEMMA SeenBefore ==
  ASSUME Inv, pauses' = pauses, task' = "Paused" => task = "Paused",
         BagToSet(calls') \subseteq BagToSet(calls),
         BagToSet(asks') \subseteq BagToSet(asks)
  PROVE  Fresh'
  BY DEF Inv, Fresh

\* A window that is gone has neither questions nor handlers.
LEMMA Shutting ==
  ASSUME Inv, Shut
  PROVE  /\ ~open' /\ ~timer' /\ asks' = EmptyBag /\ handling' = EmptyBag
         /\ IsABag(asks') /\ BagToSet(asks') = {} /\ IsABag(handling')
         /\ BagToSet(handling') \subseteq Error
         /\ Scalars' /\ shown' \in Shown /\ attempts' = attempts
  BY FirstBags DEF Inv, Types, Scalars, Shut

\* The engine serves a command: a pause uses the command up, a removal closes the window.
LEMMA ServeStep ==
  ASSUME Inv, NEW c \in BagToSet(calls), Serve(c)
  PROVE  Inv'
<1>1. /\ c \in Calls /\ IsABag(calls') /\ BagToSet(calls') \subseteq BagToSet(calls)
      /\ IsABag(calls) /\ BagToSet(calls) \subseteq Calls /\ calls' = Minus(calls, c)
  BY TakenOut DEF Serve, Inv, Types, Bags
<1>2. /\ c.do # "pause" => Count(Call("pause"), calls') = Count(Call("pause"), calls)
      /\ c.do = "pause" => Count(Call("pause"), calls') = Count(Call("pause"), calls) - 1
      /\ Count(Call("pause"), calls) \in Nat
  BY <1>1, TakenOut, Counting, Commands
<1>3. c.do \in {"resume", "pause", "cancel", "retry"}
  BY <1>1, Commands
<1>4. clicks' = clicks /\ faults' = faults /\ pauses \in Nat /\ clicks \in Nat
  BY Limits DEF Serve, Inv, Types, Counters
<1>5. CASE c.do \in {"resume", "retry"}
  <2>1. /\ UNCHANGED <<pauses, events, view>>
        /\ task' \in Task /\ (task' = "Paused" => task = "Paused")
    BY <1>5 DEF Serve, Resumed, Task, Inv, Types
  <2>2. Types'
    BY <1>1, <1>4, <2>1 DEF Inv, Types, Scalars, Counters, Bags, view
  <2>3. Bounded'
    BY <1>2, <1>4, <1>5, <2>1 DEF Inv, Bounded, view
  <2>4. Fresh'
    BY <1>1, <2>1, SeenBefore DEF view
  <2> QED
    BY <2>2, <2>3, <2>4 DEF Inv
<1>6. CASE c.do = "pause"
  <2>1. Paused /\ UNCHANGED view
    BY <1>6 DEF Serve
  <2>2. /\ task' \in Task /\ pauses' \in Nat
        /\ IsABag(events') /\ BagToSet(events') \subseteq Messages
        /\ \/ pauses' = pauses /\ task' = task
           \/ pauses' = pauses + 1
    BY <2>1, Pausing DEF Inv
  <2>3. Types'
    BY <1>1, <1>4, <2>1, <2>2 DEF Inv, Types, Scalars, Counters, Bags, view
  <2>4. Count(Call("pause"), calls) > 0
    BY <1>1, <1>6, Counting, Commands
  <2>5. pauses' + Count(Call("pause"), calls') <= clicks'
    BY <1>2, <1>4, <1>6, <2>2 DEF Inv, Bounded
  <2>6. \A q \in BagToSet(asks) : q.seen <= pauses'
    BY <1>4, <2>2 DEF Inv, Bounded, Questions
  <2>7. Bounded'
    BY <2>1, <2>5, <2>6 DEF Inv, Bounded, view
  <2>8. Fresh'
    BY <1>1, <2>1, <2>2, PausedLater, SeenBefore DEF view
  <2> QED
    BY <2>3, <2>7, <2>8 DEF Inv
<1>7. CASE c.do = "cancel"
  <2>1. Removed /\ Shut /\ UNCHANGED <<pauses, events>>
    BY <1>7 DEF Serve
  <2>2. task' \in Task /\ (task' = "Paused" => task = "Paused")
    BY <2>1 DEF Removed, Task, Inv, Types
  <2>3. Types'
    BY <1>1, <1>4, <2>1, <2>2, Shutting DEF Inv, Types, Counters, Bags
  <2>4. Bounded'
    BY <1>2, <1>4, <1>7, <2>1, Shutting DEF Inv, Bounded
  <2>5. Fresh'
    BY <1>1, <2>1, <2>2, Shutting, SeenBefore
  <2> QED
    BY <2>3, <2>4, <2>5 DEF Inv
<1> QED
  BY <1>3, <1>5, <1>6, <1>7

\* The main window pauses, resumes or deletes; a pause there is a click too.
LEMMA MainStep ==
  ASSUME Inv, MainWindow
  PROVE  Inv'
<1>1. /\ clicks' = clicks + 1 /\ clicks' \in 0..MaxClicks /\ clicks \in Nat
      /\ pauses \in Nat /\ UNCHANGED <<calls, faults, view>>
      /\ Count(Call("pause"), calls) \in Nat
  BY Limits, Counting DEF MainWindow, Inv, Types, Counters, Bags
<1>2. CASE Paused
  <2>1. /\ task' \in Task /\ pauses' \in Nat
        /\ IsABag(events') /\ BagToSet(events') \subseteq Messages
        /\ \/ pauses' = pauses /\ task' = task
           \/ pauses' = pauses + 1
    BY <1>2, Pausing DEF Inv
  <2>2. Types'
    BY <1>1, <2>1 DEF Inv, Types, Scalars, Counters, Bags, view
  <2>3. pauses' + Count(Call("pause"), calls') <= clicks'
    BY <1>1, <2>1 DEF Inv, Bounded
  <2>4. \A q \in BagToSet(asks) : q.seen <= pauses'
    BY <1>1, <2>1 DEF Inv, Bounded, Questions
  <2>5. Bounded'
    BY <1>1, <2>3, <2>4 DEF Inv, Bounded, view
  <2>6. Fresh'
    BY <1>1, <2>1, PausedLater, SeenBefore DEF view
  <2> QED
    BY <2>2, <2>5, <2>6 DEF Inv
<1>3. CASE \/ Resumed /\ task' # task /\ UNCHANGED <<pauses, events>>
           \/ Removed /\ task' # task /\ Emitted("close") /\ UNCHANGED pauses
  <2>1. /\ task' \in Task /\ (task' = "Paused" => task = "Paused") /\ pauses' = pauses
        /\ IsABag(events') /\ BagToSet(events') \subseteq Messages
    BY <1>3, Emitting DEF Inv, Types, Bags, Resumed, Removed, Task, Messages
  <2>2. Types'
    BY <1>1, <2>1 DEF Inv, Types, Scalars, Counters, Bags, view
  <2>3. Bounded' /\ Fresh'
    BY <1>1, <2>1, Unasked DEF Inv, Bounded, view
  <2> QED
    BY <2>2, <2>3 DEF Inv
<1> QED
  BY <1>2, <1>3 DEF MainWindow

\* A question asked or answered adds one that has seen no pause later than the last.
LEMMA Asked ==
  ASSUME Inv, NEW q \in Questions, asks' = Plus(asks, q) \/
           (\E p \in BagToSet(asks) : asks' = Plus(Minus(asks, p), q)),
         q.seen <= pauses,
         q.value \notin Settled \cup {"sent"} /\ q.seen = pauses => task # "Paused",
         UNCHANGED <<task, pauses, calls>>, clicks' \in 0..MaxClicks, clicks <= clicks', open'
  PROVE  IsABag(asks') /\ Bounded' /\ Fresh'
<1>1. IsABag(asks') /\ BagToSet(asks') \subseteq BagToSet(asks) \cup {q}
  BY PutIn, TakenOut DEF Inv, Types, Bags
<1>2. /\ Count(Call("pause"), calls) \in Nat /\ pauses \in Nat
      /\ clicks \in Nat /\ clicks' \in Nat
  BY Counting, Limits DEF Inv, Types, Counters, Bags
<1>3. Bounded'
  BY <1>1, <1>2 DEF Inv, Bounded
<1>4. Fresh'
  BY <1>1 DEF Inv, Fresh
<1> QED
  BY <1>1, <1>3, <1>4

\* The window asks the engine for the task's status, and the engine answers.
LEMMA AskSteps ==
  ASSUME Inv,
         \/ RetryTimer \/ Poll \/ ThreadCountChange
         \/ \E q \in BagToSet(asks) : Answer(q)
  PROVE  Inv'
<1> USE DEF Inv, Types, Scalars, Counters, Bags, engine
<1>1. clicks \in Nat /\ pauses \in Nat /\ clicks <= clicks
  BY Limits
<1>2. \A for \in {"init", "retry", "poll"} :
        /\ Question(for) \in Questions /\ Question(for).value = "sent"
        /\ Question(for).seen <= pauses
  <2>1. 0 <= pauses
    BY <1>1
  <2> QED
    BY ONLY <2>1, Asking
<1>3. CASE RetryTimer
  <2>1. CASE asks' = asks
    <3>1. Types'
      BY <1>3, <2>1 DEF RetryTimer
    <3>2. Bounded' /\ Fresh'
      BY <1>1, <1>3, <2>1, Unasked DEF RetryTimer, Bounded
    <3> QED
      BY <3>1, <3>2
  <2>2. CASE asks' = Plus(asks, Question("retry"))
    <3>1. open
      BY <1>3 DEF RetryTimer
    <3>2. IsABag(asks') /\ Bounded' /\ Fresh'
      BY <1>1, <1>2, <1>3, <2>2, <3>1, Asked DEF RetryTimer
    <3>3. Types'
      BY <1>3, <3>1, <3>2 DEF RetryTimer
    <3> QED
      BY <3>2, <3>3
  <2> QED
    BY <1>3, <2>1, <2>2 DEF RetryTimer
<1>4. CASE Poll
  <2>1. IsABag(asks') /\ Bounded' /\ Fresh'
    BY <1>1, <1>2, <1>4, Asked DEF Poll
  <2>2. Types'
    BY <1>4, <2>1 DEF Poll
  <2> QED
    BY <2>1, <2>2
<1>5. CASE ThreadCountChange
  <2>1. clicks' \in 0..MaxClicks /\ clicks <= clicks'
    BY <1>1, <1>5, Limits DEF ThreadCountChange, Click
  <2>2. IsABag(asks') /\ Bounded' /\ Fresh'
    BY <1>1, <1>2, <1>5, <2>1, Asked DEF ThreadCountChange, Click
  <2>3. Types'
    BY <1>5, <2>1, <2>2 DEF ThreadCountChange, Click
  <2> QED
    BY <2>2, <2>3
<1>6. ASSUME NEW q \in BagToSet(asks), Answer(q)
      PROVE  Inv'
  <2>1. PICK s \in (IF task = "Downloading" THEN {"Downloading", "moving"} ELSE {task}) :
          asks' = Plus(Minus(asks, q), [q EXCEPT !.value = s, !.seen = pauses])
    BY <1>6 DEF Answer
  <2> DEFINE a == AnswerTo(q, s, pauses)
  <2>2. s \in Status \cup {"none"} /\ (s \notin Settled => task # "Paused")
    BY <2>1 DEF Task, Status, Settled
  <2>3. q \in Questions
    BY DEF Bounded
  <2>4. a \in Questions /\ a.value = s /\ a.seen = pauses
    BY ONLY <1>1, <2>2, <2>3, Answering
  <2>5. open
    BY FirstBags
  <2> HIDE DEF a
  <2>6. asks' = Plus(Minus(asks, q), a)
    BY <2>1 DEF a, AnswerTo
  <2>7. UNCHANGED <<task, pauses, calls, clicks, open>> /\ a.seen <= pauses
    <3>1. a.seen <= pauses
      BY ONLY <1>1, <2>4
    <3> QED
      BY <1>6, <3>1 DEF Answer
  <2>8. IsABag(asks') /\ Bounded' /\ Fresh'
    BY <1>1, <2>2, <2>4, <2>5, <2>6, <2>7, Asked
  <2>9. Types'
    BY <1>6, <2>5, <2>8 DEF Answer
  <2> QED
    BY <2>8, <2>9
<1> QED
  BY <1>3, <1>4, <1>5, <1>6

\* A command more: a pause is a click more, a retry has seen what its question saw.
LEMMA Commanded ==
  ASSUME Inv, NEW c \in Calls, calls' = Plus(calls, c),
         UNCHANGED <<task, pauses>>, BagToSet(asks') \subseteq BagToSet(asks),
         clicks' \in 0..MaxClicks, clicks <= clicks',
         c = Call("pause") => clicks' = clicks + 1,
         c.do = "retry" => c.seen <= pauses /\ (c.seen = pauses => task # "Paused"),
         ~open' => handling' = EmptyBag
  PROVE  IsABag(calls') /\ BagToSet(calls') \subseteq Calls /\ Bounded' /\ Fresh'
<1>1. IsABag(calls') /\ BagToSet(calls') = BagToSet(calls) \cup {c}
  BY PutIn DEF Inv, Types, Bags
<1>2. /\ Count(Call("pause"), calls) \in Nat /\ pauses \in Nat
      /\ clicks \in Nat /\ clicks' \in Nat
  BY Counting, Limits DEF Inv, Types, Counters, Bags
<1>3. /\ c = Call("pause") => Count(Call("pause"), calls') = Count(Call("pause"), calls) + 1
      /\ c # Call("pause") => Count(Call("pause"), calls') = Count(Call("pause"), calls)
  BY PutIn DEF Inv, Types, Bags
<1>4. pauses' + Count(Call("pause"), calls') <= clicks'
  BY <1>2, <1>3 DEF Inv, Bounded
<1>5. Bounded'
  BY <1>4 DEF Inv, Bounded
<1>6. Fresh'
  BY <1>1 DEF Inv, Fresh
<1> QED
  BY <1>1, <1>5, <1>6 DEF Inv, Types, Bags

\* An answer arrives: it is shown, or the retry that waited for it is made.
LEMMA AnsweredStep ==
  ASSUME Inv, NEW q \in BagToSet(asks), Answered(q)
  PROVE  Inv'
<1>1. /\ IsABag(asks') /\ BagToSet(asks') \subseteq BagToSet(asks) /\ open /\ open'
      /\ UNCHANGED <<task, pauses, events, faults, clicks, open, closing, handling>>
  BY TakenOut, FirstBags DEF Answered, engine, Inv, Types, Bags
<1>2. /\ q \in Questions /\ q.seen \in Nat /\ q.seen <= pauses /\ pauses \in Nat
      /\ clicks \in Nat /\ clicks \in 0..MaxClicks /\ clicks <= clicks
      /\ Count(Call("pause"), calls) \in Nat
  BY Limits, Counting DEF Inv, Types, Counters, Bags, Bounded, Questions
<1>3. /\ shown' \in Shown /\ attempts' \in 0..MaxRetries
      /\ listening' \in BOOLEAN /\ leaving' \in BOOLEAN /\ timer' \in BOOLEAN
  <2>1. /\ listening' = (listening \/ q.for = "init")
        /\ q.value \in Status \cup {"sent", "none"} /\ q.value # "sent"
    BY <1>2 DEF Answered, Questions
  <2>2. CASE q.for = "retry"
    BY <2>1, <2>2 DEF Answered, AutoRetry, Inv, Types, Scalars, Counters, Shown
  <2>3. CASE q.for # "retry" /\ q.value = "none"
    BY <2>1, <2>3 DEF Answered, Inv, Types, Scalars, Counters
  <2>4. CASE q.for # "retry" /\ q.value # "none"
    BY <2>1, <2>4, Limits
       DEF Answered, Apply, Completed, Inv, Types, Scalars, Counters, Shown, Status
  <2> QED
    BY <2>2, <2>3, <2>4
<1>4. CASE calls' = calls
  <2>1. Types'
    BY <1>1, <1>3, <1>4 DEF Inv, Types, Scalars, Counters, Bags
  <2>2. Bounded'
    BY <1>1, <1>4 DEF Inv, Bounded
  <2>3. Fresh'
    BY <1>1, <1>4 DEF Inv, Fresh
  <2> QED
    BY <2>1, <2>2, <2>3 DEF Inv
<1>5. CASE q.for = "retry" /\ q.value \notin Settled /\ calls' = Plus(calls, Retry(q.seen))
  <2>1. q.seen = pauses => task # "Paused"
    BY <1>5 DEF Answered, Inv, Fresh
  <2>2. q.seen \in 0..MaxClicks
    <3>1. pauses + Count(Call("pause"), calls) <= clicks /\ MaxClicks \in Nat
      BY Limits DEF Inv, Bounded
    <3> QED
      BY <1>2, <3>1
  <2>3. /\ Retry(q.seen) \in Calls /\ Retry(q.seen).seen = q.seen
        /\ Retry(q.seen) # Call("pause")
    BY <2>2, Commands
  <2>4. IsABag(calls') /\ BagToSet(calls') \subseteq Calls /\ Bounded' /\ Fresh'
    BY <1>1, <1>2, <1>5, <2>1, <2>3, Commanded
  <2>5. Types'
    BY <1>1, <1>3, <2>4 DEF Inv, Types, Scalars, Counters, Bags
  <2> QED
    BY <2>4, <2>5 DEF Inv
<1> QED
  BY <1>4, <1>5 DEF Answered, AutoRetry

\* The user's clicks that command something, and the window that closes by itself.
LEMMA CommandSteps ==
  ASSUME Inv, PauseResume \/ Close \/ CancelDownload \/ Quit
  PROVE  Inv'
<1> USE DEF Inv, Types, Scalars, Counters, Bags, engine
<1>1. /\ \A do \in {"resume", "pause", "cancel"} : Call(do) \in Calls /\ Call(do).do = do
      /\ Call("pause") # Call("resume") /\ Call("pause") # Call("cancel")
  BY ONLY Commands
<1>2. CASE PauseResume \/ CancelDownload
  <2>1. /\ open /\ open' = open /\ asks' = asks
        /\ clicks' = clicks + 1 /\ clicks' \in 0..MaxClicks /\ clicks <= clicks'
        /\ UNCHANGED <<task, pauses, events, faults, handling, listening, leaving>>
    BY <1>2, Limits DEF PauseResume, CancelDownload, Click
  <2>2. PICK do \in {"resume", "pause", "cancel"} : calls' = Plus(calls, Call(do))
    BY <1>2 DEF PauseResume, CancelDownload
  <2>3. IsABag(calls') /\ BagToSet(calls') \subseteq Calls /\ Bounded' /\ Fresh'
    BY <1>1, <2>1, <2>2, Commanded
  <2>4. /\ shown' \in Shown /\ timer' \in BOOLEAN /\ closing' \in BOOLEAN
        /\ attempts' \in 0..MaxRetries
    BY <1>2, Limits DEF PauseResume, CancelDownload, Shown
  <2> QED
    BY <2>1, <2>3, <2>4
<1>3. CASE Close
  <2>1. /\ open /\ open' = open /\ asks' = asks
        /\ clicks' = clicks + 1 /\ clicks' \in 0..MaxClicks /\ clicks <= clicks'
        /\ UNCHANGED <<task, pauses, events, faults, handling, listening, shown, attempts>>
        /\ closing' = TRUE /\ timer' = FALSE /\ leaving' = TRUE
    BY <1>3, Limits DEF Close, Click
  <2>2. CASE calls' = Plus(calls, Call("pause"))
    <3>1. IsABag(calls') /\ BagToSet(calls') \subseteq Calls /\ Bounded' /\ Fresh'
      BY <1>1, <2>1, <2>2, Commanded
    <3> QED
      BY <2>1, <3>1
  <2>3. CASE calls' = calls
    <3>1. Bounded' /\ Fresh'
      BY <2>1, <2>3, Unasked DEF Bounded
    <3> QED
      BY <2>1, <2>3, <3>1
  <2> QED
    BY <1>3, <2>2, <2>3 DEF Close
<1>4. CASE Quit
  <2>1. Shut /\ UNCHANGED <<task, pauses, events, faults, calls, clicks>>
    BY <1>4 DEF Quit
  <2>2. /\ ~open' /\ ~timer' /\ asks' = EmptyBag /\ handling' = EmptyBag
        /\ IsABag(asks') /\ BagToSet(asks') = {} /\ IsABag(handling')
        /\ BagToSet(handling') \subseteq Error
        /\ Scalars' /\ shown' \in Shown /\ attempts' = attempts
    BY <2>1, Shutting
  <2>3. Types'
    BY <2>1, <2>2
  <2>4. Bounded' /\ Fresh'
    BY <2>1, <2>2 DEF Bounded, Fresh, Count, Has
  <2> QED
    BY <2>3, <2>4
<1> QED
  BY <1>2, <1>3, <1>4

\* Every step keeps the invariant.
LEMMA InvStep == Inv /\ [Next]_vars => Inv'
<1> SUFFICES ASSUME Inv, [Next]_vars PROVE Inv'
  OBVIOUS
<1>1. CASE Next
  BY <1>1, QuietSteps, ServeStep, MainStep, AskSteps, AnsweredStep, CommandSteps
     DEF Next, Serves, Callback
<1>2. CASE UNCHANGED vars
  BY <1>2 DEF vars, view, Inv, Types, Scalars, Counters, Bags, Bounded, Fresh, Count, Has
<1> QED
  BY <1>1, <1>2

\* Every reachable state has its type, and what is counted is never more than was clicked.
THEOREM ProgressTypeCorrect == Spec => [](TypeOK /\ Bounded)
<1>1. Inv => TypeOK /\ Bounded
  BY TypeParts DEF Inv
<1> QED
  BY <1>1, InvInit, InvStep, PTL DEF Spec

\* A retry the window makes by itself never undoes a pause it has not seen: one whose
\* question was answered after the last pause does not find the task paused when the
\* engine serves it (handleRetryDownload(true) and its look at the task's status).
THEOREM RetryKeepsPause == Spec => []PauseHolds
<1>1. Inv => PauseHolds
  BY TypeParts DEF Inv, PauseHolds, Fresh
<1> QED
  BY <1>1, InvInit, InvStep, PTL DEF Spec

\* A window that is closing gives no order to download: whatever arrives then, no retry
\* and no resume is added to what is under way (isCanceledOrClosingRef).
THEOREM ClosingIsQuiet == Spec => ClosedIsQuiet
<1> DEFINE More(c) == Count(c, calls') <= Count(c, calls)
           Quiet == closing => \A c \in BagToSet(calls') : c.do \in {"resume", "retry"} => More(c)
<1>1. Inv /\ [Next]_vars => [Quiet]_vars
  <2> SUFFICES ASSUME Inv, Next, closing,
                      NEW c \in BagToSet(calls'), c.do \in {"resume", "retry"}
               PROVE  Count(c, calls') <= Count(c, calls)
    OBVIOUS
  <2>1. IsABag(calls) /\ BagToSet(calls) \subseteq Calls /\ Count(c, calls) \in Nat
    BY Counting DEF Inv, Types, Bags
  <2>2. CASE calls' = calls
    BY <2>1, <2>2
  <2>3. ASSUME NEW d, calls' = Minus(calls, d), d \in BagToSet(calls)
        PROVE  Count(c, calls') <= Count(c, calls)
    BY <2>1, <2>3, TakenOut
  <2>4. ASSUME NEW do \in {"pause", "cancel"}, calls' = Plus(calls, Call(do))
        PROVE  Count(c, calls') <= Count(c, calls)
    <3>1. c # Call(do)
      BY Commands
    <3> QED
      BY <2>1, <2>4, <3>1, PutIn
  <2>5. CASE PauseResume
    BY <2>5 DEF PauseResume
  <2>6. ASSUME NEW q \in BagToSet(asks), Answered(q)
        PROVE  calls' = calls
    BY <2>6 DEF Answered, AutoRetry
  <2>7. CASE Close \/ CancelDownload
    BY <2>2, <2>4, <2>7 DEF Close, CancelDownload
  <2>8. ASSUME NEW d \in BagToSet(calls), Serve(d)
        PROVE  calls' = Minus(calls, d)
    BY <2>8 DEF Serve
  <2> QED
    BY <2>2, <2>3, <2>5, <2>6, <2>7, <2>8
       DEF Next, Serves, Callback, EngineMoves, EngineFinishes, EngineFails, MainWindow,
           OnEvent, OnError, ErrorHandled, Answer, RetryTimer, Poll, Quit, ThreadCountChange
<1>2. Spec => [][Quiet]_vars
  BY <1>1, InvInit, InvStep, PTL DEF Spec
<1> QED
  BY <1>2 DEF ClosedIsQuiet
=============================================================================
