--------------------------- MODULE BootFlowProofs ---------------------------
(***************************************************************************)
(* Proofs about BootFlow, for every set of configurations, every machine,  *)
(* every length of a second and every size of the keyboard queue.          *)
(***************************************************************************)
EXTENDS BootFlow, FiniteSetTheorems, TLAPS

-----------------------------------------------------------------------------
(* Type correctness *)

(* What the keyboard queue may become. *)
LEMMA QueueOperations ==
    /\ <<>> \in KeyQueue
    /\ \A q \in KeyQueue : q # <<>> => Tail(q) \in KeyQueue
    /\ \A q \in KeyQueue, k \in Keys, f \in BOOLEAN :
          Append(q, [key |-> k, fresh |-> f]) \in KeyQueue
    /\ \A k \in Keys, f \in BOOLEAN : <<[key |-> k, fresh |-> f]>> \in KeyQueue
  <1> DEFINE K == [key : Keys, fresh : BOOLEAN]
  <1>1. \A k \in Keys, f \in BOOLEAN : [key |-> k, fresh |-> f] \in K
    OBVIOUS
  <1> HIDE DEF K
  <1>2. /\ <<>> \in Seq(K)
        /\ \A q \in Seq(K) : q # <<>> => Tail(q) \in Seq(K)
        /\ \A q \in Seq(K), e \in K : Append(q, e) \in Seq(K) /\ <<e>> \in Seq(K)
    OBVIOUS
  <1> QED
    BY <1>1, <1>2 DEF KeyQueue, K

(* Painting a screen relabels the queued keystrokes and loses none. *)
LEMMA PaintKeepsQueue ==
    ASSUME NEW s \in Screens, NEW keys \in KeyQueue, Paint(s, keys)
    PROVE  /\ screen' \in Screens
           /\ queue' \in KeyQueue
           /\ Len(queue') = Len(keys)
           /\ \A i \in DOMAIN queue' : queue'[i].fresh = FALSE
  <1> DEFINE K == [key : Keys, fresh : BOOLEAN]
             relabel(e) == [e EXCEPT !.fresh = FALSE]
  <1>1. \A e \in K : relabel(e) \in K /\ relabel(e).fresh = FALSE
    OBVIOUS
  <1>2. keys \in Seq(K)
    BY DEF KeyQueue
  <1>3. queue' = [i \in DOMAIN keys |-> relabel(keys[i])]
    BY DEF Paint
  <1> HIDE DEF K, relabel
  <1>4. DOMAIN keys = 1 .. Len(keys) /\ Len(keys) \in Nat
    BY <1>2
  <1>5. \A i \in 1 .. Len(keys) : keys[i] \in K
    BY <1>2
  <1>6. queue' \in Seq(K) /\ Len(queue') = Len(keys)
    BY <1>1, <1>3, <1>4, <1>5
  <1>7. \A i \in DOMAIN queue' : queue'[i].fresh = FALSE
    BY <1>1, <1>3, <1>4, <1>5
  <1> QED
    BY <1>6, <1>7 DEF Paint, KeyQueue, K

(* The control points are control points. *)
LEMMA ControlPoints ==
    \A p \in {"scan", "find", "render", "drain", "poll", "quiet", "headless",
              "poweroff", "boot", "chainload", "windows", "off", "os"} :
        p \in Control
  BY DEF Control, Waiting, Looking, Gone

(* The types of the variables a wait owns. *)
WaitTypes ==
    /\ useTimeout \in BOOLEAN
    /\ remaining \in Nat
    /\ ticks \in Nat
    /\ drained \in 0 .. DrainLimit
    /\ waited \in Nat

(* Entering a wait keeps the types of its locals. *)
LEMMA BeginWaitTypes ==
    ASSUME NEW timeout \in BOOLEAN, NEW seconds \in Nat,
           BeginWait(timeout, seconds)
    PROVE  WaitTypes' /\ pc' \in Control
  BY DrainAssumption, ControlPoints DEF BeginWait, WaitTypes

(* So does leaving one. *)
LEMMA EndWaitTypes ==
    ASSUME NEW spent \in Nat, EndWait(spent)
    PROVE  WaitTypes'
  <1>1. drained' \in 0 .. DrainLimit
    BY DrainAssumption DEF EndWait
  <1>2. useTimeout' \in BOOLEAN
    BY DEF EndWait
  <1>3. remaining' \in Nat /\ ticks' \in Nat /\ waited' \in Nat
    BY DEF EndWait
  <1> QED
    BY <1>1, <1>2, <1>3 DEF WaitTypes

(* So does counting one poll. *)
LEMMA CountTickTypes ==
    ASSUME TypeOK, CountTick
    PROVE  remaining' \in Nat /\ ticks' \in Nat /\ waited' \in Nat
  <1>1. remaining \in Nat /\ ticks \in Nat /\ waited \in Nat
    BY DEF TypeOK
  <1> QED
    BY <1>1, TicksAssumption DEF CountTick

(* So does putting up the error screen. *)
LEMMA BootErrorTypes ==
    ASSUME TypeOK, ShowBootError
    PROVE  WaitTypes' /\ pc' \in Control /\ screen' \in Screens /\ queue' \in KeyQueue
  <1>1. queue \in KeyQueue /\ "error" \in Screens
    BY DEF TypeOK, Screens
  <1> QED
    BY <1>1, PaintKeepsQueue, BeginWaitTypes DEF ShowBootError

(* Taking a keystroke keeps the types of what it touches. *)
LEMMA TakeTypes ==
    ASSUME TypeOK, NEW ss, NEW k, Take(ss, k)
    PROVE  /\ Tail(queue) \in KeyQueue
           /\ touched' \in BOOLEAN
           /\ owesKey' \in BOOLEAN
  BY QueueOperations DEF Take, TypeOK

(* The entry state is typed. *)
LEMMA InitTypes == Init => TypeOK
  <1> SUFFICES ASSUME Init PROVE TypeOK
    OBVIOUS
  <1>1. queue \in KeyQueue
    BY QueueOperations DEF Init
  <1>2. WaitTypes
    <2>1. drained \in 0 .. DrainLimit
      BY DrainAssumption DEF Init
    <2>2. useTimeout \in BOOLEAN
      BY DEF Init
    <2>3. remaining \in Nat /\ ticks \in Nat /\ waited \in Nat
      BY DEF Init
    <2> QED
      BY <2>1, <2>2, <2>3 DEF WaitTypes
  <1>3. pc \in Control /\ screen \in Screens
    BY ControlPoints DEF Init, Screens
  <1>4. /\ targetPresent \in BOOLEAN /\ targetFound \in BOOLEAN
        /\ attempted \in BOOLEAN /\ touched \in BOOLEAN /\ owesKey \in BOOLEAN
    BY DEF Init
  <1>5. page \in Nat /\ launches \in 0 .. 2
    BY DEF Init
  <1> QED
    BY <1>1, <1>2, <1>3, <1>4, <1>5 DEF Init, TypeOK, WaitTypes

(* Every variable keeps its type, whatever the operator and Windows do. *)
LEMMA StepTypes == TypeOK /\ [Next]_vars => TypeOK'
  <1> SUFFICES ASSUME TypeOK, [Next]_vars PROVE TypeOK'
    OBVIOUS
  <1> USE ControlPoints DEF TypeOK, WaitTypes, fixed, scanned, waitvars
  <1>1. CASE GpuScanPci
    <2>1. results' \in SUBSET Adapters
      BY <1>1 DEF GpuScanPci, Adapters
    <2>2. targetPresent' \in BOOLEAN
      BY <1>1 DEF GpuScanPci, Verdict
    <2> QED
      BY <1>1, <2>1, <2>2 DEF GpuScanPci
  <1>2. CASE FindLoader
    BY <1>2 DEF FindLoader
  <1>3. CASE Render
    <2>1. page' \in Nat
      BY <1>3 DEF Render, PageShown
    <2>2. WillAutoboot \in BOOLEAN /\ config.delay \in Nat
      BY ConfigsAssumption DEF WillAutoboot
    <2>3. WaitTypes' /\ pc' \in Control
      BY <1>3, <2>2, BeginWaitTypes DEF Render
    <2>4. queue' \in KeyQueue /\ screen' \in Screens
      BY <1>3, PaintKeepsQueue DEF Render, Screens
    <2> QED
      BY <1>3, <2>1, <2>3, <2>4 DEF Render
  <1>4. CASE DrainKey
    BY <1>4, QueueOperations, DrainAssumption DEF DrainKey, MoreToDrain
  <1>5. CASE DrainDone
    BY <1>5 DEF DrainDone
  <1>6. CASE KeyDetails
    <2>1. Tail(queue) \in KeyQueue /\ touched' \in BOOLEAN /\ owesKey' \in BOOLEAN
      BY <1>6, TakeTypes DEF KeyDetails
    <2>2. queue' \in KeyQueue /\ screen' \in Screens
      BY <1>6, <2>1, PaintKeepsQueue DEF KeyDetails, Screens
    <2>3. WaitTypes' /\ pc' \in Control
      BY <1>6, BeginWaitTypes DEF KeyDetails
    <2> QED
      BY <1>6, <2>1, <2>2, <2>3 DEF KeyDetails
  <1>7. CASE KeyBoot
    <2>1. queue' \in KeyQueue /\ touched' \in BOOLEAN /\ owesKey' \in BOOLEAN
      BY <1>7, TakeTypes DEF KeyBoot
    <2>2. WaitTypes'
      BY <1>7, EndWaitTypes DEF KeyBoot
    <2> QED
      BY <1>7, <2>1, <2>2 DEF KeyBoot
  <1>8. CASE KeyRescan
    <2>1. queue' \in KeyQueue /\ touched' \in BOOLEAN /\ owesKey' \in BOOLEAN
      BY <1>8, TakeTypes DEF KeyRescan
    <2>2. WaitTypes'
      BY <1>8, EndWaitTypes DEF KeyRescan
    <2> QED
      BY <1>8, <2>1, <2>2 DEF KeyRescan
  <1>9. CASE KeyPowerOff
    <2>1. queue' \in KeyQueue /\ touched' \in BOOLEAN /\ owesKey' \in BOOLEAN
      BY <1>9, TakeTypes DEF KeyPowerOff
    <2>2. WaitTypes'
      BY <1>9, EndWaitTypes DEF KeyPowerOff
    <2> QED
      BY <1>9, <2>1, <2>2 DEF KeyPowerOff
  <1>10. CASE KeyNextPage
    <2>1. queue' \in KeyQueue /\ touched' \in BOOLEAN /\ owesKey' \in BOOLEAN
      BY <1>10, TakeTypes DEF KeyNextPage
    <2>2. WaitTypes'
      BY <1>10, EndWaitTypes DEF KeyNextPage
    <2> QED
      BY <1>10, <2>1, <2>2 DEF KeyNextPage
  <1>11. CASE KeyReturns
    <2>1. queue' \in KeyQueue /\ touched' \in BOOLEAN /\ owesKey' \in BOOLEAN
      BY <1>11, TakeTypes DEF KeyReturns
    <2>2. WaitTypes'
      BY <1>11, EndWaitTypes DEF KeyReturns
    <2> QED
      BY <1>11, <2>1, <2>2 DEF KeyReturns
  <1>12. CASE KeyOther
    <2>1. queue' \in KeyQueue /\ touched' \in BOOLEAN /\ owesKey' \in BOOLEAN
      BY <1>12, TakeTypes DEF KeyOther
    <2> QED
      BY <1>12, <2>1 DEF KeyOther
  <1>13. CASE KeyIgnoredByError
    <2>1. queue' \in KeyQueue /\ touched' \in BOOLEAN /\ owesKey' \in BOOLEAN
      BY <1>13, TakeTypes DEF KeyIgnoredByError
    <2>2. WaitTypes' /\ pc' \in Control
      BY <1>13, BeginWaitTypes DEF KeyIgnoredByError
    <2> QED
      BY <1>13, <2>1, <2>2 DEF KeyIgnoredByError
  <1>14. CASE NoKey
    BY <1>14 DEF NoKey
  <1>15. CASE Expire
    <2>1. WaitTypes'
      BY <1>15, EndWaitTypes DEF Expire
    <2> QED
      BY <1>15, <2>1 DEF Expire
  <1>16. CASE HeadlessBoot
    <2>1. WaitTypes'
      BY <1>16, EndWaitTypes DEF HeadlessBoot
    <2> QED
      BY <1>16, <2>1 DEF HeadlessBoot
  <1>17. CASE Tick
    <2>1. remaining' \in Nat /\ ticks' \in Nat /\ waited' \in Nat
      BY <1>17, CountTickTypes DEF Tick
    <2> QED
      BY <1>17, <2>1 DEF Tick
  <1>18. CASE HeadlessTick
    <2>1. remaining' \in Nat /\ waited' \in Nat
      BY <1>18, TicksAssumption DEF HeadlessTick
    <2> QED
      BY <1>18, <2>1 DEF HeadlessTick
  <1>19. CASE PowerOffHonoured
    BY <1>19 DEF PowerOffHonoured
  <1>20. CASE PowerOffRefused
    <2>1. queue' \in KeyQueue /\ screen' \in Screens
      BY <1>20, PaintKeepsQueue DEF PowerOffRefused, Screens
    <2>2. WaitTypes' /\ pc' \in Control
      BY <1>20, BeginWaitTypes DEF PowerOffRefused
    <2> QED
      BY <1>20, <2>1, <2>2 DEF PowerOffRefused
  <1>21. CASE BootNotFound \/ ChainloadFails \/ LoaderFails
    <2>1. WaitTypes' /\ pc' \in Control /\ screen' \in Screens /\ queue' \in KeyQueue
      BY <1>21, BootErrorTypes DEF BootNotFound, ChainloadFails, LoaderFails
    <2> QED
      BY <1>21, <2>1 DEF BootNotFound, ChainloadFails, LoaderFails
  <1>22. CASE BootChainload
    BY <1>22 DEF BootChainload
  <1>23. CASE ChainloadStarts
    BY <1>23 DEF ChainloadStarts
  <1>24. CASE LoaderReturns
    BY <1>24 DEF LoaderReturns
  <1>25. CASE Type
    BY <1>25, QueueOperations DEF Type
  <1>26. CASE LoaderReadsKey
    BY <1>26, QueueOperations DEF LoaderReadsKey
  <1>27. CASE LoaderBootsWindows
    BY <1>27 DEF LoaderBootsWindows
  <1>28. CASE UNCHANGED vars
    BY <1>28 DEF vars
  <1> QED
    BY <1>1, <1>2, <1>3, <1>4, <1>5, <1>6, <1>7, <1>8, <1>9, <1>10,
       <1>11, <1>12, <1>13, <1>14, <1>15, <1>16, <1>17, <1>18, <1>19,
       <1>20, <1>21, <1>22, <1>23, <1>24, <1>25, <1>26, <1>27, <1>28
       DEF Next, Program, Environment, TakeKey, Finished, HeadlessHalt

(* Spec implies that every variable has its type for ever. *)
THEOREM TypeCorrect == Spec => []TypeOK
  BY InitTypes, StepTypes, PTL DEF Spec

-----------------------------------------------------------------------------
(* No stale answers *)

(* What Tail and Append do to the keystrokes they keep. *)
LEMMA QueueShape ==
    /\ \A q \in KeyQueue : Len(q) \in Nat /\ DOMAIN q = 1 .. Len(q)
    /\ \A q \in KeyQueue : q # <<>> =>
          /\ Len(q) > 0 /\ Len(Tail(q)) = Len(q) - 1
          /\ \A i \in DOMAIN Tail(q) : i + 1 \in DOMAIN q /\ Tail(q)[i] = q[i + 1]
    /\ \A q \in KeyQueue, e \in [key : Keys, fresh : BOOLEAN] :
          /\ Len(Append(q, e)) = Len(q) + 1
          /\ \A i \in DOMAIN Append(q, e) :
                Append(q, e)[i] = IF i = Len(q) + 1 THEN e ELSE q[i]
  <1> DEFINE K == [key : Keys, fresh : BOOLEAN]
  <1> HIDE DEF K
  <1>1. \A q \in Seq(K) : Len(q) \in Nat /\ DOMAIN q = 1 .. Len(q)
    OBVIOUS
  <1>2. \A q \in Seq(K) : q # <<>> =>
          /\ Len(q) > 0 /\ Len(Tail(q)) = Len(q) - 1
          /\ \A i \in DOMAIN Tail(q) : i + 1 \in DOMAIN q /\ Tail(q)[i] = q[i + 1]
    OBVIOUS
  <1>3. \A q \in Seq(K), e \in K :
          /\ Len(Append(q, e)) = Len(q) + 1
          /\ \A i \in DOMAIN Append(q, e) :
                Append(q, e)[i] = IF i = Len(q) + 1 THEN e ELSE q[i]
    OBVIOUS
  <1> QED
    BY <1>1, <1>2, <1>3 DEF KeyQueue, K

(* While a wait drains the queue, what is left of the old keystrokes lies  *)
(* within what DrainKeystrokes may still discard.                          *)
QueueInv ==
    /\ Len(queue) =< KeyBuffer
    /\ pc = "drain" => \A i \in DOMAIN queue :
                          ~queue[i].fresh => i =< DrainLimit - drained
    /\ NoStaleAnswer

(* A fresh screen starts its wait with a queue that can be drained. *)
LEMMA PaintQueue ==
    ASSUME TypeOK, QueueInv, NEW s \in Screens, NEW keys \in KeyQueue,
           Len(keys) =< KeyBuffer, Paint(s, keys), pc' = "drain", drained' = 0
    PROVE  QueueInv'
  <1>1. queue' \in KeyQueue /\ Len(queue') =< KeyBuffer
    BY PaintKeepsQueue
  <1>2. \A i \in DOMAIN queue' : i =< DrainLimit
    BY <1>1, QueueShape, DrainAssumption
  <1> QED
    BY <1>1, <1>2, DrainAssumption DEF QueueInv, NoStaleAnswer

(* Taking a keystroke while polling leaves the queue all fresh. *)
LEMMA TakeQueue ==
    ASSUME TypeOK, QueueInv, NEW ss, NEW k, Take(ss, k)
    PROVE  /\ Tail(queue) \in KeyQueue
           /\ Len(Tail(queue)) =< KeyBuffer
           /\ \A i \in DOMAIN Tail(queue) : Tail(queue)[i].fresh
           /\ Head(queue).fresh
  <1>1. queue \in KeyQueue /\ queue # <<>> /\ pc = "poll"
    BY DEF TypeOK, Take
  <1>2. 1 \in DOMAIN queue /\ Head(queue) = queue[1]
    BY <1>1, QueueShape
  <1> QED
    BY <1>1, <1>2, QueueShape, QueueOperations, DrainAssumption
       DEF QueueInv, NoStaleAnswer

(* Every step keeps the queue discipline. *)
LEMMA StepQueue == TypeOK /\ QueueInv /\ [Next]_vars => QueueInv'
  <1> SUFFICES ASSUME TypeOK, QueueInv, [Next]_vars PROVE QueueInv'
    OBVIOUS
  <1> USE DEF QueueInv, NoStaleAnswer
  <1>0. queue \in KeyQueue /\ drained \in 0 .. DrainLimit /\ Len(queue) \in Nat
    BY QueueShape DEF TypeOK
  <1>1. CASE Render \/ PowerOffRefused \/ BootNotFound \/ ChainloadFails \/ LoaderFails
    <2>1. \E s \in Screens : Paint(s, queue)
      BY <1>1 DEF Render, PowerOffRefused, BootNotFound, ChainloadFails,
         LoaderFails, ShowBootError, Screens
    <2>2. pc' = "drain" /\ drained' = 0
      BY <1>1 DEF Render, PowerOffRefused, BootNotFound, ChainloadFails,
         LoaderFails, ShowBootError, BeginWait
    <2> QED
      BY <1>0, <2>1, <2>2, PaintQueue
  <1>2. CASE KeyDetails
    BY <1>2, TakeQueue, PaintQueue DEF KeyDetails, BeginWait, Screens
  <1>3. CASE KeyBoot \/ KeyRescan \/ KeyPowerOff \/ KeyNextPage \/ KeyReturns
    BY <1>3, TakeQueue DEF KeyBoot, KeyRescan, KeyPowerOff, KeyNextPage, KeyReturns
  <1>4. CASE KeyOther
    BY <1>4, TakeQueue DEF KeyOther, Take
  <1>5. CASE KeyIgnoredByError
    BY <1>5, TakeQueue, QueueShape, DrainAssumption DEF KeyIgnoredByError, BeginWait
  <1>6. CASE DrainKey
    <2>1. queue # <<>> /\ queue' = Tail(queue) /\ drained' = drained + 1
      BY <1>6 DEF DrainKey, MoreToDrain
    <2>2. Len(queue') =< KeyBuffer
      BY <1>0, <2>1, QueueShape, DrainAssumption
    <2>3. \A i \in DOMAIN queue' : ~queue'[i].fresh => i =< DrainLimit - drained'
      BY <1>0, <1>6, <2>1, QueueShape, QueueOperations, DrainAssumption DEF DrainKey
    <2> QED
      BY <1>6, <2>2, <2>3 DEF DrainKey
  <1>7. CASE DrainDone
    <2>1. conIn => \A i \in DOMAIN queue : queue[i].fresh
      BY <1>0, <1>7, QueueShape, DrainAssumption DEF DrainDone, MoreToDrain
    <2> QED
      BY <1>7, <2>1 DEF DrainDone
  <1>8. CASE Type
    <2>1. PICK k \in Keys : queue' = Append(queue, [key |-> k, fresh |-> TRUE])
      BY <1>8 DEF Type
    <2>2. [key |-> k, fresh |-> TRUE] \in [key : Keys, fresh : BOOLEAN]
      OBVIOUS
    <2> DEFINE e == [key |-> k, fresh |-> TRUE]
    <2>3. e \in [key : Keys, fresh : BOOLEAN] /\ e.fresh /\ queue' = Append(queue, e)
      BY <2>1, <2>2
    <2> HIDE DEF e
    <2>4. Len(queue') = Len(queue) + 1 /\ queue' \in KeyQueue
      BY <1>0, <2>1, <2>3, QueueShape, QueueOperations
    <2>5. \A i \in DOMAIN queue' : queue'[i].fresh \/ (i \in DOMAIN queue /\ queue'[i] = queue[i])
      BY <1>0, <2>3, <2>4, QueueShape
    <2>6. Len(queue') =< KeyBuffer
      BY <1>0, <1>8, <2>4, DrainAssumption DEF Type
    <2> QED
      BY <1>8, <2>5, <2>6 DEF Type, waitvars
  <1>9. CASE LoaderReadsKey
    <2>1. Len(queue') =< KeyBuffer
      BY <1>0, <1>9, QueueShape, DrainAssumption DEF LoaderReadsKey
    <2> QED
      BY <1>9, <2>1 DEF LoaderReadsKey
  <1>10. CASE NoKey \/ Tick
    BY <1>10 DEF NoKey, Tick
  <1>11. CASE \/ GpuScanPci \/ FindLoader \/ Expire \/ HeadlessTick \/ HeadlessBoot
              \/ PowerOffHonoured \/ BootChainload \/ ChainloadStarts
              \/ LoaderReturns \/ LoaderBootsWindows
    BY <1>11 DEF GpuScanPci, FindLoader, Expire, HeadlessTick, HeadlessBoot,
       PowerOffHonoured, BootChainload, ChainloadStarts, LoaderReturns,
       LoaderBootsWindows
  <1>12. CASE UNCHANGED vars
    BY <1>12 DEF vars, waitvars
  <1> QED
    BY <1>1, <1>2, <1>3, <1>4, <1>5, <1>6, <1>7, <1>8, <1>9, <1>10, <1>11, <1>12
       DEF Next, Program, Environment, TakeKey, Finished, HeadlessHalt

(* The entry state has it: a key held during POST fits in the queue. *)
LEMMA InitQueue == Init => QueueInv
  <1> SUFFICES ASSUME Init PROVE QueueInv
    OBVIOUS
  <1>1. pc = "scan"
    BY DEF Init
  <1>2. CASE queue = <<>>
    <2>1. Len(queue) = 0
      BY <1>2
    <2> QED
      BY <1>1, <2>1, DrainAssumption DEF QueueInv, NoStaleAnswer
  <1>3. CASE KeyBuffer > 0 /\ \E e \in [key : Keys, fresh : BOOLEAN] : queue = <<e>>
    <2>1. Len(queue) = 1
      BY <1>3
    <2> QED
      BY <1>1, <1>3, <2>1, DrainAssumption DEF QueueInv, NoStaleAnswer
  <1>4. queue = <<>> \/ \E k \in Keys : KeyBuffer > 0 /\ queue = <<[key |-> k, fresh |-> FALSE]>>
    BY DEF Init
  <1>5. \A k \in Keys : [key |-> k, fresh |-> FALSE] \in [key : Keys, fresh : BOOLEAN]
    OBVIOUS
  <1> QED
    BY <1>2, <1>3, <1>4, <1>5

(* A key is only ever taken as the answer to the screen it was typed at:   *)
(* true for every queue the firmware can have, as long as one              *)
(* DrainKeystrokes can discard all of it.                                  *)
THEOREM AnswersAreFresh == Spec => []NoStaleAnswer
<1>1. QueueInv => NoStaleAnswer
  BY DEF QueueInv
<1> QED
  BY <1>1, InitQueue, TypeCorrect, StepQueue, PTL DEF Spec

-----------------------------------------------------------------------------
(* What the control of the loop relies on *)

(* A countdown only runs on the main screen, untouched, where WillAutoboot *)
(* holds; what ended it is remembered until the next scan.                 *)
ControlInv ==
    /\ targetPresent = Verdict(results, config)
    /\ pc \in Waiting /\ useTimeout =>
          screen = "main" /\ WillAutoboot /\ ~touched
    /\ pc \in Waiting /\ screen = "main" => cause = "none"
    /\ pc \in {"boot", "chainload", "windows"} /\ cause = "timeout" =>
          config.autoboot /\ (targetPresent \/ ~config.halt)
    /\ pc = "boot" => cause # "none"
    /\ pc = "boot" /\ cause = "timeout" => ~attempted /\ ~touched
    /\ launches > 0 => attempted
    /\ pc \in Waiting => screen # "none"
    /\ owesKey => pc \in Waiting /\ screen = "refused"

(* The entry state satisfies ControlInv. *)
LEMMA InitControl == Init => ControlInv
  <1> SUFFICES ASSUME Init PROVE ControlInv
    OBVIOUS
  <1>1. targetPresent = Verdict(results, config)
    BY DEF Init, Verdict
  <1>2. pc \notin Waiting /\ pc = "scan"
    BY DEF Init, Waiting
  <1>3. launches = 0 /\ ~owesKey
    BY DEF Init
  <1> QED
    BY <1>1, <1>2, <1>3 DEF ControlInv

(* Every step keeps it; it leans on the queue discipline, since a stale    *)
(* key would leave the message of a refused shutdown unacknowledged.       *)
LEMMA StepControl == TypeOK /\ QueueInv /\ ControlInv /\ [Next]_vars => ControlInv'
  <1> SUFFICES ASSUME TypeOK, QueueInv, ControlInv, [Next]_vars PROVE ControlInv'
    OBVIOUS
  <1> USE DEF ControlInv, WillAutoboot, Waiting, fixed, scanned, waitvars
  <1>0. /\ launches \in 0 .. 2
        /\ useTimeout \in BOOLEAN /\ attempted \in BOOLEAN
        /\ touched \in BOOLEAN /\ owesKey \in BOOLEAN
    BY DEF TypeOK
  <1>1. CASE GpuScanPci
    BY <1>1 DEF GpuScanPci
  <1>2. CASE FindLoader
    BY <1>2 DEF FindLoader
  <1>3. CASE Render
    BY <1>3 DEF Render, BeginWait, Paint
  <1>4. CASE DrainKey \/ DrainDone \/ NoKey
    BY <1>4 DEF DrainKey, DrainDone, NoKey
  <1>5. CASE KeyDetails
    BY <1>5, TakeQueue DEF KeyDetails, Take, Paint, BeginWait
  <1>6. CASE KeyBoot
    BY <1>6, TakeQueue DEF KeyBoot, Take, EndWait
  <1>7. CASE KeyRescan \/ KeyPowerOff \/ KeyNextPage \/ KeyReturns
    BY <1>7, TakeQueue DEF KeyRescan, KeyPowerOff, KeyNextPage, KeyReturns, Take, EndWait
  <1>8. CASE KeyOther
    BY <1>8, TakeQueue DEF KeyOther, Take
  <1>9. CASE KeyIgnoredByError
    BY <1>9, TakeQueue DEF KeyIgnoredByError, Take, BeginWait
  <1>10. CASE Expire \/ HeadlessBoot
    BY <1>10 DEF Expire, HeadlessBoot, EndWait
  <1>11. CASE Tick \/ HeadlessTick
    BY <1>11 DEF Tick, CountTick, HeadlessTick
  <1>12. CASE PowerOffHonoured
    BY <1>12 DEF PowerOffHonoured
  <1>13. CASE PowerOffRefused
    BY <1>13 DEF PowerOffRefused, Paint, BeginWait
  <1>14. CASE BootNotFound \/ ChainloadFails \/ LoaderFails
    BY <1>14 DEF BootNotFound, ChainloadFails, LoaderFails, ShowBootError, Paint, BeginWait
  <1>15. CASE BootChainload
    BY <1>0, <1>15 DEF BootChainload
  <1>16. CASE ChainloadStarts \/ LoaderReturns \/ LoaderBootsWindows
    BY <1>16 DEF ChainloadStarts, LoaderReturns, LoaderBootsWindows
  <1>17. CASE Type \/ LoaderReadsKey
    BY <1>17 DEF Type, LoaderReadsKey
  <1>18. CASE UNCHANGED vars
    BY <1>18 DEF vars
  <1> QED
    BY <1>1, <1>2, <1>3, <1>4, <1>5, <1>6, <1>7, <1>8, <1>9, <1>10, <1>11,
       <1>12, <1>13, <1>14, <1>15, <1>16, <1>17, <1>18
       DEF Next, Program, Environment, TakeKey, Finished, HeadlessHalt

(* The three invariants together hold for ever. *)
LEMMA ControlCorrect == Spec => [](TypeOK /\ QueueInv /\ ControlInv)
<1>1. Init => QueueInv
  BY InitQueue
<1> QED
  BY <1>1, TypeCorrect, InitControl, StepQueue, StepControl, PTL DEF Spec

(* The promise of the README, for every configuration and every machine:   *)
(* an unattended boot needs what the scan on the screen was to find.       *)
THEOREM NeverBootsAloneWhenMissing == Spec => []NoUnattendedBootWhenMissing
<1>1. ControlInv => NoUnattendedBootWhenMissing
  BY DEF ControlInv, NoUnattendedBootWhenMissing
<1> QED
  BY <1>1, ControlCorrect, PTL

(* A keystroke taken on a screen rules out the boot of its countdown. *)
THEOREM TouchPreventsBoot == Spec => []TouchedScreenNeverBoots
<1>1. ControlInv => TouchedScreenNeverBoots
  BY DEF ControlInv, TouchedScreenNeverBoots
<1> QED
  BY <1>1, ControlCorrect, PTL

(* A refused shutdown waits, without a countdown, for a fresh key. *)
THEOREM RefusalIsHeld == Spec => []RefusedShutdownHolds
<1>1. TypeOK /\ ControlInv => RefusedShutdownHolds
  BY DEF TypeOK, ControlInv, RefusedShutdownHolds
<1> QED
  BY <1>1, ControlCorrect, PTL

(* Only the operator launches a loader a second time. *)
THEOREM RelaunchIsAsked == Spec => RelaunchNeedsOperator
<1>1. TypeOK /\ ControlInv /\ [Next]_vars =>
        [pc = "boot" /\ pc' = "chainload" /\ launches > 0 => cause = "key"]_vars
  <2> SUFFICES ASSUME TypeOK, ControlInv, [Next]_vars, pc = "boot",
                      pc' = "chainload", launches > 0
               PROVE  cause = "key"
    OBVIOUS
  <2>1. cause # "timeout"
    BY DEF ControlInv
  <2>2. cause # "none"
    BY DEF ControlInv
  <2> QED
    BY <2>1, <2>2 DEF TypeOK
<1> QED
  BY <1>1, ControlCorrect, PTL DEF Spec, RelaunchNeedsOperator

-----------------------------------------------------------------------------
(* The page on the screen *)

(* A page before the last one, counted from 0, starts inside the list. *)
LEMMA PageStartsInList ==
    ASSUME NEW c \in Nat, NEW p \in Nat, p > 0,
           NEW m \in Nat, m < (c + p - 1) \div p
    PROVE  m * p < c
  <1> DEFINE n == (c + p - 1) \div p
             r == (c + p - 1) % p
  <1>1. n \in Int /\ r \in 0 .. p - 1 /\ c + p - 1 = p * n + r
    OBVIOUS
  <1> HIDE DEF n, r
  <1>2. \A k \in Nat : p * k \in Nat
    OBVIOUS
  <1>3. n - (m + 1) \in Nat
    BY <1>1 DEF n
  <1>4. p * n = p * m + p + p * (n - (m + 1))
    BY <1>1
  <1> QED
    BY <1>1, <1>2, <1>3, <1>4

(* Every page has room for an adapter. *)
LEMMA PagesHaveRoom ==
    ASSUME NEW count \in Nat, NEW notice \in BOOLEAN
    PROVE  PerPage(count, Rows, notice) \in Nat /\ PerPage(count, Rows, notice) > 0
  <1>1. Overhead(count, notice) \in Nat
    BY DEF Overhead
  <1> QED
    BY <1>1, RowsAssumption DEF PerPage, TablePage

(* What a scan finds can be counted. *)
PageInv == IsFiniteSet(results) /\ PageShowsSomething

(* RenderScreen shows a page with an adapter on it if there is one. *)
LEMMA RenderShowsSomething ==
    ASSUME TypeOK, IsFiniteSet(results), results # {}, Render
    PROVE  page' * PerPage(Cardinality(results), Rows, config.notice)
              < Cardinality(results)
  <1> DEFINE c == Cardinality(results)
             p == PerPage(c, Rows, config.notice)
             n == (c + p - 1) \div p
  <1>1. c \in Nat /\ c > 0
    BY FS_CardinalityType, FS_EmptySet
  <1>2. config.notice \in BOOLEAN /\ page \in Nat
    BY ConfigsAssumption DEF TypeOK
  <1>3. p \in Nat /\ p > 0
    BY <1>1, <1>2, PagesHaveRoom
  <1>4. page' = IF page >= (IF n = 0 THEN 1 ELSE n) THEN 0 ELSE page
    BY DEF Render, PageShown, TotalPages
  <1> HIDE DEF c, p
  <1>5. n \in Int
    BY <1>1, <1>3
  <1>6. CASE page' = 0
    BY <1>1, <1>3, <1>6 DEF c, p
  <1>7. CASE page' # 0
    <2>1. page' = page /\ page < n
      BY <1>2, <1>4, <1>5, <1>7
    <2> HIDE DEF n
    <2>2. page * p < c
      BY <1>1, <1>2, <1>3, <2>1, PageStartsInList DEF n
    <2> QED
      BY <2>1, <2>2 DEF c, p
  <1> QED
    BY <1>6, <1>7

(* While a screen waits neither the list nor the page changes under it. *)
LEMMA StepPage == TypeOK /\ PageInv /\ [Next]_vars => PageInv'
  <1> SUFFICES ASSUME TypeOK, PageInv, [Next]_vars PROVE PageInv'
    OBVIOUS
  <1> USE DEF PageInv, PageShowsSomething, Waiting, fixed, scanned, waitvars
  <1>1. CASE GpuScanPci
    BY <1>1, PopulationsAssumption DEF GpuScanPci
  <1>2. CASE Render
    BY <1>2, RenderShowsSomething DEF Render
  <1>3. CASE FindLoader \/ PowerOffHonoured \/ BootChainload \/ ChainloadStarts
               \/ LoaderReturns \/ LoaderBootsWindows
    BY <1>3 DEF FindLoader, PowerOffHonoured, BootChainload, ChainloadStarts,
                LoaderReturns, LoaderBootsWindows
  <1>4. CASE DrainKey \/ DrainDone \/ NoKey \/ Tick \/ HeadlessTick \/ KeyOther
    BY <1>4 DEF DrainKey, DrainDone, NoKey, Tick, HeadlessTick, KeyOther, Take
  <1>5. CASE KeyBoot \/ KeyRescan \/ KeyPowerOff \/ KeyNextPage \/ KeyReturns
    BY <1>5 DEF KeyBoot, KeyRescan, KeyPowerOff, KeyNextPage, KeyReturns
  <1>6. CASE KeyDetails \/ KeyIgnoredByError
    BY <1>6 DEF KeyDetails, KeyIgnoredByError, Take, Paint
  <1>7. CASE Expire \/ HeadlessBoot
    BY <1>7 DEF Expire, HeadlessBoot
  <1>8. CASE PowerOffRefused \/ BootNotFound \/ ChainloadFails \/ LoaderFails
    BY <1>8 DEF PowerOffRefused, BootNotFound, ChainloadFails, LoaderFails,
                ShowBootError, Paint
  <1>9. CASE Type \/ LoaderReadsKey \/ UNCHANGED vars
    BY <1>9 DEF Type, LoaderReadsKey, vars
  <1> QED
    BY <1>1, <1>2, <1>3, <1>4, <1>5, <1>6, <1>7, <1>8, <1>9
       DEF Next, Program, Environment, TakeKey, Finished, HeadlessHalt

(* Whatever the operator turned to and a rescan then found, the page on    *)
(* the screen has an adapter on it whenever there is one.                  *)
THEOREM PageIsNeverEmpty == Spec => []PageShowsSomething
<1>1. Init => PageInv
  BY FS_EmptySet DEF Init, PageInv, PageShowsSomething, Waiting
<1>2. PageInv => PageShowsSomething
  BY DEF PageInv
<1> QED
  BY <1>1, <1>2, TypeCorrect, StepPage, PTL DEF Spec

-----------------------------------------------------------------------------
(* The countdown gives its whole delay *)

(* What was waited and what remains add up to the delay, give or take the  *)
(* second that is running.                                                 *)
CountdownInv ==
    /\ pc \in Waiting /\ useTimeout =>
          /\ waited + remaining * TicksPerSecond
                = config.delay * TicksPerSecond + ticks
          /\ ticks < TicksPerSecond
    /\ FullDelayBeforeBoot

(* Every step keeps the countdown honest. *)
LEMMA StepCountdown ==
    TypeOK /\ ControlInv /\ CountdownInv /\ [Next]_vars => CountdownInv'
  <1> SUFFICES ASSUME TypeOK, ControlInv, CountdownInv, [Next]_vars
               PROVE  CountdownInv'
    OBVIOUS
  <1> USE DEF CountdownInv, FullDelayBeforeBoot, Waiting, fixed, scanned, waitvars
  <1>0. /\ remaining \in Nat /\ ticks \in Nat /\ waited \in Nat
        /\ config.delay \in Nat /\ TicksPerSecond \in Nat \ {0}
    BY ConfigsAssumption, TicksAssumption DEF TypeOK
  <1>1. ASSUME NEW n \in Nat, n > 0
        PROVE  (n - 1) * TicksPerSecond = n * TicksPerSecond - TicksPerSecond
    BY <1>0
  <1>2. CASE Render
    BY <1>0, <1>2 DEF Render, BeginWait
  <1>3. CASE Tick
    <2>1. CASE useTimeout
      <3>1. remaining > 0 /\ CountTick /\ config' = config /\ useTimeout' = useTimeout /\ pc' = "poll" /\ pc = "quiet"
        BY <1>0, <1>3, <2>1 DEF Tick
      <3>2. CASE ticks + 1 >= TicksPerSecond
        <4>1. ticks' = 0 /\ remaining' = remaining - 1 /\ waited' = waited + 1
          BY <3>1, <3>2 DEF CountTick
        <4>2. ticks + 1 = TicksPerSecond
          BY <1>0, <2>1, <3>1, <3>2
        <4>3. remaining' * TicksPerSecond = remaining * TicksPerSecond - TicksPerSecond
          BY <1>0, <1>1, <3>1, <4>1
        <4>4. /\ remaining * TicksPerSecond \in Nat
              /\ config.delay * TicksPerSecond \in Nat
          BY <1>0
        <4>5. waited + remaining * TicksPerSecond = config.delay * TicksPerSecond + ticks
          BY <2>1, <3>1
        <4>6. waited' + remaining' * TicksPerSecond = config'.delay * TicksPerSecond + ticks'
          BY <1>0, <3>1, <4>1, <4>2, <4>3, <4>4, <4>5
        <4> QED
          BY <1>0, <3>1, <4>1, <4>6
      <3>3. CASE ~(ticks + 1 >= TicksPerSecond)
        <4>1. ticks' = ticks + 1 /\ remaining' = remaining /\ waited' = waited + 1
          BY <3>1, <3>3 DEF CountTick
        <4>2. remaining * TicksPerSecond \in Nat /\ config.delay * TicksPerSecond \in Nat
          BY <1>0
        <4> QED
          BY <1>0, <2>1, <3>1, <3>3, <4>1, <4>2
      <3> QED
        BY <3>2, <3>3
    <2>2. CASE ~useTimeout
      BY <1>3, <2>2 DEF Tick
    <2> QED
      BY <2>1, <2>2
  <1>4. CASE HeadlessTick
    <2>1. /\ remaining > 0 /\ remaining' = remaining - 1 /\ pc = "headless" /\ useTimeout
          /\ waited' = waited + TicksPerSecond /\ ticks' = ticks
          /\ config' = config /\ pc' = pc
      BY <1>4 DEF HeadlessTick
    <2>2. remaining' * TicksPerSecond = remaining * TicksPerSecond - TicksPerSecond
      BY <1>0, <1>1, <2>1
    <2>3. remaining * TicksPerSecond \in Nat /\ config.delay * TicksPerSecond \in Nat
      BY <1>0
    <2> QED
      BY <1>0, <2>1, <2>2, <2>3
  <1>5. CASE Expire \/ HeadlessBoot
    <2>1. pc \in Waiting /\ useTimeout /\ remaining = 0 /\ pc' = "boot"
          /\ waited' = waited /\ config' = config
      BY <1>5 DEF Expire, HeadlessBoot, EndWait
    <2>2. remaining * TicksPerSecond = 0 /\ config.delay * TicksPerSecond \in Nat
      BY <1>0, <2>1
    <2> QED
      BY <1>0, <2>1, <2>2
  <1>6. CASE KeyDetails \/ KeyIgnoredByError \/ PowerOffRefused
    BY <1>6 DEF KeyDetails, KeyIgnoredByError, PowerOffRefused, BeginWait
  <1>7. CASE BootNotFound \/ ChainloadFails \/ LoaderFails
    BY <1>7 DEF BootNotFound, ChainloadFails, LoaderFails, ShowBootError, BeginWait
  <1>8. CASE KeyBoot \/ KeyRescan \/ KeyPowerOff \/ KeyNextPage \/ KeyReturns
    BY <1>8 DEF KeyBoot, KeyRescan, KeyPowerOff, KeyNextPage, KeyReturns, EndWait
  <1>9. CASE KeyOther
    BY <1>9 DEF KeyOther
  <1>10. CASE DrainKey \/ DrainDone \/ NoKey
    BY <1>10 DEF DrainKey, DrainDone, NoKey, Take
  <1>11. CASE \/ GpuScanPci \/ FindLoader \/ PowerOffHonoured \/ BootChainload
              \/ ChainloadStarts \/ LoaderReturns \/ LoaderBootsWindows
    BY <1>11 DEF GpuScanPci, FindLoader, PowerOffHonoured, BootChainload,
       ChainloadStarts, LoaderReturns, LoaderBootsWindows
  <1>12. CASE Type \/ LoaderReadsKey
    BY <1>12 DEF Type, LoaderReadsKey
  <1>13. CASE UNCHANGED vars
    BY <1>13 DEF vars
  <1> QED
    BY <1>2, <1>3, <1>4, <1>5, <1>6, <1>7, <1>8, <1>9, <1>10, <1>11, <1>12, <1>13
       DEF Next, Program, Environment, TakeKey, Finished, HeadlessHalt

(* However long AUTOBOOT_DELAY is and however long a second is in polls,   *)
(* the countdown of a screen never boots before that screen had it all.    *)
THEOREM DelayIsWhole == Spec => []FullDelayBeforeBoot
<1>1. Init => CountdownInv
  BY DEF Init, CountdownInv, FullDelayBeforeBoot, Waiting
<1>2. CountdownInv => FullDelayBeforeBoot
  BY DEF CountdownInv
<1> QED
  BY <1>1, <1>2, ControlCorrect, StepCountdown, PTL DEF Spec

-----------------------------------------------------------------------------
(* The boot loop implements the boot policy *)

Permitted == config.autoboot /\ (Verdict(results, config) \/ ~config.halt)

(* The mode each control point maps to. *)
LEMMA PolicyModes ==
    /\ pc \in Looking => PolicyMode = "looking"
    /\ pc \in Waiting /\ screen = "main" =>
          PolicyMode = IF useTimeout THEN "counting" ELSE "holding"
    /\ pc \in Waiting /\ screen = "error" => PolicyMode = "failed"
    /\ pc \in Waiting /\ screen \notin {"main", "error"} => PolicyMode = "aside"
    /\ pc = "poweroff" => PolicyMode = "stopping"
    /\ pc = "boot" => PolicyMode = "starting"
    /\ pc \in {"chainload", "windows"} => PolicyMode = "running"
    /\ pc \in Gone => PolicyMode = "gone"
  BY DEF PolicyMode, Looking, Waiting, Gone

(* The same after a step. *)
LEMMA PolicyModesPrime ==
    /\ pc' \in Looking => PolicyMode' = "looking"
    /\ pc' \in Waiting /\ screen' = "main" =>
          PolicyMode' = IF useTimeout' THEN "counting" ELSE "holding"
    /\ pc' \in Waiting /\ screen' = "error" => PolicyMode' = "failed"
    /\ pc' \in Waiting /\ screen' \notin {"main", "error"} => PolicyMode' = "aside"
    /\ pc' = "poweroff" => PolicyMode' = "stopping"
    /\ pc' = "boot" => PolicyMode' = "starting"
    /\ pc' \in {"chainload", "windows"} => PolicyMode' = "running"
    /\ pc' \in Gone => PolicyMode' = "gone"
  BY DEF PolicyMode, Looking, Waiting, Gone

(* Every step of the loop is a step of the policy, or none. *)
LEMMA StepPolicy ==
    TypeOK /\ QueueInv /\ ControlInv /\ [Next]_vars => [Policy!Next]_(Policy!vars)
  <1> SUFFICES ASSUME TypeOK, QueueInv, ControlInv, [Next]_vars
               PROVE  Policy!Next \/ Policy!vars' = Policy!vars
    OBVIOUS
  <1> DEFINE M == PolicyMode
             P == Permitted
             Same == M' = M /\ P' = P /\ attempted' = attempted
                       /\ (cause' = "key") = (cause = "key")
  <1>0. Same => Policy!vars' = Policy!vars
    BY DEF Policy!vars, Permitted
  <1> USE DEF Looking, Waiting, Gone, fixed, scanned, waitvars
  <1>1. CASE GpuScanPci
    <2>1. M = "looking" /\ M' = "looking"
      BY <1>1, PolicyModes, PolicyModesPrime DEF GpuScanPci
    <2>2. P' \in BOOLEAN /\ attempted' = attempted /\ cause' = cause
      BY <1>1 DEF GpuScanPci, Permitted
    <2>3. Policy!Look
      BY <2>1, <2>2 DEF Policy!Look, Permitted
    <2> QED
      BY <2>3 DEF Policy!Next
  <1>2. CASE Render
    <2>1. M = "looking" /\ P' = P /\ attempted' = attempted /\ cause' = "none"
      BY <1>2, PolicyModes DEF Render, Permitted
    <2>2. M' = IF WillAutoboot THEN "counting" ELSE "holding"
      BY <1>2, PolicyModesPrime DEF Render, Paint, BeginWait
    <2>3. WillAutoboot <=> P /\ ~attempted
      BY DEF WillAutoboot, Permitted, ControlInv
    <2>4. Policy!Show
      BY <2>1, <2>2, <2>3 DEF Policy!Show, Permitted
    <2> QED
      BY <2>4 DEF Policy!Next
  <1>3. CASE KeyOther
    <2>1. /\ pc = "poll" /\ pc' = "poll" /\ screen' = screen /\ useTimeout' = FALSE
          /\ P' = P /\ attempted' = attempted /\ cause' = cause
          /\ screen \in {"main", "error"}
      BY <1>3 DEF KeyOther, Take, Permitted
    <2>2. CASE screen = "main" /\ useTimeout
      <3>1. M = "counting" /\ M' = "holding"
        BY <2>1, <2>2, PolicyModes, PolicyModesPrime
      <3>2. Policy!Cancel
        BY <2>1, <3>1 DEF Policy!Cancel, Permitted
      <3> QED
        BY <3>2 DEF Policy!Next
    <2>3. CASE ~(screen = "main" /\ useTimeout)
      <3>1. M' = M
        BY <2>1, <2>3, PolicyModes, PolicyModesPrime
      <3> QED
        BY <1>0, <2>1, <3>1
    <2> QED
      BY <2>2, <2>3
  <1>4. CASE Expire \/ HeadlessBoot
    <2>1. /\ pc \in Waiting /\ useTimeout /\ pc' = "boot" /\ cause' = "timeout"
          /\ P' = P /\ attempted' = attempted
      BY <1>4 DEF Expire, HeadlessBoot, Permitted
    <2>2. screen = "main" /\ cause = "none"
      BY <2>1 DEF ControlInv
    <2>3. M = "counting" /\ M' = "starting"
      BY <2>1, <2>2, PolicyModes, PolicyModesPrime
    <2>4. Policy!Expire
      BY <2>1, <2>2, <2>3 DEF Policy!Expire, Permitted
    <2> QED
      BY <2>4 DEF Policy!Next
  <1>5. CASE KeyBoot
    <2>1. /\ pc = "poll" /\ screen = "main" /\ pc' = "boot" /\ cause' = "key"
          /\ P' = P /\ attempted' = attempted
      BY <1>5 DEF KeyBoot, Take, Permitted
    <2>2. M \in {"counting", "holding"} /\ M' = "starting"
      BY <2>1, PolicyModes, PolicyModesPrime
    <2>3. Policy!Ask
      BY <2>1, <2>2 DEF Policy!Ask, Permitted
    <2> QED
      BY <2>3 DEF Policy!Next
  <1>6. CASE KeyDetails \/ KeyRescan \/ KeyPowerOff \/ KeyNextPage
    <2>1. /\ pc = "poll" /\ screen \in {"main", "error"}
          /\ P' = P /\ attempted' = attempted /\ cause' = cause
      BY <1>6 DEF KeyDetails, KeyRescan, KeyPowerOff, KeyNextPage, Take, Permitted
    <2>2. \/ pc' = "drain" /\ screen' = "details" /\ screen = "main"
          \/ pc' = "scan"
          \/ pc' = "poweroff"
      BY <1>6 DEF KeyDetails, KeyRescan, KeyPowerOff, KeyNextPage, Take, Paint, BeginWait
    <2>3. CASE screen = "main"
      <3>1. M \in {"counting", "holding"} /\ M' \in {"looking", "aside", "stopping"}
        BY <2>1, <2>2, <2>3, PolicyModes, PolicyModesPrime
      <3>2. Policy!TurnAway
        BY <2>1, <3>1 DEF Policy!TurnAway, Permitted
      <3> QED
        BY <3>2 DEF Policy!Next
    <2>4. CASE screen = "error"
      <3>1. M = "failed" /\ M' \in {"looking", "stopping"}
        BY <2>1, <2>2, <2>4, PolicyModes, PolicyModesPrime
      <3>2. Policy!Retry
        BY <2>1, <3>1 DEF Policy!Retry, Permitted
      <3> QED
        BY <3>2 DEF Policy!Next
    <2> QED
      BY <2>1, <2>3, <2>4
  <1>7. CASE KeyReturns
    <2>1. /\ pc = "poll" /\ screen \in {"details", "refused"} /\ pc' = "scan"
          /\ P' = P /\ attempted' = attempted /\ cause' = cause
      BY <1>7 DEF KeyReturns, Take, Permitted
    <2>2. M = "aside" /\ M' = "looking"
      BY <2>1, PolicyModes, PolicyModesPrime
    <2>3. Policy!ComeBack
      BY <2>1, <2>2 DEF Policy!ComeBack, Permitted
    <2> QED
      BY <2>3 DEF Policy!Next
  <1>8. CASE PowerOffHonoured \/ PowerOffRefused
    <2>1. /\ pc = "poweroff"
          /\ pc' = "off" \/ (pc' = "drain" /\ screen' = "refused")
          /\ P' = P /\ attempted' = attempted /\ cause' = cause
      BY <1>8 DEF PowerOffHonoured, PowerOffRefused, Paint, BeginWait, Permitted
    <2>2. M = "stopping" /\ M' \in {"gone", "aside"}
      BY <2>1, PolicyModes, PolicyModesPrime
    <2>3. Policy!Stop
      BY <2>1, <2>2 DEF Policy!Stop, Permitted
    <2> QED
      BY <2>3 DEF Policy!Next
  <1>9. CASE BootNotFound \/ ChainloadFails \/ LoaderFails
    <2>1. /\ pc \in {"boot", "chainload", "windows"}
          /\ pc' = "drain" /\ screen' = "error"
          /\ P' = P /\ attempted' = attempted /\ cause' = cause
      BY <1>9 DEF BootNotFound, ChainloadFails, LoaderFails, ShowBootError, Paint,
         BeginWait, Permitted
    <2>2. M \in {"starting", "running"} /\ M' = "failed"
      BY <2>1, PolicyModes, PolicyModesPrime
    <2>3. Policy!NoLoader \/ Policy!Outcome
      BY <2>1, <2>2 DEF Policy!NoLoader, Policy!Outcome, Permitted
    <2> QED
      BY <2>3 DEF Policy!Next
  <1>10. CASE BootChainload
    <2>1. /\ pc = "boot" /\ pc' = "chainload"
          /\ P' = P /\ attempted' = TRUE /\ cause' = cause
      BY <1>10 DEF BootChainload, Permitted
    <2>2. M = "starting" /\ M' = "running"
      BY <2>1, PolicyModes, PolicyModesPrime
    <2>3. Policy!Launch
      BY <2>1, <2>2 DEF Policy!Launch, Permitted
    <2> QED
      BY <2>3 DEF Policy!Next
  <1>11. CASE LoaderReturns \/ LoaderBootsWindows
    <2>1. /\ pc = "windows" /\ pc' \in {"scan", "os"}
          /\ P' = P /\ attempted' = attempted /\ cause' = cause
      BY <1>11 DEF LoaderReturns, LoaderBootsWindows, Permitted
    <2>2. M = "running" /\ M' \in {"looking", "gone"}
      BY <2>1, PolicyModes, PolicyModesPrime
    <2>3. Policy!Outcome
      BY <2>1, <2>2 DEF Policy!Outcome, Permitted
    <2> QED
      BY <2>3 DEF Policy!Next
  <1>12. CASE FindLoader \/ ChainloadStarts
    <2>1. /\ \/ pc \in Looking /\ pc' \in Looking
             \/ pc = "chainload" /\ pc' = "windows"
          /\ P' = P /\ attempted' = attempted /\ cause' = cause
      BY <1>12 DEF FindLoader, ChainloadStarts, Permitted
    <2>2. M' = M
      BY <2>1, PolicyModes, PolicyModesPrime
    <2> QED
      BY <1>0, <2>1, <2>2
  <1>13. CASE \/ DrainKey \/ DrainDone \/ NoKey \/ Tick \/ HeadlessTick
              \/ KeyIgnoredByError
    <2>1. /\ pc \in Waiting /\ pc' \in Waiting /\ screen' = screen
          /\ P' = P /\ attempted' = attempted /\ cause' = cause
          /\ screen = "main" => useTimeout' = useTimeout
      BY <1>13 DEF DrainKey, DrainDone, NoKey, Tick, HeadlessTick,
         KeyIgnoredByError, Take, BeginWait, Permitted
    <2>2. M' = M
      BY <2>1, PolicyModes, PolicyModesPrime
    <2> QED
      BY <1>0, <2>1, <2>2
  <1>14. CASE Type \/ LoaderReadsKey \/ UNCHANGED vars
    <2>1. /\ pc' = pc /\ screen' = screen /\ useTimeout' = useTimeout
          /\ P' = P /\ attempted' = attempted /\ cause' = cause
      BY <1>14 DEF Type, LoaderReadsKey, vars, Permitted
    <2>2. M' = M
      BY <2>1 DEF PolicyMode
    <2> QED
      BY <1>0, <2>1, <2>2
  <1> HIDE DEF Same, M, P
  <1> QED
    BY <1>1, <1>2, <1>3, <1>4, <1>5, <1>6, <1>7, <1>8, <1>9, <1>10, <1>11,
       <1>12, <1>13, <1>14
       DEF Next, Program, Environment, TakeKey, Finished, HeadlessHalt

(* The boot loop, with its keyboard, timing and screens, never starts the  *)
(* Windows loader in a way the boot policy does not allow.                 *)
THEOREM LoopImplementsPolicy == Spec => ImplementsPolicy
<1>1. Init => Policy!Init
  <2> SUFFICES ASSUME Init PROVE Policy!Init
    OBVIOUS
  <2>1. PolicyMode = "looking"
    BY PolicyModes DEF Init, Looking
  <2> QED
    BY <2>1 DEF Init, Policy!Init
<1> QED
  BY <1>1, ControlCorrect, StepPolicy, PTL DEF Spec, ImplementsPolicy, Policy!Spec
=============================================================================
