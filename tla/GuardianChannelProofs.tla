------------------------ MODULE GuardianChannelProofs ------------------------
(* Theorems about GuardianChannel, for any callers, waiters and bounds: a      *)
(* response reaches the request it answers, the response slot is free for      *)
(* whoever fills it, nothing is asked after a request whose outcome is         *)
(* unknown, and the owner leaves no helper behind without saying so.           *)
EXTENDS GuardianChannel, TLAPS

InRequest == {"writing", "waiting", "finishing"}

(* The request that has the lock is the last one. As long as its response is   *)
(* due nothing is under way to the slot; from the moment its response is read  *)
(* until it is received no other request can begin.                            *)
Due ==
    /\ lock # Nobody => id[lock] = nextID /\ nextID # 0
    /\ active # 0 =>
         active = nextID /\ lock # Nobody /\ slot = <<>> /\ reader # "delivering"
    /\ Down => active = 0

Delivery ==
    /\ reader = "delivering" =>
         slot = <<>> /\ holding = nextID /\ holding # 0 /\ (Down \/ lock # Nobody)
    /\ slot # <<>> =>
         \/ slot[1] = 0 /\ finish \in {"answered", "done"}
         \/ slot[1] = nextID /\ (Down \/ lock # Nobody)
    /\ finish = "marked" /\ taken # 0 => slot = <<>> /\ reader # "delivering"

(* A request that timed out keeps the lock until the connection is down.       *)
LastOne ==
    \A p \in Procs : outcome[p] = "timeout" =>
        \/ lock = p /\ pc[p] = "finishing"
        \/ lock = Nobody /\ finish = "done"

(* The owner waits for the helper after the end of finish, and stops waiting   *)
(* for a running one only when it could not kill it.                           *)
Ended ==
    /\ pc[Owner] \in {"reaping", "killing", "killed", "returned"} => finish = "done"
    /\ pc[Owner] \in {"killed", "returned"} =>
         helper # "running" \/ "kill" \in processErr
    /\ pc[Owner] = "returned" => helper = "exited" \/ "unreaped" \in processErr

Inv == TypeOK /\ Due /\ Delivery /\ OwnAnswer /\ LastOne /\ Ended
-----------------------------------------------------------------------------
(* Nobody is no goroutine, and the owner is one.                               *)
LEMMA Names == Nobody \notin Procs /\ Owner \in Procs /\ MaxEvents \in Nat
BY ChannelAssumption DEF Procs

(* What is left of a queue, and what it becomes.                               *)
LEMMA QueueFacts ==
  ASSUME NEW T, NEW s \in Seq(T)
  PROVE  /\ s # <<>> => Head(s) \in T /\ Tail(s) \in Seq(T)
         /\ \A x \in T : Append(s, x) \in Seq(T)
OBVIOUS

(* A queue of some frames is a queue of more.                                  *)
LEMMA QueueWidens ==
  ASSUME NEW T, NEW U, T \subseteq U, NEW s \in Seq(T)
  PROVE  s \in Seq(U)
OBVIOUS

(* A new connection is well formed.                                            *)
LEMMA InitInv == Init => Inv
<1> SUFFICES ASSUME Init PROVE Inv
  OBVIOUS
<1> USE Names DEF Init
<1>1. TypeRequests
  BY DEF TypeRequests
<1>2. TypeSlot
  BY DEF TypeSlot
<1>3. TypeStream
  BY DEF TypeStream
<1>4. TypeHealth /\ TypeSignals
  <2>1. TypeHealth
    BY DEF TypeHealth
  <2>2. TypeSignals
    BY Zenon DEF TypeSignals
  <2> QED BY <2>1, <2>2
<1>5. Due /\ Delivery /\ OwnAnswer /\ LastOne /\ Ended
  BY DEF Due, Delivery, OwnAnswer, LastOne, Ended, Down
<1> QED
  BY <1>1, <1>2, <1>3, <1>4, <1>5 DEF Inv, TypeOK

(* A request that begins takes a new id, unless the connection is down.        *)
LEMMA BeginInv ==
  ASSUME Inv, NEW p \in Procs, Begin(p)
  PROVE  Inv'
<1> USE Names DEF Inv, TypeOK, Begin, stream, health, process
<1>1. TypeHealth' /\ TypeSignals'
  BY DEF TypeHealth, TypeSignals
<1>2. TypeRequests'
  BY DEF TypeRequests
<1>3. CASE Down
  <2>1. TypeSlot' /\ TypeStream'
    BY <1>3 DEF TypeSlot, TypeStream, Frames
  <2>2. Due' /\ Delivery' /\ OwnAnswer' /\ LastOne' /\ Ended'
    BY <1>3 DEF Due, Delivery, OwnAnswer, LastOne, Ended, Down, TypeRequests
  <2> QED BY <1>1, <1>2, <2>1, <2>2
<1>4. CASE ~Down
  <2>1. slot = <<>> /\ reader # "delivering"
    BY <1>4 DEF Delivery, Down
  <2>2. TypeSlot'
    BY <1>4, <2>1 DEF TypeSlot, TypeRequests
  <2>3. TypeStream'
    <3>1. 1..nextID \subseteq 1..nextID' /\ Frames \subseteq Frames'
      BY <1>4 DEF TypeRequests, Frames
    <3>2. toHelper \in Seq(1..nextID') /\ fromHelper \in Seq(Frames')
      BY <3>1, QueueWidens DEF TypeStream
    <3> QED BY <1>4, <3>2 DEF TypeStream
  <2>4. Due' /\ Delivery'
    BY <1>4, <2>1 DEF Due, Delivery, Down, TypeRequests
  <2>5. OwnAnswer' /\ LastOne' /\ Ended'
    BY <1>4 DEF OwnAnswer, LastOne, Ended, TypeRequests, Down
  <2> QED BY <1>1, <1>2, <2>2, <2>3, <2>4, <2>5
<1> QED
  BY <1>3, <1>4

(* The rest of a request.                                                      *)
LEMMA RequestInv ==
  ASSUME Inv, NEW p \in Procs,
         Write(p) \/ WriteFails(p) \/ Receive(p) \/ Timeout(p) \/ FinishReturns(p)
  PROVE  Inv'
<1> USE Names DEF Inv, TypeOK, stream, health, process
<1>1. CASE Write(p)
  <2> USE <1>1 DEF Write
  <2>1. id[p] \in 1..nextID
    BY DEF TypeRequests, Due
  <2>2. TypeRequests' /\ TypeSlot' /\ TypeHealth' /\ TypeSignals'
    BY DEF TypeRequests, TypeSlot, TypeHealth, TypeSignals
  <2>3. TypeStream'
    BY <2>1 DEF TypeStream, Frames
  <2>4. Due' /\ Delivery' /\ OwnAnswer' /\ LastOne' /\ Ended'
    BY DEF TypeRequests, Due, Delivery, OwnAnswer, LastOne, Ended, Down
  <2> QED BY <2>2, <2>3, <2>4
<1>2. CASE WriteFails(p) \/ Timeout(p)
  <2> USE <1>2 DEF WriteFails, Timeout, ClearActive
  <2>1. TypeRequests' /\ TypeSlot' /\ TypeHealth' /\ TypeSignals'
    <3>1. TypeRequests'
      BY DEF TypeRequests
    <3>2. TypeSlot'
      BY DEF TypeSlot, TypeRequests
    <3>3. TypeHealth' /\ TypeSignals'
      BY DEF TypeHealth, TypeSignals
    <3> QED BY <3>1, <3>2, <3>3
  <2>2. TypeStream'
    BY DEF TypeStream, Frames
  <2>3. Due' /\ Delivery' /\ OwnAnswer' /\ LastOne' /\ Ended'
    BY DEF TypeRequests, TypeSlot, Due, Delivery, OwnAnswer, LastOne, Ended, Down
  <2> QED BY <2>1, <2>2, <2>3
<1>3. CASE Receive(p)
  <2> USE <1>3 DEF Receive, Return
  <2>1. TypeSlot' /\ TypeHealth' /\ TypeSignals'
    BY DEF TypeSlot, TypeHealth, TypeSignals
  <2>7. TypeRequests'
    BY DEF TypeRequests
  <2>2. TypeStream'
    BY DEF TypeStream, Frames
  <2>3. lock = p /\ id[p] = nextID
    BY DEF TypeRequests, Due
  <2>4. slot[1] \in {0, nextID}
    BY DEF Delivery
  <2>5. Due' /\ Delivery'
    BY <2>3 DEF TypeRequests, Due, Delivery, Down
  <2>6. OwnAnswer' /\ LastOne' /\ Ended'
    BY <2>3, <2>4 DEF TypeRequests, TypeSlot, OwnAnswer, LastOne, Ended
  <2> QED BY <2>1, <2>2, <2>5, <2>6, <2>7
<1>4. CASE FinishReturns(p)
  <2> USE <1>4 DEF FinishReturns, Return
  <2>1. TypeRequests' /\ TypeSlot' /\ TypeHealth' /\ TypeSignals'
    BY DEF TypeRequests, TypeSlot, TypeHealth, TypeSignals
  <2>2. TypeStream'
    BY DEF TypeStream, Frames
  <2>3. Due' /\ Delivery' /\ OwnAnswer' /\ LastOne' /\ Ended'
    BY DEF TypeRequests, Due, Delivery, OwnAnswer, LastOne, Ended, Down
  <2> QED BY <2>1, <2>2, <2>3
<1> QED
  BY <1>1, <1>2, <1>3, <1>4

(* finish, whoever runs it.                                                    *)
LEMMA FinishInv ==
  ASSUME Inv, Finish
  PROVE  Inv'
<1> USE DEF Inv, TypeOK, Finish, FinishBegins, FinishMarks, FinishAnswers, FinishCloses,
            request, stream, health, process
<1>1. TypeRequests' /\ TypeHealth' /\ TypeSignals'
  BY DEF TypeRequests, TypeHealth, TypeSignals
<1>2. TypeSlot'
  BY DEF TypeSlot, TypeRequests
<1>3. TypeStream'
  <2>1. CASE FinishCloses
    BY <2>1 DEF TypeStream
  <2>2. CASE FinishBegins \/ FinishMarks \/ FinishAnswers
    BY <2>2 DEF TypeStream, Frames
  <2> QED BY <2>1, <2>2
<1>4. Due' /\ Delivery'
  BY DEF Due, Delivery, Down
<1>5. OwnAnswer' /\ LastOne' /\ Ended'
  BY DEF OwnAnswer, LastOne, Ended
<1> QED
  BY <1>1, <1>2, <1>3, <1>4, <1>5

(* A frame that was read leaves well-typed ones.                               *)
LEMMA NextFrame ==
  ASSUME TypeOK, fromHelper # <<>>
  PROVE  /\ Head(fromHelper) \in Frames /\ Tail(fromHelper) \in Seq(Frames)
         /\ Head(fromHelper).kind = "response" => Head(fromHelper).id \in 1..nextID
<1>1. Head(fromHelper) \in Frames /\ Tail(fromHelper) \in Seq(Frames)
  BY DEF TypeOK, TypeStream
<1> QED
  BY <1>1 DEF Frames, Terminal, Event

(* The reader.                                                                 *)
LEMMA ReaderInv ==
  ASSUME Inv, Reader
  PROVE  Inv'
<1> USE DEF Inv, TypeOK, request, health, process
<1>1. CASE ReadResponse
  <2> USE <1>1, NextFrame DEF ReadResponse
  <2>1. TypeRequests' /\ TypeHealth' /\ TypeSignals'
    BY DEF TypeRequests, TypeHealth, TypeSignals
  <2>2. TypeSlot'
    <3>1. Head(fromHelper).id \in 1..nextID
      BY NextFrame DEF ReadResponse
    <3>2. holding' \in 1..nextID /\ active' \in 0..nextID
      BY <3>1 DEF TypeSlot, TypeRequests
    <3> QED BY <3>2 DEF TypeSlot
  <2>3. TypeStream'
    BY DEF TypeStream, Frames
  <2>4. Due' /\ Delivery'
    BY DEF Due, Delivery, Down
  <2>5. OwnAnswer' /\ LastOne' /\ Ended'
    BY DEF OwnAnswer, LastOne, Ended
  <2> QED BY <2>1, <2>2, <2>3, <2>4, <2>5
<1>2. CASE DeliverResponse
  <2> USE <1>2 DEF DeliverResponse
  <2>1. TypeRequests' /\ TypeHealth' /\ TypeSlot'
    BY DEF TypeRequests, TypeHealth, TypeSlot
  <2>5. TypeSignals'
    BY DEF TypeSignals
  <2>2. TypeStream'
    BY DEF TypeStream, Frames
  <2>3. Due' /\ Delivery'
    BY DEF Due, Delivery, Down
  <2>4. OwnAnswer' /\ LastOne' /\ Ended'
    BY DEF OwnAnswer, LastOne, Ended
  <2> QED BY <2>1, <2>2, <2>3, <2>4, <2>5
<1>3. CASE ReadTerminal \/ ReadEvent \/ ReadFails \/ ReaderStops
  <2> USE <1>3, NextFrame DEF ReadTerminal, ReadEvent, ReadFails, ReaderStops
  <2>1. TypeRequests' /\ TypeHealth' /\ TypeSlot'
    BY DEF TypeRequests, TypeHealth, TypeSlot
  <2>5. TypeSignals'
    BY DEF TypeSignals
  <2>2. TypeStream'
    BY DEF TypeStream, Frames
  <2>3. Due' /\ Delivery'
    BY DEF Due, Delivery, Down
  <2>4. OwnAnswer' /\ LastOne' /\ Ended'
    BY DEF OwnAnswer, LastOne, Ended
  <2> QED BY <2>1, <2>2, <2>3, <2>4, <2>5
<1> QED
  BY <1>1, <1>2, <1>3 DEF Reader

(* Waiters, the owner's end of the connection, and the helper.                 *)
LEMMA RestInv ==
  ASSUME Inv, (\E w \in Waiters : Wait(w)) \/ End \/ Helper
  PROVE  Inv'
<1> USE Names DEF Inv, TypeOK, request, stream, health, process
<1>1. ASSUME NEW w \in Waiters, Wait(w) PROVE Inv'
  <2> USE <1>1 DEF Wait, StartWaiting, TakeEvent, Wake, Take
  <2>1. TypeRequests' /\ TypeSlot'
    BY DEF TypeRequests, TypeSlot
  <2>2. TypeHealth'
    BY DEF TypeHealth
  <2>5. TypeSignals'
    BY DEF TypeSignals
  <2>3. TypeStream'
    BY DEF TypeStream, Frames
  <2>4. Due' /\ Delivery' /\ OwnAnswer' /\ LastOne' /\ Ended'
    BY DEF Due, Delivery, Down, OwnAnswer, LastOne, Ended
  <2> QED BY <2>1, <2>2, <2>3, <2>4, <2>5
<1>2. CASE End
  <2> USE <1>2 DEF End, Ends, Finished, Reaped, ReapTimeout, Kill, KillFails,
                   KillTimeout
  <2>1. TypeRequests'
    BY DEF TypeRequests
  <2>2. TypeSlot'
    BY DEF TypeSlot
  <2>3. TypeStream'
    BY DEF TypeStream, Frames
  <2>4. TypeHealth' /\ TypeSignals'
    <3>1. UNCHANGED health
      BY DEF health
    <3> QED BY <3>1 DEF TypeHealth, TypeSignals
  <2>5. Due' /\ Delivery' /\ OwnAnswer'
    BY DEF Due, Delivery, Down, OwnAnswer
  <2>6. LastOne' /\ Ended'
    BY DEF LastOne, Ended, TypeRequests
  <2> QED BY <2>1, <2>2, <2>3, <2>4, <2>5, <2>6
<1>3. CASE Helper
  <2>1. TypeRequests' /\ TypeSlot' /\ TypeHealth' /\ TypeSignals'
    BY <1>3 DEF Helper, HelperAnswers, HelperReports, HelperExits, TypeRequests, TypeSlot,
       TypeHealth, TypeSignals
  <2>2. TypeStream'
    <3>1. toHelper # <<>> => /\ Response(Head(toHelper)) \in Frames
                             /\ Tail(toHelper) \in Seq(1..nextID)
      <4>1. toHelper # <<>> => /\ Head(toHelper) \in 1..nextID
                               /\ Tail(toHelper) \in Seq(1..nextID)
        BY QueueFacts DEF TypeStream
      <4> QED BY <4>1 DEF Response, Frames
    <3>2. Terminal \in Frames /\ Event \in Frames
      BY DEF Frames
    <3>3. Frames' = Frames /\ nextID' = nextID
      BY <1>3 DEF Helper, HelperAnswers, HelperReports, HelperExits, Frames
    <3>4. CASE HelperAnswers
      BY <3>1, <3>3, <3>4, QueueFacts DEF HelperAnswers, TypeStream
    <3>5. ASSUME NEW frame \in {Terminal, Event}, HelperReports(frame) PROVE TypeStream'
      BY <3>2, <3>3, <3>5, QueueFacts DEF HelperReports, TypeStream
    <3>6. CASE HelperExits
      BY <3>3, <3>6 DEF HelperExits, TypeStream
    <3> QED BY <1>3, <3>4, <3>5, <3>6 DEF Helper
  <2>3. Due' /\ Delivery' /\ OwnAnswer' /\ LastOne' /\ Ended'
    BY <1>3 DEF Helper, HelperAnswers, HelperReports, HelperExits, Due, Delivery, Down,
       OwnAnswer, LastOne, Ended
  <2> QED BY <2>1, <2>2, <2>3
<1> QED
  BY <1>1, <1>2, <1>3

(* The invariant holds of every connection.                                    *)
LEMMA InvHolds == Spec => []Inv
<1>1. Inv /\ [Next]_vars => Inv'
  <2> SUFFICES ASSUME Inv, [Next]_vars PROVE Inv'
    OBVIOUS
  <2>1. CASE Next
    BY <2>1, BeginInv, RequestInv, FinishInv, ReaderInv, RestInv DEF Next, Request
  <2>2. CASE UNCHANGED vars
    BY <2>2 DEF Inv, TypeSignals, TypeOK, TypeRequests, TypeSlot, TypeStream, Frames,
       TypeHealth, Due, Delivery, Down, OwnAnswer, LastOne, Ended, vars
  <2> QED BY <2>1, <2>2
<1> QED
  BY <1>1, InitInv, PTL DEF Spec
-----------------------------------------------------------------------------
(* The connection's state keeps its types, and the lock is held exactly during *)
(* a request.                                                                  *)
THEOREM TypeCorrect == Spec => []TypeOK
<1>1. Inv => TypeOK
  BY DEF Inv
<1> QED
  BY <1>1, InvHolds, PTL

(* A request is answered by its own response (requestWithTimeout, readFrames). *)
THEOREM AnswersAreOwn == Spec => []OwnAnswer
<1>1. Inv => OwnAnswer
  BY DEF Inv
<1> QED
  BY <1>1, InvHolds, PTL

(* Neither the reader nor finish ever blocks on the response slot.             *)
THEOREM SlotIsFree == Spec => []SlotFree
<1>1. Inv => SlotFree
  BY DEF Inv, Delivery, SlotFree
<1> QED
  BY <1>1, InvHolds, PTL

(* After a request with an unknown outcome no other is written to the helper.  *)
THEOREM TimeoutIsLast == Spec => []NothingAfterTimeout
<1>1. Inv => NothingAfterTimeout
  BY Names DEF Inv, TypeOK, TypeRequests, LastOne, NothingAfterTimeout
<1> QED
  BY <1>1, InvHolds, PTL

(* A failed Dial and Close return with the helper gone, or say that it could   *)
(* not be killed or reaped (Close, terminateProcess, waitForProcess).          *)
THEOREM NoHelperStays == Spec => []NoOrphan
<1>1. Inv => NoOrphan
  BY DEF Inv, Ended, NoOrphan
<1> QED
  BY <1>1, InvHolds, PTL
=============================================================================
