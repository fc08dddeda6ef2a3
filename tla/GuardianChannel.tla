---------------------------- MODULE GuardianChannel ---------------------------
(* The parent's end of the crash guardian: one framed stream to the helper,    *)
(* requests serialised over one reusable response slot, a reader goroutine,    *)
(* health events, and the life of the helper process                           *)
(* (src/internal/x11input/guardian_linux.go).  The helper is only what the     *)
(* stream shows of it: X11Guardian models its inside.                          *)
(*                                                                             *)
(* The owner dials (a hello request) and closes (a close request); callers     *)
(* make requests in between; waiters sit in WaitForEvent.  finish runs once,   *)
(* in four steps, whoever calls it; every other caller waits for its end.      *)
EXTENDS Naturals, Sequences, FiniteSets

CONSTANTS
    Callers,    \* goroutines that make requests on an open connection
    Owner,      \* the goroutine that dials and closes
    Waiters,    \* goroutines in WaitForEvent
    Nobody,     \* no goroutine
    MaxRequests,\* bound on the requests made
    MaxEvents   \* bound on the health events the helper sends

Procs == Callers \cup {Owner}

ASSUME ChannelAssumption ==
    /\ Owner \notin Callers
    /\ Nobody \notin Procs
    /\ MaxRequests \in Nat /\ MaxEvents \in Nat

VARIABLES
    lock,       \* holder of requestMu
    pc,         \* pc[p]: where p is in a request, Dial or Close
    id,         \* id[p]: request id of p's last request
    outcome,    \* outcome[p]: how p's last request ended
    stage,      \* what the owner is doing: "hello", "open" or "close"
    nextID,
    active,     \* activeRequestID, 0 when no response is due
    slot,       \* the response channel, capacity 1; 0 stands for an error
    finish,     \* how far finish has come
    taken,      \* the active request finish has to answer, 0 for none
    reader,     \* the reader: "reading", "delivering", "finishing", "stopped"
    holding,    \* the response id the reader is delivering
    toHelper, fromHelper,   \* frames in flight
    sent,       \* health events the helper has sent
    events,     \* buffered health events
    terminal,   \* the terminal event has been recorded
    delivered,  \* ... and handed to a waiter
    waiting,    \* waiting[w]: "idle", "select" or what WaitForEvent returned
    helper,     \* "running", "killed" (SIGKILL is sent) or "exited" (and waited for)
    processErr  \* what the error of Close or a failed Dial says of the helper: the
                \* "kill" failed, it is "unreaped" (a late exit that was reaped after
                \* all is also reported; nothing here depends on it)

request == <<lock, pc, id, outcome, stage, nextID>>
health  == <<sent, events, terminal, delivered, waiting>>
stream  == <<reader, holding, toHelper, fromHelper>>
process == <<helper, processErr>>
vars == <<lock, pc, id, outcome, stage, nextID, active, slot, finish, taken,
          reader, holding, toHelper, fromHelper, sent, events, terminal, delivered,
          waiting, helper, processErr>>

Response(n) == [kind |-> "response", id |-> n]
Terminal == [kind |-> "terminal"]   \* the helper's X connection has ended
Event    == [kind |-> "event"]      \* an ordinary health event

Init ==
    /\ lock = Nobody
    /\ pc = [p \in Procs |-> "idle"]
    /\ id = [p \in Procs |-> 0]
    /\ outcome = [p \in Procs |-> "none"]
    /\ stage = "hello"
    /\ nextID = 0 /\ active = 0 /\ slot = <<>>
    /\ finish = "no" /\ taken = 0
    /\ reader = "reading" /\ holding = 0
    /\ toHelper = <<>> /\ fromHelper = <<>>
    /\ sent = 0 /\ events = 0
    /\ terminal = FALSE /\ delivered = FALSE
    /\ waiting = [w \in Waiters |-> "idle"]
    /\ helper = "running" /\ processErr = {}

(* readErr is set in the second step of finish.                                *)
Down == finish \in {"marked", "answered", "done"}
SocketOpen == finish # "done"

-----------------------------------------------------------------------------
(* requestWithTimeout.  A request that ends leaves the lock; the owner's last  *)
(* one goes on with the end of the connection.                                 *)
Return(p, how) ==
    /\ outcome' = [outcome EXCEPT ![p] = how]
    /\ lock' = Nobody
    /\ LET ends == p = Owner /\ (stage = "close" \/ how # "answered")
       IN  /\ pc' = [pc EXCEPT ![p] = IF ends THEN "ending" ELSE "idle"]
           /\ stage' = IF p = Owner /\ ~ends THEN "open" ELSE stage

Begin(p) ==
    /\ pc[p] = "idle"
    /\ lock = Nobody
    /\ IF p = Owner THEN stage \in {"hello", "open"} ELSE stage # "hello"
    /\ p = Owner \/ nextID < MaxRequests
    /\ IF Down
       THEN /\ outcome' = [outcome EXCEPT ![p] = "failed"]
            /\ pc' = [pc EXCEPT ![p] = IF p = Owner THEN "ending" ELSE "idle"]
            /\ UNCHANGED <<lock, id, nextID, active>>
       ELSE /\ lock' = p
            /\ nextID' = nextID + 1
            /\ id' = [id EXCEPT ![p] = nextID']
            /\ active' = nextID'
            /\ pc' = [pc EXCEPT ![p] = "writing"]
            /\ outcome' = [outcome EXCEPT ![p] = "none"]
    /\ stage' = IF p = Owner /\ stage = "open" THEN "close" ELSE stage
    /\ UNCHANGED <<slot, finish, taken, stream, health, process>>

ClearActive(p) == active' = IF active = id[p] THEN 0 ELSE active

Write(p) ==
    /\ pc[p] = "writing"
    /\ SocketOpen
    /\ pc' = [pc EXCEPT ![p] = "waiting"]
    /\ toHelper' = Append(toHelper, id[p])
    /\ UNCHANGED <<lock, id, outcome, stage, nextID, active, slot, finish, taken,
                   reader, holding, fromHelper, health, process>>

WriteFails(p) ==
    /\ pc[p] = "writing"
    /\ pc' = [pc EXCEPT ![p] = "finishing"]
    /\ outcome' = [outcome EXCEPT ![p] = "failed"]
    /\ ClearActive(p)
    /\ UNCHANGED <<lock, id, stage, nextID, slot, finish, taken, stream, health,
                   process>>

Receive(p) ==
    /\ pc[p] = "waiting"
    /\ slot # <<>>
    /\ slot' = <<>>
    /\ Return(p, IF Head(slot) = 0 THEN "failed"
                 ELSE IF Head(slot) = id[p] THEN "answered" ELSE "misanswered")
    /\ UNCHANGED <<id, nextID, active, finish, taken, stream, health, process>>

(* Fault: a request that times out leaves the connection up.                   *)
TimeoutAndGoOn(p) ==
    /\ pc[p] = "waiting"
    /\ ClearActive(p)
    /\ Return(p, "timeout")
    /\ UNCHANGED <<id, nextID, slot, finish, taken, stream, health, process>>

(* Fault: the timer is never armed.                                            *)
TimerNotArmed(p) == FALSE

(* The outcome of a timed-out request is unknowable: the channel is torn down  *)
(* before anybody can make another.                                            *)
Timeout(p) ==
    /\ pc[p] = "waiting"
    /\ pc' = [pc EXCEPT ![p] = "finishing"]
    /\ outcome' = [outcome EXCEPT ![p] = "timeout"]
    /\ ClearActive(p)
    /\ UNCHANGED <<lock, id, stage, nextID, slot, finish, taken, stream, health,
                   process>>

FinishReturns(p) ==
    /\ pc[p] = "finishing"
    /\ finish = "done"
    /\ Return(p, outcome[p])
    /\ UNCHANGED <<id, nextID, active, slot, finish, taken, stream, health, process>>

-----------------------------------------------------------------------------
(* finish, a sync.Once.                                                        *)
FinishWanted == reader = "finishing" \/ \E p \in Procs : pc[p] \in {"finishing", "ending"}

FinishBegins ==
    /\ finish = "no"
    /\ FinishWanted
    /\ finish' = "begun"
    /\ terminal' = TRUE
    /\ UNCHANGED <<request, active, slot, taken, stream, sent, events, delivered,
                   waiting, process>>

FinishMarks ==
    /\ finish = "begun"
    /\ finish' = "marked"
    /\ taken' = active
    /\ active' = 0
    /\ UNCHANGED <<request, slot, stream, health, process>>

FinishAnswers ==
    /\ finish = "marked"
    /\ taken # 0 => slot = <<>>
    /\ finish' = "answered"
    /\ slot' = IF taken # 0 THEN <<0>> ELSE slot
    /\ UNCHANGED <<request, active, taken, stream, health, process>>

(* Frames that are in flight when the socket closes are lost.                  *)
FinishCloses ==
    /\ finish = "answered"
    /\ finish' = "done"
    /\ toHelper' = <<>> /\ fromHelper' = <<>>
    /\ UNCHANGED <<request, active, slot, taken, reader, holding, health, process>>

-----------------------------------------------------------------------------
(* readFrames.                                                                 *)
ReadResponse ==
    /\ reader = "reading"
    /\ SocketOpen
    /\ fromHelper # <<>>
    /\ Head(fromHelper).kind = "response"
    /\ fromHelper' = Tail(fromHelper)
    /\ holding' = Head(fromHelper).id
    /\ IF holding' = active
       THEN active' = 0 /\ reader' = "delivering"
       ELSE active' = active /\ reader' = "finishing"
    /\ UNCHANGED <<request, slot, finish, taken, toHelper, health, process>>

DeliverResponse ==
    /\ reader = "delivering"
    /\ slot = <<>>
    /\ slot' = <<holding>>
    /\ reader' = "reading"
    /\ UNCHANGED <<request, active, finish, taken, holding, toHelper, fromHelper, health,
                   process>>

ReadTerminal ==
    /\ reader = "reading"
    /\ SocketOpen
    /\ fromHelper # <<>>
    /\ Head(fromHelper).kind = "terminal"
    /\ fromHelper' = Tail(fromHelper)
    /\ terminal' = TRUE
    /\ reader' = "finishing"
    /\ UNCHANGED <<request, active, slot, finish, taken, holding, toHelper, sent, events,
                   delivered, waiting, process>>

(* A full event buffer drops the event: events only say the connection lives.  *)
ReadEvent ==
    /\ reader = "reading"
    /\ SocketOpen
    /\ fromHelper # <<>>
    /\ Head(fromHelper).kind = "event"
    /\ fromHelper' = Tail(fromHelper)
    /\ events' \in {events, events + 1}
    /\ UNCHANGED <<request, active, slot, finish, taken, reader, holding, toHelper,
                   sent, terminal, delivered, waiting, process>>

(* The end of the stream: the socket closed on this side, or the helper gone.  *)
ReadFails ==
    /\ reader = "reading"
    /\ ~SocketOpen \/ (helper = "exited" /\ fromHelper = <<>>)
    /\ reader' = "finishing"
    /\ UNCHANGED <<request, active, slot, finish, taken, holding, toHelper, fromHelper,
                   health, process>>

ReaderStops ==
    /\ reader = "finishing"
    /\ finish = "done"
    /\ reader' = "stopped"
    /\ UNCHANGED <<request, active, slot, finish, taken, holding, toHelper, fromHelper,
                   health, process>>

-----------------------------------------------------------------------------
(* WaitForEvent.                                                               *)
Take(w, otherwise) ==
    IF terminal /\ ~delivered
    THEN delivered' = TRUE /\ waiting' = [waiting EXCEPT ![w] = "terminal"]
    ELSE delivered' = delivered /\ waiting' = [waiting EXCEPT ![w] = otherwise]

StartWaiting(w) ==
    /\ waiting[w] \in {"idle", "event"}
    /\ Take(w, IF delivered THEN "closed" ELSE "select")
    /\ UNCHANGED <<request, active, slot, finish, taken, stream, sent, events,
                   terminal, process>>

TakeEvent(w) ==
    /\ waiting[w] = "select"
    /\ events > 0
    /\ events' = events - 1
    /\ Take(w, "event")
    /\ UNCHANGED <<request, active, slot, finish, taken, stream, sent, terminal,
                   process>>

(* Fault: nobody closes the terminal signal.                                   *)
SignalLost(w) == FALSE

(* The terminal signal sends the waiter round the loop again, the end of       *)
(* finish does the same but always returns.                                    *)
Wake(w) ==
    /\ waiting[w] = "select"
    /\ terminal
    /\ Take(w, "closed")
    /\ UNCHANGED <<request, active, slot, finish, taken, stream, sent, events,
                   terminal, process>>

-----------------------------------------------------------------------------
(* The end of Dial's failure path and of Close.  Close gives the helper time   *)
(* to exit and kills it when it does not; Dial kills it at once.  The wait     *)
(* after the kill is bounded too.  An exit with a bad status also sends Close  *)
(* to terminateProcess, which finds the process done.                          *)
Ends(from, to, problem) ==
    /\ pc[Owner] = from
    /\ pc' = [pc EXCEPT ![Owner] = to]
    /\ processErr' = processErr \cup problem
    /\ UNCHANGED <<lock, id, outcome, stage, nextID, active, slot, finish, taken,
                   stream, health>>

Finished ==
    /\ finish = "done"
    /\ Ends("ending", IF stage = "close" THEN "reaping" ELSE "killing", {})
    /\ UNCHANGED helper

Reaped ==
    /\ helper = "exited"
    /\ \E from \in {"reaping", "killed"} : Ends(from, "returned", {})
    /\ UNCHANGED helper

(* Fault: the exit timeout is only reported.                                   *)
ReapGivesUp == Ends("reaping", "returned", {}) /\ UNCHANGED helper

ReapTimeout == Ends("reaping", "killing", {}) /\ UNCHANGED helper

(* A process that has been waited for is done: killing it is no error.         *)
Kill ==
    /\ Ends("killing", "killed", {})
    /\ helper' = IF helper = "exited" THEN "exited" ELSE "killed"

KillFails ==
    /\ helper # "exited"
    /\ Ends("killing", "killed", {"kill"})
    /\ UNCHANGED helper

KillTimeout == Ends("killed", "returned", {"unreaped"}) /\ UNCHANGED helper

-----------------------------------------------------------------------------
(* What the stream shows of the helper: it answers in order, reports events,   *)
(* reports the end of its X connection, and exits on a close request, on the   *)
(* end of the stream, or unasked.  A killed one does nothing but exit, in its  *)
(* own time.                                                                   *)
HelperAnswers ==
    /\ helper = "running"
    /\ toHelper # <<>>
    /\ SocketOpen
    /\ toHelper' = Tail(toHelper)
    /\ fromHelper' = Append(fromHelper, Response(Head(toHelper)))
    /\ UNCHANGED <<request, active, slot, finish, taken, reader, holding, health,
                   process>>

HelperReports(frame) ==
    /\ helper = "running"
    /\ SocketOpen
    /\ sent < MaxEvents
    /\ sent' = sent + 1
    /\ fromHelper' = Append(fromHelper, frame)
    /\ UNCHANGED <<request, active, slot, finish, taken, reader, holding, toHelper,
                   events, terminal, delivered, waiting, process>>

HelperExits ==
    /\ helper # "exited"
    /\ helper' = "exited"
    /\ UNCHANGED <<request, active, slot, finish, taken, stream, health, processErr>>

-----------------------------------------------------------------------------
Request(p) ==
    \/ Begin(p) \/ Write(p) \/ WriteFails(p) \/ Receive(p) \/ Timeout(p)
    \/ FinishReturns(p)
Finish == FinishBegins \/ FinishMarks \/ FinishAnswers \/ FinishCloses
Reader ==
    \/ ReadResponse \/ DeliverResponse \/ ReadTerminal \/ ReadEvent \/ ReadFails
    \/ ReaderStops
Wait(w) == StartWaiting(w) \/ TakeEvent(w) \/ Wake(w)
End ==
    \/ Finished \/ Reaped \/ ReapTimeout
    \/ Kill \/ KillFails \/ KillTimeout
Helper ==
    \/ HelperAnswers
    \/ \E frame \in {Terminal, Event} : HelperReports(frame)
    \/ HelperExits

Next ==
    \/ \E p \in Procs : Request(p)
    \/ Finish
    \/ Reader
    \/ \E w \in Waiters : Wait(w)
    \/ End
    \/ Helper

Spec == Init /\ [][Next]_vars

(* The parent's goroutines run; a timer that is waited for fires.  A caller    *)
(* need not make a request, and the helper need not do anything, not even exit *)
(* when it is killed.                                                          *)
Advance(p) ==
    Write(p) \/ WriteFails(p) \/ Receive(p) \/ Timeout(p) \/ FinishReturns(p)
FairSpec ==
    /\ Spec
    /\ \A p \in Procs : WF_vars(Advance(p))
    /\ WF_vars(Finish)
    /\ WF_vars(Reader)
    /\ \A w \in Waiters : WF_vars(Wait(w))
    /\ WF_vars(End)

-----------------------------------------------------------------------------
TypeRequests ==
    /\ lock \in Procs \cup {Nobody}
    /\ pc \in [Procs -> {"idle", "writing", "waiting", "finishing", "ending",
                         "reaping", "killing", "killed", "returned"}]
    /\ \A p \in Procs : pc[p] \in {"writing", "waiting", "finishing"} <=> lock = p
    /\ nextID \in Nat /\ id \in [Procs -> 0..nextID]
    /\ outcome \in [Procs -> {"none", "answered", "misanswered", "failed", "timeout"}]
    /\ stage \in {"hello", "open", "close"}

TypeSlot ==
    /\ active \in 0..nextID /\ taken \in 0..nextID /\ holding \in 0..nextID
    /\ slot = <<>> \/ \E n \in 0..nextID : slot = <<n>>
    /\ finish \in {"no", "begun", "marked", "answered", "done"}
    /\ reader \in {"reading", "delivering", "finishing", "stopped"}

Frames == [kind : {"response"}, id : 1..nextID] \cup {Terminal, Event}

TypeStream ==
    /\ toHelper \in Seq(1..nextID) /\ fromHelper \in Seq(Frames)
    /\ helper \in {"running", "killed", "exited"}
    /\ processErr \in SUBSET {"kill", "unreaped"}

TypeHealth ==
    /\ sent \in 0..MaxEvents /\ events \in Nat
    /\ waiting \in [Waiters -> {"idle", "select", "event", "terminal", "closed"}]

TypeSignals == terminal \in BOOLEAN /\ delivered \in BOOLEAN

(* The state is well formed, and the lock is held exactly during a request.    *)
TypeOK == TypeRequests /\ TypeSlot /\ TypeStream /\ TypeHealth /\ TypeSignals

(* A request is answered by its own response, however late or unexpected the   *)
(* responses of earlier ones arrive.                                           *)
OwnAnswer == \A p \in Procs : outcome[p] # "misanswered"

(* The single response slot is free whenever somebody is about to fill it, so  *)
(* neither the reader nor finish ever blocks on it.                            *)
SlotFree ==
    /\ reader = "delivering" => slot = <<>>
    /\ finish = "marked" /\ taken # 0 => slot = <<>> /\ reader # "delivering"

(* A request whose outcome is unknown is the last one: no other is written to  *)
(* the helper afterwards.                                                      *)
NothingAfterTimeout ==
    \A p, q \in Procs :
        outcome[p] = "timeout" => pc[q] \notin {"writing", "waiting"}

(* When a failed Dial or Close returns, the connection is down and the helper  *)
(* has exited, unless the error says that it could not be reaped; even then it *)
(* has been sent SIGKILL, unless the error says that this failed.              *)
NoOrphan ==
    pc[Owner] = "returned" =>
        /\ finish = "done"
        /\ helper = "exited" \/ "unreaped" \in processErr
        /\ helper # "running" \/ "kill" \in processErr

(* Every request returns, the owner's too, which goes on to the end of its     *)
(* Dial failure or Close; every waiter is woken when the connection ends.      *)
RequestsReturn ==
    /\ \A p \in Callers : (lock = p) ~> (lock # p)
    /\ (lock = Owner) ~> (lock # Owner /\ pc[Owner] \in {"idle", "returned"})
WaitersReturn ==
    \A w \in Waiters : (finish = "done") ~> (waiting[w] \in {"terminal", "closed"})
=============================================================================
