------------------------------ MODULE ScreenCast ------------------------------
(* The one ScreenCast capture of a process: StartScreenCastCapture,            *)
(* CloseScreenCastCapture, CaptureScreenCast and ScreenCastCaptureReady        *)
(* (src/screencast_capture.go), over the session that PortalHandshake opens    *)
(* and the native PipeWire stream that reads its frames                        *)
(* (src/screen/portal/pipewire.go, pipewire_linux.go).                         *)
(*                                                                             *)
(* With kind "remote" a Start stands for a caller that opens a RemoteDesktop   *)
(* session and closes it; PortalInput has the use of that session.             *)
(*                                                                             *)
(* Abstracted: the frames. A call into the native stream, which waits at most  *)
(* 100 ms for one, ends with a frame, an error or a time-out.                  *)
EXTENDS PortalHandshake

CONSTANTS
    Starters,     \* goroutines that call Start
    Closers,      \* goroutines that call Close
    Readers,      \* goroutines that capture
    Nobody,
    MaxStarts,    \* bound on the calls of Start
    MaxCloses,    \* bound on the calls of Close
    MaxTroubles   \* bound on sessions and connections lost and contexts ended

Procs == Starters \cup Closers \cup Readers

ASSUME ScreenCastAssumption ==
    /\ MaxStarts \in Nat /\ Attempts = 1..MaxStarts
    /\ MaxCloses \in Nat /\ MaxTroubles \in Nat
    /\ Nobody \notin Procs

VARIABLES
    op,        \* who has screenCastCaptureOperation
    pending,   \* screenCastCapturePending.start: the attempt it cancels, or 0
    closing,   \* screenCastCapturePending.closing
    current,   \* screenCastCaptureState.capture, 0 for nil
    stopped,   \* stopped[a]: the capture's and its source's closing flags
    closed,    \* closed[a]: PipeWireCapture.closed
    capLock,   \* capLock[a]: who has PipeWireCapture.mu
    srcLock,   \* srcLock[a]: who has cgoPipeWireFrameSource.mu
    stream,    \* stream[a]: "none", "live" or "freed"
    pc,
    at,        \* at[p]: the capture p works on, 0 for none
    after,     \* after[p]: what p does once the capture is closed
    starts, closes, troubles

manager == <<op, pending, closing, current>>
locks   == <<capLock, srcLock>>
control == <<pc, at, after>>
bounds  == <<starts, closes, troubles>>
capture == <<stopped, closed, locks, stream>>
vars    == <<handshake, manager, capture, control, bounds>>

Init ==
    /\ HandshakeInit
    /\ op = Nobody /\ pending = 0 /\ closing = 0 /\ current = 0
    /\ stopped = [a \in Attempts |-> FALSE]
    /\ closed = [a \in Attempts |-> FALSE]
    /\ capLock = [a \in Attempts |-> Nobody]
    /\ srcLock = [a \in Attempts |-> Nobody]
    /\ stream = [a \in Attempts |-> "none"]
    /\ pc = [p \in Procs |-> "idle"]
    /\ at = [p \in Procs |-> 0]
    /\ after = [p \in Procs |-> "none"]
    /\ starts = 0 /\ closes = 0 /\ troubles = 0

Go(p, where) == pc' = [pc EXCEPT ![p] = where]
Take(lock, a, p) == lock[a] = Nobody /\ lock' = [lock EXCEPT ![a] = p]
Drop(lock, a) == lock' = [lock EXCEPT ![a] = Nobody]

(* p returns from its call.                                                    *)
Return(p) ==
    /\ Go(p, "idle")
    /\ at' = [at EXCEPT ![p] = 0]
    /\ after' = [after EXCEPT ![p] = "none"]

-----------------------------------------------------------------------------
(* StartScreenCastCapture.                                                     *)
Start(p) ==
    /\ pc[p] = "idle" /\ starts < MaxStarts
    /\ starts' = starts + 1
    /\ at' = [at EXCEPT ![p] = starts + 1]
    /\ Go(p, "starting")
    /\ UNCHANGED <<handshake, manager, capture, after, closes, troubles>>

(* A Start that finds a Close under way gives up.                              *)
StartEnters(p) ==
    /\ pc[p] = "starting" /\ op = Nobody
    /\ \/ /\ closing > 0
          /\ Return(p)
          /\ UNCHANGED <<op, pending>>
       \/ /\ closing = 0
          /\ op' = p /\ pending' = at[p]
          /\ Go(p, "opening")
          /\ UNCHANGED <<at, after>>
    /\ UNCHANGED <<handshake, closing, current, capture, bounds>>

StartReturns(p) == Return(p) /\ op' = Nobody /\ pending' = 0

BeginOpening(p) ==
    /\ pc[p] = "opening"
    /\ Begin(at[p])
    /\ UNCHANGED <<manager, capture, control, bounds>>

(* The attempt succeeded, whatever became of the session since.                *)
HasSession(a) ==
    /\ step[a] \in {"opened", "finishing", "leaving", "gone"}
    /\ err[a] = "none"

(* openPipeWireCapture: with a session, the stream is chosen.                  *)
Opened(p) ==
    /\ pc[p] = "opening" /\ kind = "cast" /\ HasSession(at[p])
    /\ \E where \in {"checking", "undoing"} : Go(p, where)
    /\ UNCHANGED <<handshake, manager, capture, at, after, bounds>>

OpeningFails(p) ==
    /\ pc[p] = "opening" /\ step[at[p]] = "gone" /\ ~HasSession(at[p])
    /\ StartReturns(p)
    /\ UNCHANGED <<handshake, closing, current, capture, bounds>>

(* RemoteDesktop: the caller has the session until it closes it.               *)
CloseRemote(p) ==
    /\ pc[p] = "opening" /\ kind = "remote" /\ HasSession(at[p])
    /\ Go(p, "undoing")
    /\ UNCHANGED <<handshake, manager, capture, at, after, bounds>>

(* PipeWireFile: done first, then the descriptor under fdMu.                   *)
CheckSession(p) ==
    /\ pc[p] = "checking"
    /\ Go(p, IF step[at[p]] = "opened" THEN "duplicating" ELSE "undoing")
    /\ UNCHANGED <<handshake, manager, capture, at, after, bounds>>

(* The descriptor is duplicated and given to robotgo_pw_capture_new.           *)
Connect(p) ==
    LET a == at[p] IN
    /\ pc[p] = "duplicating"
    /\ \/ /\ fd[a] = "open"
          /\ stream' = [stream EXCEPT ![a] = "live"]
          /\ Go(p, "readying")
       \/ /\ Go(p, "undoing")
          /\ UNCHANGED stream
    /\ UNCHANGED <<handshake, manager, stopped, closed, locks, at, after,
                   bounds>>

(* waitReady ends with the format, an error, a time-out or the context.        *)
StreamReady(p) ==
    /\ pc[p] = "readying"
    /\ Go(p, "swapping")
    /\ UNCHANGED <<handshake, manager, capture, at, after, bounds>>

Free(a) == stream' = [stream EXCEPT ![a] = "freed"]

StreamFails(p) ==
    LET a == at[p] IN
    /\ pc[p] = "readying"
    /\ stopped' = [stopped EXCEPT ![a] = TRUE]
    /\ Free(a)
    /\ Go(p, "undoing")
    /\ UNCHANGED <<handshake, manager, closed, locks, at, after, bounds>>

(* The session of a capture that could not be opened is closed.                *)
Undo(p) ==
    /\ pc[p] = "undoing"
    /\ Finish(at[p], TRUE)
    /\ after' = [after EXCEPT ![p] = "return"]
    /\ Go(p, "finishing")
    /\ UNCHANGED <<kind, bus, atPortal, inbox, ctx, path, known, err, asked,
                   manager, capture, at, bounds>>

(* The previous capture is closed first.                                       *)
Swap(p) ==
    /\ pc[p] = "swapping"
    /\ IF current = 0
       THEN /\ current' = at[p]
            /\ StartReturns(p)
       ELSE /\ Go(p, "stopping")
            /\ after' = [after EXCEPT ![p] = "install"]
            /\ UNCHANGED <<op, pending, current, at>>
    /\ UNCHANGED <<handshake, closing, capture, bounds>>

-----------------------------------------------------------------------------
(* PipeWireCapture.Close, of the capture that p closes.                        *)
Victim(p) == IF after[p] = "install" THEN current ELSE at[p]

(* The flags first: a capture in progress ends with its native wait.           *)
Stop(p) ==
    /\ pc[p] = "stopping"
    /\ stopped' = [stopped EXCEPT ![Victim(p)] = TRUE]
    /\ Go(p, "locking")
    /\ UNCHANGED <<handshake, manager, closed, locks, stream, at, after, bounds>>

LockToClose(p) ==
    LET a == Victim(p) IN
    /\ pc[p] = "locking"
    /\ Take(capLock, a, p)
    /\ closed' = [closed EXCEPT ![a] = TRUE]
    /\ Go(p, "freeing")
    /\ UNCHANGED <<handshake, manager, stopped, srcLock, stream, at, after,
                   bounds>>

(* Fault: the stream is freed without the source's lock.                       *)
SourceIgnored(a) == TRUE

(* Nobody is in the source when it may be freed.                               *)
SourceFree(a) == srcLock[a] = Nobody

(* cgoPipeWireFrameSource.close, then the session is closed.                   *)
FreeStream(p) ==
    LET a == Victim(p) IN
    /\ pc[p] = "freeing"
    /\ SourceFree(a)
    /\ Free(a)
    /\ Finish(a, TRUE)
    /\ Go(p, "finishing")
    /\ UNCHANGED <<kind, bus, atPortal, inbox, ctx, path, known, err, asked,
                   manager, stopped, closed, locks, at, after, bounds>>

(* Fault: the new capture is forgotten when closing the previous one fails.    *)
DiscardNothing(p) == StartReturns(p)

Discard(p) ==
    /\ Go(p, "stopping")
    /\ after' = [after EXCEPT ![p] = "return"]
    /\ UNCHANGED <<op, pending, at>>

(* finishOnce: p waits for whoever finishes the session. Closing the previous  *)
(* capture may fail, and then the new one is closed too.                       *)
Finished(p) ==
    LET a == Victim(p) IN
    /\ pc[p] = "finishing" /\ step[a] = "gone"
    /\ IF capLock[a] = p THEN Drop(capLock, a) ELSE UNCHANGED capLock
    /\ CASE after[p] = "install" ->
              \/ /\ current' = at[p]
                 /\ StartReturns(p)
                 /\ UNCHANGED closing
              \/ /\ current' = 0
                 /\ Discard(p)
                 /\ UNCHANGED closing
         [] after[p] = "return" ->
              /\ StartReturns(p)
              /\ UNCHANGED <<current, closing>>
         [] after[p] = "closed" ->
              /\ Return(p)
              /\ op' = Nobody
              /\ closing' = closing - 1
              /\ UNCHANGED <<pending, current>>
    /\ UNCHANGED <<handshake, stopped, closed, srcLock, stream, bounds>>

-----------------------------------------------------------------------------
(* Fault: the Start in progress is not cancelled.                              *)
CancelNothing == UNCHANGED ctx

(* CloseScreenCastCapture cancels the Start in progress, then waits for it.    *)
CancelPending ==
    IF pending # 0 THEN Cancelled(pending) ELSE UNCHANGED ctx

Close(p) ==
    /\ pc[p] = "idle" /\ closes < MaxCloses
    /\ closes' = closes + 1
    /\ closing' = closing + 1
    /\ CancelPending
    /\ Go(p, "closing")
    /\ UNCHANGED <<kind, bus, atPortal, inbox, opening, op, pending, current,
                   capture, at, after, starts, troubles>>

CloseEnters(p) ==
    /\ pc[p] = "closing" /\ op = Nobody
    /\ current' = 0
    /\ IF current = 0
       THEN /\ closing' = closing - 1
            /\ Return(p)
            /\ UNCHANGED op
       ELSE /\ op' = p
            /\ at' = [at EXCEPT ![p] = current]
            /\ after' = [after EXCEPT ![p] = "closed"]
            /\ Go(p, "stopping")
            /\ UNCHANGED closing
    /\ UNCHANGED <<handshake, pending, capture, bounds>>

-----------------------------------------------------------------------------
(* CaptureScreenCast and ScreenCastCaptureReady work on the capture they have  *)
(* read, whatever becomes of it.                                               *)
Grab(p) ==
    /\ pc[p] = "idle" /\ current # 0
    /\ at' = [at EXCEPT ![p] = current]
    /\ \E where \in {"capturing", "asking"} : Go(p, where)
    /\ UNCHANGED <<handshake, manager, capture, after, bounds>>

(* PipeWireCapture.Capture.                                                    *)
LockToCapture(p) ==
    LET a == at[p] IN
    /\ pc[p] = "capturing"
    /\ IF closed[a] \/ stopped[a]
       THEN capLock[a] = Nobody /\ Return(p) /\ UNCHANGED capLock
       ELSE Take(capLock, a, p) /\ Go(p, "entering") /\ UNCHANGED <<at, after>>
    /\ UNCHANGED <<handshake, manager, stopped, closed, srcLock, stream, bounds>>

(* Ready: neither the capture's lock nor its closed flag, but the session.     *)
AskReady(p) ==
    /\ pc[p] = "asking"
    /\ IF stopped[at[p]] \/ step[at[p]] # "opened"
       THEN Return(p)
       ELSE Go(p, "entering") /\ UNCHANGED <<at, after>>
    /\ UNCHANGED <<handshake, manager, capture, bounds>>

Leaves(p) ==
    /\ Return(p)
    /\ IF capLock[at[p]] = p THEN Drop(capLock, at[p]) ELSE UNCHANGED capLock

EnterSource(p) ==
    LET a == at[p] IN
    /\ pc[p] = "entering" /\ srcLock[a] = Nobody
    /\ IF stream[a] = "freed" \/ (capLock[a] = p /\ stopped[a])
       THEN Leaves(p) /\ UNCHANGED srcLock
       ELSE /\ Take(srcLock, a, p)
            /\ Go(p, "native")
            /\ UNCHANGED <<capLock, at, after>>
    /\ UNCHANGED <<handshake, manager, stopped, closed, stream, bounds>>

(* A frame, the cached one, an error or the deadline ends the call.            *)
NativeReturns(p) ==
    LET a == at[p] IN
    /\ pc[p] = "native"
    /\ Drop(srcLock, a)
    /\ Leaves(p)
    /\ UNCHANGED <<handshake, manager, stopped, closed, stream, bounds>>

-----------------------------------------------------------------------------
(* What a call does once it has begun.                                         *)
Step(p) ==
    \/ StartEnters(p) \/ BeginOpening(p) \/ Opened(p) \/ OpeningFails(p)
    \/ CloseRemote(p) \/ CheckSession(p) \/ Connect(p) \/ StreamReady(p)
    \/ StreamFails(p) \/ Undo(p) \/ Swap(p) \/ Stop(p) \/ LockToClose(p)
    \/ FreeStream(p) \/ Finished(p) \/ CloseEnters(p)
    \/ LockToCapture(p) \/ AskReady(p) \/ EnterSource(p) \/ NativeReturns(p)

(* An attempt that has begun, its monitor, and the portal.                     *)
Attempt(a) ==
    /\ Progress(a)
    /\ UNCHANGED <<manager, capture, control, bounds>>

Outside(a) ==
    /\ \/ Portal(a) /\ UNCHANGED troubles
       \/ /\ troubles < MaxTroubles
          /\ troubles' = troubles + 1
          /\ Trouble(a)
    /\ UNCHANGED <<manager, capture, control, starts, closes>>

Next ==
    \/ \E p \in Starters : Start(p)
    \/ \E p \in Closers : Close(p)
    \/ \E p \in Readers : Grab(p)
    \/ \E p \in Procs : Step(p)
    \/ \E a \in Attempts : Attempt(a) \/ Outside(a)

(* Go's mutexes do not starve a waiter, native waits and the calls that close  *)
(* a request or a session have deadlines, and a goroutine whose context or     *)
(* connection ends goes on. Nothing makes the portal answer.                   *)
Fairness ==
    /\ \A p \in Procs : SF_vars(Step(p))
    /\ \A a \in Attempts : WF_vars(Attempt(a))

Spec == Init /\ [][Next]_vars
LiveSpec == Spec /\ Fairness

-----------------------------------------------------------------------------
(* No native call, for a frame or for readiness, runs on a stream that has     *)
(* been freed, whenever the capture it has read is closed or replaced.         *)
NativeLive ==
    \A p \in Procs :
      pc[p] \in {"native", "readying"} => stream[at[p]] = "live"

(* When no Start or Close is at work, every attempt but the one in use has     *)
(* given everything back: its stream, its descriptor, its match and its        *)
(* connection, and with that the portal's session, however it ended.           *)
NothingLeft ==
    op = Nobody =>
      \A a \in Attempts \ {current} :
        /\ step[a] \in {"idle", "gone"}
        /\ stream[a] # "live" /\ fd[a] # "open" /\ ~remote[a].alive

(* A Close returns although the consent dialog of a Start is still open, a     *)
(* capture waits for a frame or the portal is silent.                          *)
CloseReturns == \A p \in Closers : pc[p] = "closing" ~> pc[p] = "idle"
=============================================================================
