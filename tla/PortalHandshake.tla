--------------------------- MODULE PortalHandshake ---------------------------
(* Opening a session with the desktop portal over D-Bus, for RemoteDesktop     *)
(* (src/input/portal/remote_desktop_open_linux.go) and for ScreenCast          *)
(* (src/screen/portal/screencast_linux.go): requests whose answers are         *)
(* signals, that may come before the reply to the call, late, malformed or     *)
(* never; a session that may be made at another path than the predicted one,   *)
(* and be closed by the portal at any time; and the clean-up of what a failed  *)
(* attempt may have made.                                                      *)
(*                                                                             *)
(* Assumed of the portal: it makes no session when it rejects or cancels a     *)
(* request, handles the calls of a connection in order, and ends the sessions  *)
(* of a connection that is closed or lost.                                     *)
EXTENDS Naturals, Sequences

CONSTANTS Attempts   \* calls that open a session, each with its connection

Paths == {"predicted", "other"}
NoPath == "none"

VARIABLES
    kind,      \* what is opened: "remote" or "cast"
    bus,       \* bus[a]: "none", "up", "lost", or "left" by this side
    remote,    \* remote[a]: the portal's session, [path, alive]
    request,   \* request[a]: "none", "pending" or "answered"
    inbox,     \* inbox[a]: signals delivered and not yet read
    ctx,       \* ctx[a]: the caller's context, "live" or "done"
    step,      \* step[a]: how far the attempt is
    phase,     \* phase[a]: of a request, "send", "reply" or "await"
    path,      \* path[a]: the session that clean-up owes a Close
    known,     \* known[a]: closedSessions, the sessions known to be closed
    err,       \* err[a]: the class of the error the attempt failed with
    fd,        \* fd[a]: pipeWireFD, "none", "open" or "closed"
    asked      \* history: the sessions this side has asked to close

atPortal == <<remote, request>>
opening == <<step, phase, path, known, err, fd, asked>>
handshake == <<kind, bus, remote, request, inbox, ctx, step, phase, path, known,
               err, fd, asked>>

HandshakeInit ==
    /\ kind \in {"remote", "cast"}
    /\ bus = [a \in Attempts |-> "none"]
    /\ remote = [a \in Attempts |-> [path |-> NoPath, alive |-> FALSE]]
    /\ request = [a \in Attempts |-> "none"]
    /\ inbox = [a \in Attempts |-> <<>>]
    /\ ctx = [a \in Attempts |-> "live"]
    /\ step = [a \in Attempts |-> "idle"]
    /\ phase = [a \in Attempts |-> "send"]
    /\ path = [a \in Attempts |-> NoPath]
    /\ known = [a \in Attempts |-> {}]
    /\ err = [a \in Attempts |-> "none"]
    /\ fd = [a \in Attempts |-> "none"]
    /\ asked = [a \in Attempts |-> {}]

Requests == {"create", "devices", "sources", "start"}

Closed(p) == [signal |-> "closed", path |-> p, code |-> "ok"]
Response(p, c) == [signal |-> "response", path |-> p, code |-> c]

Deliver(a, signal) == inbox' = [inbox EXCEPT ![a] = Append(@, signal)]

Put(a, where, how) ==
    /\ step' = [step EXCEPT ![a] = where]
    /\ phase' = [phase EXCEPT ![a] = how]

(* Fault: ScreenCast's narrower choice also for RemoteDesktop.                 *)
RemoteKeepsLess(a, e) ==
    phase[a] # "send" /\ e \in {"context", "handle"}

(* What RemoteDesktop keeps of a session it may have made unknowingly: all     *)
(* failures after the call was sent but those that say there is none.          *)
RemoteKeeps(a, e) ==
    /\ phase[a] # "send"
    /\ e \notin {"cancelled", "rejected", "closed", "unavailable"}

(* What ScreenCast keeps: only when the caller gave up, or the handle of the   *)
(* session is missing in a response that is otherwise good.                    *)
CastKeeps(a, e) == phase[a] # "send" /\ e \in {"context", "handle"}

Keeps(a, e) == IF kind = "remote" THEN RemoteKeeps(a, e) ELSE CastKeeps(a, e)

(* The attempt fails: later steps owe the Close of the session created.        *)
Fail(a, e) ==
    /\ Put(a, "failing", "send")
    /\ err' = [err EXCEPT ![a] = e]
    /\ path' = [path EXCEPT ![a] =
         IF step[a] # "create" THEN @
         ELSE IF Keeps(a, e) THEN "predicted" ELSE NoPath]

(* The signals are registered and the session's match added before anything   *)
(* is called; the match may fail.                                              *)
Begin(a) ==
    /\ step[a] = "idle"
    /\ bus' = [bus EXCEPT ![a] = "up"]
    /\ \/ Put(a, "create", "send") /\ UNCHANGED err
       \/ Put(a, "leaving", "send") /\ err' = [err EXCEPT ![a] = "setup"]
    /\ UNCHANGED <<kind, atPortal, inbox, ctx, path, known, fd, asked>>

(* waitRequest: the match, then the call. A token or a match may fail.         *)
Send(a) ==
    /\ step[a] \in Requests /\ phase[a] = "send"
    /\ \/ /\ Put(a, step[a], "reply")
          /\ request' = [request EXCEPT ![a] = "pending"]
          /\ UNCHANGED <<path, err>>
       \/ Fail(a, "setup") /\ UNCHANGED request
    /\ UNCHANGED <<kind, bus, remote, inbox, ctx, known, fd, asked>>

(* The call returns a request path, or one that is invalid (the request at     *)
(* the predicted path is then closed), or an error.                            *)
Reply(a) ==
    /\ step[a] \in Requests /\ phase[a] = "reply" /\ bus[a] = "up"
    /\ \/ /\ Put(a, step[a], "await")
          /\ UNCHANGED <<request, path, err>>
       \/ /\ Fail(a, "garbled")
          /\ request' = [request EXCEPT ![a] = "none"]
       \/ /\ Fail(a, "call")
          /\ request' = [request EXCEPT ![a] =
               IF ctx[a] = "done" THEN "none" ELSE @]
    /\ UNCHANGED <<kind, bus, remote, inbox, ctx, known, fd, asked>>

(* The call returns without a reply, with the context or with the connection.  *)
ReplyLost(a) ==
    /\ step[a] \in Requests /\ phase[a] = "reply"
    /\ \/ /\ ctx[a] = "done"
          /\ Fail(a, "context")
          /\ request' = [request EXCEPT ![a] = "none"]
       \/ /\ bus[a] = "lost" /\ ctx[a] = "live"
          /\ Fail(a, "call")
          /\ UNCHANGED request
    /\ UNCHANGED <<kind, bus, remote, inbox, ctx, known, fd, asked>>

-----------------------------------------------------------------------------
(* The steps that follow a successful request.                                 *)
AfterRemote(s) ==
    CASE s = "create" -> {"devices"}
      [] s = "devices" -> {"sources", "start"}
      [] s = "sources" -> {"start"}
      [] s = "start" -> {"opened"}

AfterCast(s) ==
    CASE s = "create" -> {"sources"}
      [] s = "sources" -> {"start"}
      [] s = "start" -> {"fd"}

After(s) == IF kind = "remote" THEN AfterRemote(s) ELSE AfterCast(s)

Watched(a) == IF step[a] = "create" THEN "predicted" ELSE path[a]

(* A good response: the session is created, unless it is at another path and   *)
(* closed already, or the next request is due. What Start grants may fall      *)
(* short; removing the request's match may fail.                               *)
Good(a, p) ==
    \/ /\ step[a] = "create" /\ p \in known[a]
       /\ Fail(a, "closed")
    \/ /\ step[a] = "create" /\ p \notin known[a]
       /\ path' = [path EXCEPT ![a] = p]
       /\ \/ \E s \in After("create") : Put(a, s, "send")
             /\ UNCHANGED err
          \/ /\ Put(a, "failing", "send")
             /\ err' = [err EXCEPT ![a] = "setup"]
    \/ /\ step[a] # "create"
       /\ \/ \E s \in After(step[a]) : Put(a, s, "send")
             /\ UNCHANGED <<path, err>>
          \/ Fail(a, "setup")
          \/ step[a] = "start" /\ Fail(a, "refused")

(* parseResponse and resultSessionPath.                                        *)
Read(a, signal) ==
    IF signal.code = "ok" THEN Good(a, signal.path) ELSE Fail(a, signal.code)

(* waitRequest's loop reads one signal.                                        *)
ReadSignal(a) ==
    /\ step[a] \in Requests /\ phase[a] = "await" /\ inbox[a] # <<>>
    /\ inbox' = [inbox EXCEPT ![a] = Tail(@)]
    /\ LET signal == Head(inbox[a]) IN
         IF signal.signal = "closed"
         THEN /\ known' = [known EXCEPT ![a] = @ \cup {signal.path}]
              /\ IF signal.path = Watched(a)
                 THEN Fail(a, "closed")
                 ELSE UNCHANGED <<step, phase, path, err>>
         ELSE /\ Read(a, signal)
              /\ UNCHANGED known
    /\ UNCHANGED <<kind, bus, atPortal, ctx, fd, asked>>

(* The loop ends with the context, after closing the request, or with the      *)
(* connection.                                                                 *)
AwaitEnds(a) ==
    /\ step[a] \in Requests /\ phase[a] = "await"
    /\ \/ /\ ctx[a] = "done"
          /\ Fail(a, "context")
          /\ request' = [request EXCEPT ![a] = "none"]
       \/ /\ bus[a] = "lost"
          /\ Fail(a, "unavailable")
          /\ UNCHANGED request
    /\ UNCHANGED <<kind, bus, remote, inbox, ctx, known, fd, asked>>

(* ScreenCast's last step: OpenPipeWireRemote, then the session is opened.     *)
OpenRemote(a) ==
    /\ step[a] = "fd" /\ bus[a] = "up"
    /\ \/ /\ Put(a, "opened", "send")
          /\ fd' = [fd EXCEPT ![a] = "open"]
          /\ UNCHANGED <<path, err>>
       \/ Fail(a, "call") /\ UNCHANGED fd
    /\ UNCHANGED <<kind, bus, atPortal, inbox, ctx, known, asked>>

OpenRemoteFails(a) ==
    /\ step[a] = "fd"
    /\ ctx[a] = "done" \/ bus[a] = "lost"
    /\ Fail(a, "context")
    /\ UNCHANGED <<kind, bus, atPortal, inbox, ctx, known, fd, asked>>

-----------------------------------------------------------------------------
(* Leaving: the deferred calls of a failed attempt, and Session.finish.        *)

(* A session known to be closed is not closed again.                           *)
OwesClose(a) == path[a] # NoPath /\ path[a] \notin known[a]

Kill(a) == remote' = [remote EXCEPT ![a].alive = FALSE]

(* closeSession: the portal ends the session, or the call fails or times out.  *)
AskClose(a) ==
    /\ asked' = [asked EXCEPT ![a] = @ \cup {path[a]}]
    /\ \/ remote[a].path = path[a] /\ bus[a] = "up" /\ Kill(a)
       \/ UNCHANGED remote

CleanUp(a) ==
    /\ step[a] = "failing"
    /\ IF OwesClose(a) THEN AskClose(a) ELSE UNCHANGED <<remote, asked>>
    /\ Put(a, "leaving", "send")
    /\ UNCHANGED <<kind, bus, request, inbox, ctx, path, known, err, fd>>

(* finish, once: done is closed, and ScreenCast's descriptor with it.          *)
Finish(a, closeRemote) ==
    IF step[a] = "opened"
    THEN /\ Put(a, IF closeRemote THEN "finishing" ELSE "leaving", "send")
         /\ fd' = [fd EXCEPT ![a] = IF @ = "open" THEN "closed" ELSE @]
    ELSE UNCHANGED <<step, phase, fd>>

FinishAsks(a) ==
    /\ step[a] = "finishing"
    /\ AskClose(a)
    /\ Put(a, "leaving", "send")
    /\ UNCHANGED <<kind, bus, request, inbox, ctx, path, known, err, fd>>

(* The match and the signals are removed and the connection is closed, which   *)
(* ends all there was; only the outcome of the attempt remains.                *)
Leave(a) ==
    /\ step[a] = "leaving"
    /\ bus' = [bus EXCEPT ![a] = "left"]
    /\ remote' = [remote EXCEPT ![a] = [path |-> NoPath, alive |-> FALSE]]
    /\ request' = [request EXCEPT ![a] = "none"]
    /\ inbox' = [inbox EXCEPT ![a] = <<>>]
    /\ Put(a, "gone", "send")
    /\ ctx' = [ctx EXCEPT ![a] = "done"]
    /\ path' = [path EXCEPT ![a] = NoPath]
    /\ known' = [known EXCEPT ![a] = {}]
    /\ asked' = [asked EXCEPT ![a] = {}]
    /\ err' = [err EXCEPT ![a] = IF @ = "none" THEN @ ELSE "failed"]
    /\ UNCHANGED <<kind, fd>>

(* Session.monitor: the portal closes the session, or the connection is lost.  *)
Monitor(a) ==
    /\ step[a] = "opened"
    /\ \/ /\ inbox[a] # <<>>
          /\ inbox' = [inbox EXCEPT ![a] = Tail(@)]
          /\ IF Head(inbox[a]) = Closed(path[a])
             THEN /\ known' = [known EXCEPT ![a] = @ \cup {path[a]}]
                  /\ Finish(a, FALSE)
             ELSE UNCHANGED <<known, step, phase, fd>>
       \/ /\ bus[a] = "lost"
          /\ Finish(a, FALSE)
          /\ UNCHANGED <<inbox, known>>
    /\ UNCHANGED <<kind, bus, atPortal, ctx, path, err, asked>>

-----------------------------------------------------------------------------
(* The portal and the bus.                                                     *)

(* A request is answered. A session may be made although the response has no   *)
(* handle or cannot be read.                                                   *)
PortalAnswers(a) ==
    /\ request[a] = "pending" /\ bus[a] = "up"
    /\ request' = [request EXCEPT ![a] = "answered"]
    /\ \/ \E p \in Paths, c \in {"ok", "handle", "malformed"} :
            /\ remote[a].path = NoPath
            /\ remote' = [remote EXCEPT ![a] = [path |-> p, alive |-> TRUE]]
            /\ Deliver(a, Response(p, c))
       \/ \E c \in {"ok", "malformed"} :
            /\ remote[a].path # NoPath
            /\ Deliver(a, Response(remote[a].path, c))
            /\ UNCHANGED remote
       \/ \E c \in {"cancelled", "rejected"} :
            /\ Deliver(a, Response(NoPath, c))
            /\ UNCHANGED remote
    /\ UNCHANGED <<kind, bus, ctx, opening>>

PortalCloses(a) ==
    /\ remote[a].alive /\ bus[a] = "up"
    /\ Kill(a)
    /\ Deliver(a, Closed(remote[a].path))
    /\ UNCHANGED <<kind, bus, request, ctx, opening>>

BusLost(a) ==
    /\ bus[a] = "up"
    /\ bus' = [bus EXCEPT ![a] = "lost"]
    /\ Kill(a)
    /\ UNCHANGED <<kind, request, inbox, ctx, opening>>

(* The caller's context ends, or whoever closes the capture cancels it.        *)
Cancelled(a) == ctx' = [ctx EXCEPT ![a] = "done"]

CallerGivesUp(a) ==
    /\ step[a] \in Requests \cup {"fd"} /\ ctx[a] = "live"
    /\ Cancelled(a)
    /\ UNCHANGED <<kind, bus, atPortal, inbox, opening>>

-----------------------------------------------------------------------------
(* What this side does by itself, without an answer of the portal.             *)
Progress(a) ==
    \/ Send(a) \/ ReplyLost(a) \/ ReadSignal(a) \/ AwaitEnds(a)
    \/ OpenRemoteFails(a) \/ CleanUp(a) \/ FinishAsks(a) \/ Leave(a)
    \/ Monitor(a)

Portal(a) == Reply(a) \/ OpenRemote(a) \/ PortalAnswers(a)

Trouble(a) == PortalCloses(a) \/ BusLost(a) \/ CallerGivesUp(a)

(* The portal's session is one whose path this side can name.                  *)
Nameable(a) == remote[a].path \in {"predicted", path[a]} \ {NoPath}

(* The failures after which ScreenCast relies on the end of its connection.    *)
LeftToTheBus(a) == kind = "cast" /\ err[a] \in {"call", "garbled", "malformed"}

(* A session is asked to close unless the portal said that it has closed, and *)
(* never after that: an attempt that leaves the bus, having failed or been     *)
(* closed, has asked every session it may have made and can name.              *)
SessionsSettled ==
    \A a \in Attempts :
      /\ asked[a] \cap known[a] = {}
      /\ step[a] = "leaving" /\ bus[a] = "up" /\ Nameable(a) /\ ~LeftToTheBus(a)
           => remote[a].path \in asked[a] \cup known[a]
=============================================================================
