---------------------------- MODULE ScreenCastProofs --------------------------
(* Proofs about ScreenCast and the handshake it extends: no native call runs   *)
(* on a stream that was freed, nothing is left behind when nobody is at work,  *)
(* and the portal's sessions are asked to close. The invariant has one part    *)
(* for each idea, most of them stated of one goroutine or of one attempt.      *)
EXTENDS ScreenCast, TLAPS

(* First the handshake: its invariant, and that whatever happens to an attempt *)
(* leaves it. What holds of an attempt is stated of it alone, since attempts   *)
(* do not touch each other.                                                    *)

(* The values of the variables of the handshake.                               *)
Signals == [signal : {"closed", "response"}, path : Paths \cup {NoPath},
            code : {"ok", "handle", "malformed", "cancelled", "rejected"}]

Rows ==
    /\ kind \in {"remote", "cast"}
    /\ DOMAIN bus = Attempts /\ DOMAIN remote = Attempts
    /\ DOMAIN request = Attempts /\ DOMAIN inbox = Attempts
    /\ DOMAIN ctx = Attempts /\ DOMAIN step = Attempts
    /\ DOMAIN phase = Attempts /\ DOMAIN path = Attempts
    /\ DOMAIN known = Attempts /\ DOMAIN err = Attempts
    /\ DOMAIN fd = Attempts /\ DOMAIN asked = Attempts

TypedOf(a) ==
    /\ remote[a] \in [path : Paths \cup {NoPath}, alive : BOOLEAN]
    /\ inbox[a] \in Seq(Signals)
    /\ step[a] \in Requests \cup {"idle", "fd", "opened", "finishing",
                                  "failing", "leaving", "gone"}
    /\ path[a] \in Paths \cup {NoPath}
    /\ known[a] \subseteq Paths
    /\ step[a] = "devices" => kind = "remote"

Typed == Rows /\ \A a \in Attempts : TypedOf(a)

(* The descriptor and the portal's session are those of an attempt under way.  *)
WiredOf(a) ==
    /\ fd[a] = "open" => step[a] = "opened"
    /\ remote[a].alive => bus[a] = "up" /\ remote[a].path # NoPath
    /\ step[a] = "idle" => bus[a] = "none"
    /\ step[a] = "gone" => bus[a] = "left"

Wired == \A a \in Attempts : WiredOf(a)

(* The portal has made no session for an attempt and is not about to.          *)
NoSession(a) == remote[a].path = NoPath /\ request[a] # "pending"

(* Before its first request an attempt has nothing, not even a signal, and     *)
(* before the first answer no session.                                         *)
BlankOf(a) ==
    /\ step[a] = "idle" \/ (step[a] = "create" /\ phase[a] = "send") =>
         request[a] = "none" /\ remote[a].path = NoPath /\ inbox[a] = <<>>
    /\ step[a] = "create" /\ request[a] = "pending" => remote[a].path = NoPath

(* What is created is the portal's session, and not known to be closed.        *)
MadeOf(a) ==
    step[a] \in (Requests \ {"create"}) \cup {"fd", "opened", "finishing"} =>
      path[a] = remote[a].path /\ path[a] \in Paths \ known[a]

(* A signal speaks of the portal's session, or says that there is none.        *)
MailOf(a) ==
    \A i \in 1..Len(inbox[a]) :
      /\ inbox[a][i].signal = "closed" \/ inbox[a][i].code = "ok"
           => inbox[a][i].path = remote[a].path /\ remote[a].path # NoPath
      /\ inbox[a][i].code \in {"cancelled", "rejected"} /\ step[a] = "create"
           => NoSession(a)

(* Only who leaves has asked, and not for what is known to be closed.          *)
AskedOf(a) ==
    /\ asked[a] # {} => step[a] = "leaving"
    /\ asked[a] \subseteq Paths \ known[a]

(* A failed attempt still knows what to ask for; one that leaves has asked.    *)
FailedOf(a) ==
    bus[a] = "up" /\ ~LeftToTheBus(a) =>
      /\ step[a] = "failing" =>
           \/ NoSession(a)
           \/ path[a] \in {remote[a].path, "predicted"} \ {NoPath}
           \/ remote[a].path \in known[a]
      /\ step[a] = "leaving" =>
           \/ NoSession(a)
           \/ remote[a].path \in asked[a] \cup known[a]
           \/ path[a] = "predicted" /\ path[a] \in asked[a] \cup known[a]

SettledOf(a) ==
    BlankOf(a) /\ MadeOf(a) /\ MailOf(a) /\ AskedOf(a) /\ FailedOf(a)
Settled == \A a \in Attempts : SettledOf(a)

-----------------------------------------------------------------------------
(* What happens to an attempt: its opening goes on, the portal acts, it is     *)
(* finished by whoever closes it, or its context is cancelled.                 *)
FinishedBy(a) ==
    /\ Finish(a, TRUE)
    /\ UNCHANGED <<kind, bus, atPortal, inbox, ctx, path, known, err, asked>>

CancelledBy(a) ==
    /\ Cancelled(a)
    /\ UNCHANGED <<kind, bus, atPortal, inbox, opening>>

Moves(a) ==
    \/ Begin(a) \/ Progress(a) \/ Portal(a) \/ Trouble(a)
    \/ FinishedBy(a) \/ CancelledBy(a)

(* What a failure of an attempt leaves behind.                                 *)
FailedWith(a, e) ==
    /\ step'[a] = "failing" /\ err'[a] = e
    /\ path'[a] = IF step[a] # "create" THEN path[a]
                  ELSE IF Keeps(a, e) THEN "predicted" ELSE NoPath

(* What reading signal s comes to: another session has closed, or this one;    *)
(* the session is created, or had closed before; the next request is due; or   *)
(* the answer is a refusal.                                                    *)
Passed(a, s) ==
    /\ s.signal = "closed" /\ s.path # Watched(a)
    /\ known'[a] = known[a] \cup {s.path}
    /\ step'[a] = step[a] /\ phase'[a] = phase[a]
    /\ path'[a] = path[a] /\ err'[a] = err[a]

Ended(a, s) ==
    /\ s.signal = "closed" /\ s.path = Watched(a)
    /\ known'[a] = known[a] \cup {s.path}
    /\ FailedWith(a, "closed")

Outrun(a, s) ==
    /\ s.code = "ok" /\ step[a] = "create" /\ s.path \in known[a]
    /\ known'[a] = known[a]
    /\ FailedWith(a, "closed")

Created(a, s) ==
    /\ s.code = "ok" /\ step[a] = "create" /\ s.path \notin known[a]
    /\ known'[a] = known[a] /\ path'[a] = s.path
    /\ step'[a] \in {"devices", "sources", "failing"}
    /\ step'[a] = "devices" => kind = "remote"

Advanced(a) ==
    /\ step[a] # "create" /\ known'[a] = known[a] /\ path'[a] = path[a]
    /\ step'[a] \in {"sources", "start", "opened", "fd", "failing"}

Refused(a, s) ==
    /\ s.code # "ok" /\ known'[a] = known[a]
    /\ FailedWith(a, s.code)

Reads(a, s) ==
    \/ Passed(a, s) \/ Ended(a, s) \/ Outrun(a, s)
    \/ Created(a, s) \/ Advanced(a) \/ Refused(a, s)

-----------------------------------------------------------------------------
(* There is a row for each attempt.                                            *)
LEMMA MovesRows ==
  ASSUME Rows, NEW a \in Attempts, Moves(a)
  PROVE  Rows'
<1> USE DEF Rows
<1>1. CASE Begin(a)
  BY <1>1 DEF Begin, Put, atPortal
<1>2. CASE Send(a)
  BY <1>2 DEF Send, Put, Fail, Keeps, RemoteKeeps, CastKeeps
<1>3. CASE ReplyLost(a)
  BY <1>3 DEF ReplyLost, Fail, Put, Keeps, RemoteKeeps, CastKeeps
<1>4. CASE ReadSignal(a)
  BY <1>4 DEF ReadSignal, Fail, Put, Keeps, RemoteKeeps, CastKeeps, Watched,
      Read, Good, After, AfterRemote, AfterCast, atPortal
<1>5. CASE AwaitEnds(a)
  BY <1>5 DEF AwaitEnds, Fail, Put, Keeps, RemoteKeeps, CastKeeps
<1>6. CASE OpenRemoteFails(a)
  BY <1>6 DEF OpenRemoteFails, Fail, Put, Keeps, RemoteKeeps, CastKeeps,
      atPortal
<1>7. CASE CleanUp(a)
  BY <1>7 DEF CleanUp, Put, AskClose, Kill, OwesClose
<1>8. CASE FinishAsks(a)
  BY <1>8 DEF FinishAsks, Put, AskClose, Kill
<1>9. CASE Leave(a)
  BY <1>9 DEF Leave, Put
<1>10. CASE Monitor(a)
  BY <1>10 DEF Monitor, Finish, Put, Closed, atPortal
<1>11. CASE Reply(a)
  BY <1>11 DEF Reply, Put, Fail, Keeps, RemoteKeeps, CastKeeps
<1>12. CASE OpenRemote(a)
  BY <1>12 DEF OpenRemote, Put, Fail, Keeps, RemoteKeeps, CastKeeps, atPortal
<1>13. CASE PortalAnswers(a)
  BY <1>13 DEF PortalAnswers, Deliver, Response, opening
<1>14. CASE PortalCloses(a)
  BY <1>14 DEF PortalCloses, Kill, Deliver, Closed, opening
<1>15. CASE BusLost(a)
  BY <1>15 DEF BusLost, Kill, opening
<1>16. CASE CallerGivesUp(a)
  BY <1>16 DEF CallerGivesUp, Cancelled, atPortal, opening
<1>17. CASE FinishedBy(a)
  BY <1>17 DEF FinishedBy, Finish, Put, atPortal
<1>18. CASE CancelledBy(a)
  BY <1>18 DEF CancelledBy, Cancelled, atPortal, opening
<1> QED BY <1>1, <1>2, <1>3, <1>4, <1>5, <1>6, <1>7, <1>8, <1>9, <1>10, <1>11,
    <1>12, <1>13, <1>14, <1>15, <1>16, <1>17, <1>18 DEF Moves, Progress,
    Portal, Trouble

(* The signals that are left when the first is read.                           *)
LEMMA Rest ==
  ASSUME NEW s \in Seq(Signals), s # <<>>
  PROVE  /\ Head(s) = s[1] /\ 1 \in 1..Len(s)
         /\ Tail(s) \in Seq(Signals)
         /\ \A i \in 1..Len(Tail(s)) :
              Tail(s)[i] = s[i + 1] /\ i + 1 \in 1..Len(s)
OBVIOUS

(* The fields of a signal.                                                     *)
LEMMA Fields ==
  ASSUME NEW s \in Signals
  PROVE  /\ s.signal \in {"closed", "response"} /\ s.path \in Paths \cup {NoPath}
         /\ s.code \in {"ok", "handle", "malformed", "cancelled", "rejected"}
BY DEF Signals

(* A signal that is delivered comes last.                                      *)
LEMMA Delivered ==
  ASSUME Rows, NEW a \in Attempts, inbox[a] \in Seq(Signals),
         NEW s \in Signals, Deliver(a, s)
  PROVE  /\ inbox'[a] \in Seq(Signals)
         /\ \A i \in 1..Len(inbox'[a]) :
              \/ i \in 1..Len(inbox[a]) /\ inbox'[a][i] = inbox[a][i]
              \/ inbox'[a][i] = s
BY DEF Rows, Deliver

(* A failure does what it says.                                                *)
LEMMA Failing ==
  ASSUME Rows, NEW a \in Attempts, NEW e, Fail(a, e)
  PROVE  FailedWith(a, e)
BY DEF Rows, Fail, Put, FailedWith

(* The outcomes of reading a signal.                                           *)
LEMMA ReadOutcome ==
  ASSUME Rows, NEW a \in Attempts, TypedOf(a), ReadSignal(a)
  PROVE  /\ step[a] \in Requests /\ phase[a] = "await" /\ inbox[a] # <<>>
         /\ inbox'[a] = Tail(inbox[a]) /\ Reads(a, Head(inbox[a]))
         /\ UNCHANGED <<kind, bus, remote, request, fd, asked>>
<1> DEFINE s == Head(inbox[a])
<1>1. /\ step[a] \in Requests /\ phase[a] = "await" /\ inbox[a] # <<>>
      /\ inbox'[a] = Tail(inbox[a])
      /\ UNCHANGED <<kind, bus, remote, request, fd, asked>>
  BY DEF ReadSignal, atPortal, Rows
<1>0. TypedOf(a) /\ kind \in {"remote", "cast"}
  BY DEF Rows
<1> SUFFICES Reads(a, s)
  BY <1>1
<1>2. CASE s.signal = "closed"
  <2>1. known'[a] = known[a] \cup {s.path}
    BY <1>2 DEF ReadSignal, Rows
  <2>2. CASE s.path = Watched(a)
    BY <1>2, <2>1, <2>2, Failing DEF ReadSignal, Reads, Ended
  <2>3. CASE s.path # Watched(a)
    BY <1>2, <2>1, <2>3 DEF ReadSignal, Reads, Passed
  <2> QED BY <1>2, <2>1, <2>2, <2>3 DEF ReadSignal
<1>3. CASE s.signal # "closed"
  <2>1. known' = known /\ Read(a, s)
    BY <1>3 DEF ReadSignal
  <2>2. CASE s.code # "ok"
    BY <2>1, <2>2, Failing DEF Read, Reads, Refused
  <2>3. CASE s.code = "ok" /\ step[a] = "create"
    <3>1. CASE s.path \in known[a]
      BY <2>1, <2>3, <3>1, Failing DEF Read, Good, Reads, Outrun
    <3>2. CASE s.path \notin known[a]
      BY <2>1, <2>3, <3>2 DEF Read, Good, Reads, Created, Put, After,
         AfterRemote, AfterCast, Rows
    <3> QED BY <3>1, <3>2
  <2>4. CASE s.code = "ok" /\ step[a] # "create"
    <3> SUFFICES Advanced(a)
      BY DEF Reads
    <3>1. CASE \E e : Fail(a, e)
      BY <2>1, <2>4, <3>1, Failing DEF Advanced, FailedWith
    <3>2. CASE /\ \E n \in After(step[a]) : Put(a, n, "send")
               /\ UNCHANGED <<path, err>>
      <4>1. After(step[a]) \subseteq {"sources", "start", "opened", "fd"}
        <5>1. step[a] \in {"devices", "sources", "start"}
          BY <1>1, <2>4 DEF Requests
        <5>2. CASE kind = "remote"
          BY <5>1, <5>2 DEF After, AfterRemote
        <5>3. CASE kind = "cast" /\ step[a] # "devices"
          BY <5>1, <5>3 DEF After, AfterCast
        <5> QED BY <5>1, <5>2, <5>3 DEF Rows, TypedOf
      <4>2. step'[a] \in {"sources", "start", "opened", "fd"}
        BY <3>2, <4>1 DEF Put, Rows
      <4> QED BY <2>1, <2>4, <3>2, <4>2 DEF Advanced
    <3> QED BY <2>1, <2>4, <3>1, <3>2 DEF Read, Good
  <2> QED BY <2>2, <2>3, <2>4
<1> QED BY <1>2, <1>3

(* The values of an attempt keep their types.                                  *)
LEMMA MovesTyped ==
  ASSUME Rows, NEW a \in Attempts, TypedOf(a), MailOf(a), MadeOf(a), Moves(a)
  PROVE  TypedOf(a)'
<1> USE DEF Rows, Requests, Paths, NoPath
<1>1. CASE Begin(a)
  BY <1>1 DEF Begin, Put, atPortal, TypedOf
<1>2. CASE Send(a)
  BY <1>2 DEF Send, Put, Fail, Keeps, RemoteKeeps, CastKeeps, TypedOf
<1>3. CASE ReplyLost(a)
  BY <1>3 DEF ReplyLost, Fail, Put, Keeps, RemoteKeeps, CastKeeps, TypedOf
<1>4. CASE ReadSignal(a)
  <2> DEFINE s == inbox[a][1]
  <2>1. /\ Reads(a, s) /\ 1 \in 1..Len(inbox[a])
        /\ step[a] \in Requests /\ phase[a] = "await"
        /\ s.path \in Paths \cup {NoPath} /\ UNCHANGED <<kind, remote>>
        /\ inbox'[a] \in Seq(Signals)
        /\ s.signal = "closed" => s.path # NoPath
    <3>1. /\ Reads(a, Head(inbox[a])) /\ step[a] \in Requests
          /\ phase[a] = "await" /\ UNCHANGED <<kind, remote>>
          /\ inbox[a] # <<>> /\ inbox'[a] = Tail(inbox[a])
      BY <1>4, ReadOutcome
    <3>2. inbox[a] \in Seq(Signals)
      BY DEF TypedOf
    <3>3. /\ Head(inbox[a]) = s /\ 1 \in 1..Len(inbox[a])
          /\ inbox'[a] \in Seq(Signals)
      BY <3>1, <3>2, Rest
    <3>4. s \in Signals
      BY <3>2, <3>3
    <3>5. s.signal = "closed" => s.path # NoPath
      BY <3>3 DEF MailOf
    <3> QED BY <3>1, <3>3, <3>4, <3>5, Fields
  <2>2. CASE Passed(a, s)
    BY <2>1, <2>2 DEF Passed, TypedOf
  <2>3. CASE Ended(a, s) \/ Outrun(a, s) \/ Refused(a, s)
    BY <2>1, <2>3 DEF Ended, Outrun, Refused, FailedWith, TypedOf
  <2>5. CASE Created(a, s)
    BY <2>1, <2>5 DEF Created, TypedOf
  <2>6. CASE Advanced(a)
    BY <2>1, <2>6 DEF Advanced, TypedOf
  <2> QED BY <2>1, <2>2, <2>3, <2>5, <2>6 DEF Reads
<1>5. CASE AwaitEnds(a)
  BY <1>5 DEF AwaitEnds, Fail, Put, Keeps, RemoteKeeps, CastKeeps, TypedOf
<1>6. CASE OpenRemoteFails(a)
  BY <1>6 DEF OpenRemoteFails, Fail, Put, Keeps, RemoteKeeps, CastKeeps,
      atPortal, TypedOf
<1>7. CASE CleanUp(a)
  <2>1. /\ UNCHANGED kind /\ step'[a] = "leaving" /\ inbox'[a] = inbox[a]
        /\ path'[a] = path[a] /\ known'[a] = known[a]
    BY <1>7 DEF CleanUp, Put
  <2>2. remote'[a] \in {remote[a], [remote[a] EXCEPT !.alive = FALSE]}
    BY <1>7 DEF CleanUp, AskClose, Kill
  <2> QED BY <2>1, <2>2 DEF TypedOf
<1>8. CASE FinishAsks(a)
  <2>1. /\ UNCHANGED kind /\ step'[a] = "leaving" /\ inbox'[a] = inbox[a]
        /\ path'[a] = path[a] /\ known'[a] = known[a]
    BY <1>8 DEF FinishAsks, Put
  <2>2. remote'[a] \in {remote[a], [remote[a] EXCEPT !.alive = FALSE]}
    BY <1>8 DEF FinishAsks, AskClose, Kill
  <2> QED BY <2>1, <2>2 DEF TypedOf
<1>9. CASE Leave(a)
  BY <1>9 DEF Leave, Put, TypedOf
<1>10. CASE Monitor(a)
  <2>1. /\ UNCHANGED <<kind, remote, path>> /\ step'[a] \in {step[a], "leaving"}
    BY <1>10 DEF Monitor, Finish, Put, atPortal
  <2>2. \/ inbox' = inbox
        \/ inbox[a] # <<>> /\ inbox' = [inbox EXCEPT ![a] = Tail(inbox[a])]
    BY <1>10 DEF Monitor
  <2>3. inbox'[a] \in Seq(Signals)
    <3>1. inbox[a] \in Seq(Signals)
      BY DEF TypedOf
    <3>2. CASE inbox[a] # <<>> /\ inbox' = [inbox EXCEPT ![a] = Tail(inbox[a])]
      <4>1. Tail(inbox[a]) \in Seq(Signals)
        BY <3>1, <3>2, Rest
      <4> QED BY <3>2, <4>1
    <3> QED BY <2>2, <3>1, <3>2
  <2>4. known'[a] \in {known[a], known[a] \cup {path[a]}} /\ path[a] \in Paths
    BY <1>10 DEF Monitor, MadeOf
  <2> QED BY <2>1, <2>3, <2>4 DEF TypedOf
<1>11. CASE Reply(a)
  BY <1>11 DEF Reply, Put, Fail, Keeps, RemoteKeeps, CastKeeps, TypedOf
<1>12. CASE OpenRemote(a)
  BY <1>12 DEF OpenRemote, Put, Fail, Keeps, RemoteKeeps, CastKeeps, atPortal,
      TypedOf
<1>13. CASE PortalAnswers(a)
  <2>1. UNCHANGED <<kind, step, path, known>>
    BY <1>13 DEF PortalAnswers, opening
  <2>0. remote[a].path \in Paths \cup {NoPath}
    BY DEF TypedOf
  <2>2. PICK p \in Paths \cup {NoPath}, 
           c \in {"ok", "handle", "malformed", "cancelled", "rejected"} :
            Deliver(a, Response(p, c))
    BY <1>13, <2>0 DEF PortalAnswers
  <2>3. Response(p, c) \in Signals
    BY DEF Response, Signals
  <2>4. inbox'[a] \in Seq(Signals)
    BY <2>2, <2>3, Delivered DEF TypedOf
  <2>5. \/ remote'[a] = remote[a]
        \/ \E q \in Paths : remote'[a] = [path |-> q, alive |-> TRUE]
    BY <1>13 DEF PortalAnswers
  <2>6. remote'[a] \in [path : Paths \cup {NoPath}, alive : BOOLEAN]
    <3>1. remote[a] \in [path : Paths \cup {NoPath}, alive : BOOLEAN]
      BY DEF TypedOf
    <3>2. ASSUME NEW q \in Paths
          PROVE  [path |-> q, alive |-> TRUE]
                   \in [path : Paths \cup {NoPath}, alive : BOOLEAN]
      OBVIOUS
    <3> QED BY <2>5, <3>1, <3>2
  <2> QED BY <2>1, <2>4, <2>6 DEF TypedOf
<1>14. CASE PortalCloses(a)
  <2>1. /\ UNCHANGED <<kind, step, path, known>>
        /\ remote'[a] = [remote[a] EXCEPT !.alive = FALSE]
    BY <1>14 DEF PortalCloses, Kill, opening
  <2>2. Deliver(a, Closed(remote[a].path))
    BY <1>14 DEF PortalCloses
  <2>3. Closed(remote[a].path) \in Signals
    BY DEF Closed, Signals, TypedOf
  <2>4. inbox'[a] \in Seq(Signals)
    BY <2>2, <2>3, Delivered DEF TypedOf
  <2> QED BY <2>1, <2>4 DEF TypedOf
<1>15. CASE BusLost(a)
  BY <1>15 DEF BusLost, Kill, opening, TypedOf
<1>16. CASE FinishedBy(a)
  BY <1>16 DEF FinishedBy, Finish, Put, atPortal, TypedOf
<1>17. CASE CallerGivesUp(a) \/ CancelledBy(a)
  <2>1. UNCHANGED <<kind, remote, inbox, step, path, known>>
    BY <1>17 DEF CallerGivesUp, atPortal, opening, CancelledBy
  <2> QED BY <2>1 DEF TypedOf
<1> QED BY <1>1, <1>2, <1>3, <1>4, <1>5, <1>6, <1>7, <1>8, <1>9, <1>10, <1>11,
    <1>12, <1>13, <1>14, <1>15, <1>16, <1>17 DEF Moves, Progress, Portal,
    Trouble

(* Attempts do not touch each other.                                           *)
LEMMA MovesOthers ==
  ASSUME Rows, NEW a \in Attempts, Moves(a), NEW b \in Attempts \ {a}
  PROVE  /\ UNCHANGED kind
         /\ bus'[b] = bus[b]
         /\ remote'[b] = remote[b]
         /\ request'[b] = request[b]
         /\ inbox'[b] = inbox[b]
         /\ step'[b] = step[b]
         /\ phase'[b] = phase[b]
         /\ path'[b] = path[b]
         /\ known'[b] = known[b]
         /\ err'[b] = err[b]
         /\ asked'[b] = asked[b]
         /\ fd'[b] = fd[b]
         /\ ctx'[b] = ctx[b]
<1> USE DEF Rows
<1>1. CASE Begin(a)
  BY <1>1 DEF Begin, Put, atPortal
<1>2. CASE Send(a)
  BY <1>2 DEF Send, Put, Fail, Keeps, RemoteKeeps, CastKeeps
<1>3. CASE ReplyLost(a)
  BY <1>3 DEF ReplyLost, Fail, Put, Keeps, RemoteKeeps, CastKeeps
<1>4. CASE ReadSignal(a)
  BY <1>4 DEF ReadSignal, Fail, Put, Keeps, RemoteKeeps, CastKeeps, Watched,
      Read, Good, After, AfterRemote, AfterCast, atPortal
<1>5. CASE AwaitEnds(a)
  BY <1>5 DEF AwaitEnds, Fail, Put, Keeps, RemoteKeeps, CastKeeps
<1>6. CASE OpenRemoteFails(a)
  BY <1>6 DEF OpenRemoteFails, Fail, Put, Keeps, RemoteKeeps, CastKeeps,
      atPortal
<1>7. CASE CleanUp(a)
  BY <1>7 DEF CleanUp, Put, AskClose, Kill, OwesClose
<1>8. CASE FinishAsks(a)
  BY <1>8 DEF FinishAsks, Put, AskClose, Kill
<1>9. CASE Leave(a)
  BY <1>9 DEF Leave, Put
<1>10. CASE Monitor(a)
  BY <1>10 DEF Monitor, Finish, Put, Closed, atPortal
<1>11. CASE Reply(a)
  BY <1>11 DEF Reply, Put, Fail, Keeps, RemoteKeeps, CastKeeps
<1>12. CASE OpenRemote(a)
  BY <1>12 DEF OpenRemote, Put, Fail, Keeps, RemoteKeeps, CastKeeps, atPortal
<1>13. CASE PortalAnswers(a)
  BY <1>13 DEF PortalAnswers, Deliver, Response, opening
<1>14. CASE PortalCloses(a)
  BY <1>14 DEF PortalCloses, Kill, Deliver, Closed, opening
<1>15. CASE BusLost(a)
  BY <1>15 DEF BusLost, Kill, opening
<1>16. CASE CallerGivesUp(a)
  BY <1>16 DEF CallerGivesUp, Cancelled, atPortal, opening
<1>17. CASE FinishedBy(a)
  BY <1>17 DEF FinishedBy, Finish, Put, atPortal
<1>18. CASE CancelledBy(a)
  BY <1>18 DEF CancelledBy, Cancelled, atPortal, opening
<1> QED BY <1>1, <1>2, <1>3, <1>4, <1>5, <1>6, <1>7, <1>8, <1>9, <1>10, <1>11,
    <1>12, <1>13, <1>14, <1>15, <1>16, <1>17, <1>18 DEF Moves, Progress,
    Portal, Trouble

(* An attempt's descriptor and session stay those of one under way.            *)
LEMMA MovesWired ==
  ASSUME Rows, NEW a \in Attempts, TypedOf(a), WiredOf(a), Moves(a)
  PROVE  WiredOf(a)'
<1> USE DEF Rows, WiredOf, TypedOf, Requests, Paths, NoPath
<1>1. CASE Begin(a)
  BY <1>1 DEF Begin, Put, atPortal
<1>2. CASE Send(a)
  BY <1>2 DEF Send, Put, Fail, Keeps, RemoteKeeps, CastKeeps
<1>3. CASE ReplyLost(a)
  BY <1>3 DEF ReplyLost, Fail, Put, Keeps, RemoteKeeps, CastKeeps
<1>4. CASE ReadSignal(a)
  <2> DEFINE s == inbox[a][1]
  <2>1. /\ Reads(a, s) /\ 1 \in 1..Len(inbox[a])
        /\ step[a] \in Requests /\ phase[a] = "await"
        /\ s.path \in Paths \cup {NoPath}
        /\ s.code \in {"ok", "handle", "malformed", "cancelled", "rejected"}
        /\ UNCHANGED <<kind, bus, remote, request, fd, asked>>
    BY <1>4, ReadOutcome, Rest, Fields
  <2>2. CASE Passed(a, s)
    BY <2>1, <2>2 DEF Passed, Watched
  <2>3. CASE Ended(a, s)
    BY <2>1, <2>3 DEF Ended, FailedWith, Watched, Keeps, RemoteKeeps, CastKeeps
  <2>4. CASE Outrun(a, s)
    BY <2>1, <2>4 DEF Outrun, FailedWith, Keeps, RemoteKeeps, CastKeeps
  <2>5. CASE Created(a, s)
    BY <2>1, <2>5 DEF Created
  <2>6. CASE Advanced(a)
    BY <2>1, <2>6 DEF Advanced
  <2>7. CASE Refused(a, s)
    BY <2>1, <2>7 DEF Refused, FailedWith, Keeps, RemoteKeeps, CastKeeps
  <2> QED BY <2>1, <2>2, <2>3, <2>4, <2>5, <2>6, <2>7 DEF Reads
<1>5. CASE AwaitEnds(a)
  BY <1>5 DEF AwaitEnds, Fail, Put, Keeps, RemoteKeeps, CastKeeps
<1>6. CASE OpenRemoteFails(a)
  BY <1>6 DEF OpenRemoteFails, Fail, Put, Keeps, RemoteKeeps, CastKeeps,
      atPortal
<1>7. CASE CleanUp(a)
  BY <1>7 DEF CleanUp, Put, AskClose, Kill, OwesClose
<1>8. CASE FinishAsks(a)
  BY <1>8 DEF FinishAsks, Put, AskClose, Kill
<1>9. CASE Leave(a)
  BY <1>9 DEF Leave, Put
<1>10. CASE Monitor(a)
  BY <1>10 DEF Monitor, Finish, Put, Closed, atPortal
<1>11. CASE Reply(a)
  BY <1>11 DEF Reply, Put, Fail, Keeps, RemoteKeeps, CastKeeps
<1>12. CASE OpenRemote(a)
  BY <1>12 DEF OpenRemote, Put, Fail, Keeps, RemoteKeeps, CastKeeps, atPortal
<1>13. CASE PortalAnswers(a)
  BY <1>13 DEF PortalAnswers, Deliver, Response, opening
<1>14. CASE PortalCloses(a)
  BY <1>14 DEF PortalCloses, Kill, Deliver, Closed, opening
<1>15. CASE BusLost(a)
  BY <1>15 DEF BusLost, Kill, opening
<1>16. CASE FinishedBy(a)
  BY <1>16 DEF FinishedBy, Finish, Put, atPortal
<1>17. CASE CallerGivesUp(a) \/ CancelledBy(a)
  <2>1. UNCHANGED <<bus, remote, step, fd>>
    BY <1>17 DEF CallerGivesUp, atPortal, opening, CancelledBy
  <2> QED BY <2>1
<1> QED BY <1>1, <1>2, <1>3, <1>4, <1>5, <1>6, <1>7, <1>8, <1>9, <1>10, <1>11,
    <1>12, <1>13, <1>14, <1>15, <1>16, <1>17 DEF Moves, Progress, Portal,
    Trouble

(* An attempt has nothing before its first request.                            *)
LEMMA MovesBlank ==
  ASSUME Rows, NEW a \in Attempts, TypedOf(a), WiredOf(a), BlankOf(a), Moves(a)
  PROVE  BlankOf(a)'
<1> USE DEF Rows, WiredOf, BlankOf, TypedOf, Requests, Paths, NoPath
<1>1. CASE Begin(a)
  BY <1>1 DEF Begin, Put, atPortal
<1>2. CASE Send(a)
  BY <1>2 DEF Send, Put, Fail, Keeps, RemoteKeeps, CastKeeps
<1>3. CASE ReplyLost(a)
  BY <1>3 DEF ReplyLost, Fail, Put, Keeps, RemoteKeeps, CastKeeps
<1>4. CASE ReadSignal(a)
  <2> DEFINE s == inbox[a][1]
  <2>1. /\ Reads(a, s) /\ 1 \in 1..Len(inbox[a])
        /\ step[a] \in Requests /\ phase[a] = "await"
        /\ s.path \in Paths \cup {NoPath}
        /\ s.code \in {"ok", "handle", "malformed", "cancelled", "rejected"}
        /\ UNCHANGED <<kind, bus, remote, request, fd, asked>>
    BY <1>4, ReadOutcome, Rest, Fields
  <2>2. CASE Passed(a, s)
    BY <2>1, <2>2 DEF Passed, Watched
  <2>3. CASE Ended(a, s)
    BY <2>1, <2>3 DEF Ended, FailedWith, Watched, Keeps, RemoteKeeps, CastKeeps
  <2>4. CASE Outrun(a, s)
    BY <2>1, <2>4 DEF Outrun, FailedWith, Keeps, RemoteKeeps, CastKeeps
  <2>5. CASE Created(a, s)
    BY <2>1, <2>5 DEF Created
  <2>6. CASE Advanced(a)
    BY <2>1, <2>6 DEF Advanced
  <2>7. CASE Refused(a, s)
    BY <2>1, <2>7 DEF Refused, FailedWith, Keeps, RemoteKeeps, CastKeeps
  <2> QED BY <2>1, <2>2, <2>3, <2>4, <2>5, <2>6, <2>7 DEF Reads
<1>5. CASE AwaitEnds(a)
  BY <1>5 DEF AwaitEnds, Fail, Put, Keeps, RemoteKeeps, CastKeeps
<1>6. CASE OpenRemoteFails(a)
  BY <1>6 DEF OpenRemoteFails, Fail, Put, Keeps, RemoteKeeps, CastKeeps,
      atPortal
<1>7. CASE CleanUp(a)
  BY <1>7 DEF CleanUp, Put, AskClose, Kill, OwesClose
<1>8. CASE FinishAsks(a)
  BY <1>8 DEF FinishAsks, Put, AskClose, Kill
<1>9. CASE Leave(a)
  BY <1>9 DEF Leave, Put
<1>10. CASE Monitor(a)
  BY <1>10 DEF Monitor, Finish, Put, Closed, atPortal
<1>11. CASE Reply(a)
  BY <1>11 DEF Reply, Put, Fail, Keeps, RemoteKeeps, CastKeeps
<1>12. CASE OpenRemote(a)
  BY <1>12 DEF OpenRemote, Put, Fail, Keeps, RemoteKeeps, CastKeeps, atPortal
<1>13. CASE PortalAnswers(a)
  BY <1>13 DEF PortalAnswers, Deliver, Response, opening
<1>14. CASE PortalCloses(a)
  BY <1>14 DEF PortalCloses, Kill, Deliver, Closed, opening
<1>15. CASE BusLost(a)
  BY <1>15 DEF BusLost, Kill, opening
<1>16. CASE FinishedBy(a)
  BY <1>16 DEF FinishedBy, Finish, Put, atPortal
<1>17. CASE CallerGivesUp(a) \/ CancelledBy(a)
  <2>1. UNCHANGED <<remote, request, inbox, step, phase>>
    BY <1>17 DEF CallerGivesUp, atPortal, opening, CancelledBy
  <2> QED BY <2>1
<1> QED BY <1>1, <1>2, <1>3, <1>4, <1>5, <1>6, <1>7, <1>8, <1>9, <1>10, <1>11,
    <1>12, <1>13, <1>14, <1>15, <1>16, <1>17 DEF Moves, Progress, Portal,
    Trouble

(* What is created is still the portal's.                                      *)
LEMMA MovesMade ==
  ASSUME Rows, NEW a \in Attempts, TypedOf(a), BlankOf(a), MadeOf(a),
      MailOf(a), Moves(a)
  PROVE  MadeOf(a)'
<1> USE DEF Rows, MadeOf, BlankOf, MailOf, TypedOf, Requests, Paths, NoPath
<1>1. CASE Begin(a)
  BY <1>1 DEF Begin, Put, atPortal
<1>2. CASE Send(a)
  BY <1>2 DEF Send, Put, Fail, Keeps, RemoteKeeps, CastKeeps
<1>3. CASE ReplyLost(a)
  BY <1>3 DEF ReplyLost, Fail, Put, Keeps, RemoteKeeps, CastKeeps
<1>4. CASE ReadSignal(a)
  <2> DEFINE s == inbox[a][1]
  <2>1. /\ Reads(a, s) /\ 1 \in 1..Len(inbox[a])
        /\ step[a] \in Requests /\ phase[a] = "await"
        /\ s.path \in Paths \cup {NoPath}
        /\ s.code \in {"ok", "handle", "malformed", "cancelled", "rejected"}
        /\ UNCHANGED <<kind, bus, remote, request, fd, asked>>
    BY <1>4, ReadOutcome, Rest, Fields
  <2>2. CASE Passed(a, s)
    BY <2>1, <2>2 DEF Passed, Watched
  <2>3. CASE Ended(a, s)
    BY <2>1, <2>3 DEF Ended, FailedWith, Watched, Keeps, RemoteKeeps, CastKeeps
  <2>4. CASE Outrun(a, s)
    BY <2>1, <2>4 DEF Outrun, FailedWith, Keeps, RemoteKeeps, CastKeeps
  <2>5. CASE Created(a, s)
    BY <2>1, <2>5 DEF Created
  <2>6. CASE Advanced(a)
    BY <2>1, <2>6 DEF Advanced
  <2>7. CASE Refused(a, s)
    BY <2>1, <2>7 DEF Refused, FailedWith, Keeps, RemoteKeeps, CastKeeps
  <2> QED BY <2>1, <2>2, <2>3, <2>4, <2>5, <2>6, <2>7 DEF Reads
<1>5. CASE AwaitEnds(a)
  BY <1>5 DEF AwaitEnds, Fail, Put, Keeps, RemoteKeeps, CastKeeps
<1>6. CASE OpenRemoteFails(a)
  BY <1>6 DEF OpenRemoteFails, Fail, Put, Keeps, RemoteKeeps, CastKeeps,
      atPortal
<1>7. CASE CleanUp(a)
  BY <1>7 DEF CleanUp, Put, AskClose, Kill, OwesClose
<1>8. CASE FinishAsks(a)
  BY <1>8 DEF FinishAsks, Put, AskClose, Kill
<1>9. CASE Leave(a)
  BY <1>9 DEF Leave, Put
<1>10. CASE Monitor(a)
  BY <1>10 DEF Monitor, Finish, Put, Closed, atPortal
<1>11. CASE Reply(a)
  BY <1>11 DEF Reply, Put, Fail, Keeps, RemoteKeeps, CastKeeps
<1>12. CASE OpenRemote(a)
  BY <1>12 DEF OpenRemote, Put, Fail, Keeps, RemoteKeeps, CastKeeps, atPortal
<1>13. CASE PortalAnswers(a)
  BY <1>13 DEF PortalAnswers, Deliver, Response, opening
<1>14. CASE PortalCloses(a)
  BY <1>14 DEF PortalCloses, Kill, Deliver, Closed, opening
<1>15. CASE BusLost(a)
  BY <1>15 DEF BusLost, Kill, opening
<1>16. CASE FinishedBy(a)
  BY <1>16 DEF FinishedBy, Finish, Put, atPortal
<1>17. CASE CallerGivesUp(a) \/ CancelledBy(a)
  <2>1. UNCHANGED <<remote, step, path, known>>
    BY <1>17 DEF CallerGivesUp, atPortal, opening, CancelledBy
  <2> QED BY <2>1
<1> QED BY <1>1, <1>2, <1>3, <1>4, <1>5, <1>6, <1>7, <1>8, <1>9, <1>10, <1>11,
    <1>12, <1>13, <1>14, <1>15, <1>16, <1>17 DEF Moves, Progress, Portal,
    Trouble

(* The signals still speak of the portal's session.                            *)
LEMMA MovesMail ==
  ASSUME Rows, NEW a \in Attempts, TypedOf(a), WiredOf(a), BlankOf(a),
      MailOf(a), MadeOf(a), Moves(a)
  PROVE  MailOf(a)'
<1> USE DEF Rows, MailOf, BlankOf, NoSession, TypedOf, Requests, Paths, NoPath
<1>1. CASE Begin(a)
  BY <1>1 DEF Begin, Put, atPortal
<1>2. CASE Send(a)
  BY <1>2 DEF Send, Put, Fail, Keeps, RemoteKeeps, CastKeeps
<1>3. CASE ReplyLost(a)
  BY <1>3 DEF ReplyLost, Fail, Put, Keeps, RemoteKeeps, CastKeeps
<1>4. CASE ReadSignal(a)
  <2>1. /\ inbox'[a] = Tail(inbox[a]) /\ inbox[a] # <<>>
        /\ UNCHANGED <<remote, request>> /\ step[a] # "idle"
    BY <1>4, ReadOutcome
  <2>2. step'[a] = "create" => step[a] = "create"
    BY <1>4, ReadOutcome DEF Reads, Passed, Ended, Outrun, Created, Advanced,
       Refused, FailedWith
  <2>3. \A i \in 1..Len(inbox'[a]) :
          inbox'[a][i] = inbox[a][i + 1] /\ i + 1 \in 1..Len(inbox[a])
    BY <2>1, Rest
  <2> QED BY <2>1, <2>2, <2>3
<1>5. CASE AwaitEnds(a)
  BY <1>5 DEF AwaitEnds, Fail, Put, Keeps, RemoteKeeps, CastKeeps
<1>6. CASE OpenRemoteFails(a)
  BY <1>6 DEF OpenRemoteFails, Fail, Put, Keeps, RemoteKeeps, CastKeeps,
      atPortal
<1>7. CASE CleanUp(a)
  BY <1>7 DEF CleanUp, Put, AskClose, Kill, OwesClose
<1>8. CASE FinishAsks(a)
  BY <1>8 DEF FinishAsks, Put, AskClose, Kill
<1>9. CASE Leave(a)
  BY <1>9 DEF Leave, Put
<1>10. CASE Monitor(a)
  <2>1. UNCHANGED <<remote, request>> /\ step'[a] # "create"
    BY <1>10 DEF Monitor, Finish, Put, atPortal
  <2>2. CASE inbox'[a] = inbox[a]
    BY <2>1, <2>2
  <2>3. CASE inbox[a] # <<>> /\ inbox'[a] = Tail(inbox[a])
    <3>1. \A i \in 1..Len(inbox'[a]) :
            inbox'[a][i] = inbox[a][i + 1] /\ i + 1 \in 1..Len(inbox[a])
      BY <2>3, Rest
    <3> QED BY <2>1, <3>1
  <2> QED BY <1>10, <2>2, <2>3 DEF Monitor
<1>11. CASE Reply(a)
  BY <1>11 DEF Reply, Put, Fail, Keeps, RemoteKeeps, CastKeeps
<1>12. CASE OpenRemote(a)
  BY <1>12 DEF OpenRemote, Put, Fail, Keeps, RemoteKeeps, CastKeeps, atPortal
<1>13. CASE PortalAnswers(a)
  <2>1. UNCHANGED step /\ request[a] = "pending" /\ request'[a] = "answered"
    BY <1>13 DEF PortalAnswers, opening
  <2>2. PICK p \in Paths \cup {NoPath}, 
           c \in {"ok", "handle", "malformed", "cancelled", "rejected"} :
            /\ Deliver(a, Response(p, c))
            /\ \/ /\ c \in {"ok", "handle", "malformed"} /\ p # NoPath
                  /\ remote[a].path \in {NoPath, p} /\ remote'[a].path = p
               \/ c \in {"cancelled", "rejected"} /\ remote' = remote
    BY <1>13 DEF PortalAnswers
  <2>3. Response(p, c) \in Signals
    BY DEF Response, Signals
  <2>4. \A i \in 1..Len(inbox'[a]) :
          \/ i \in 1..Len(inbox[a]) /\ inbox'[a][i] = inbox[a][i]
          \/ inbox'[a][i] = Response(p, c)
    BY <2>2, <2>3, Delivered
  <2>5. /\ Response(p, c).signal = "response" /\ Response(p, c).code = c
        /\ Response(p, c).path = p
    BY DEF Response
  <2>6. \A i \in 1..Len(inbox[a]) : 
          /\ remote[a].path = NoPath
          /\ inbox[a][i].code \in {"cancelled", "rejected"}
          => step[a] # "create"
    BY <2>1
  <2> QED BY <2>1, <2>2, <2>4, <2>5, <2>6
<1>14. CASE PortalCloses(a)
  <2>1. /\ UNCHANGED <<step, request>> /\ remote'[a].path = remote[a].path
        /\ remote[a].alive /\ Deliver(a, Closed(remote[a].path))
    BY <1>14 DEF PortalCloses, Kill, opening
  <2>2. \A i \in 1..Len(inbox'[a]) :
          \/ i \in 1..Len(inbox[a]) /\ inbox'[a][i] = inbox[a][i]
          \/ inbox'[a][i] = Closed(remote[a].path)
    BY <2>1 DEF Deliver
  <2> QED BY <2>1, <2>2 DEF Closed, WiredOf
<1>15. CASE BusLost(a)
  BY <1>15 DEF BusLost, Kill, opening
<1>16. CASE FinishedBy(a)
  BY <1>16 DEF FinishedBy, Finish, Put, atPortal
<1>17. CASE CallerGivesUp(a) \/ CancelledBy(a)
  <2>1. UNCHANGED <<remote, request, inbox, step>>
    BY <1>17 DEF CallerGivesUp, atPortal, opening, CancelledBy
  <2> QED BY <2>1
<1> QED BY <1>1, <1>2, <1>3, <1>4, <1>5, <1>6, <1>7, <1>8, <1>9, <1>10, <1>11,
    <1>12, <1>13, <1>14, <1>15, <1>16, <1>17 DEF Moves, Progress, Portal,
    Trouble

(* Nothing that is known to be closed is asked to close.                       *)
LEMMA MovesAsked ==
  ASSUME Rows, NEW a \in Attempts, TypedOf(a), MadeOf(a), AskedOf(a), Moves(a)
  PROVE  AskedOf(a)'
<1> USE DEF Rows, AskedOf, MadeOf, TypedOf, Requests, Paths, NoPath
<1>1. CASE Begin(a)
  BY <1>1 DEF Begin, Put
<1>2. CASE Send(a)
  BY <1>2 DEF Send, Put, Fail, Keeps, RemoteKeeps, CastKeeps
<1>3. CASE ReplyLost(a)
  BY <1>3 DEF ReplyLost, Fail, Put, Keeps, RemoteKeeps, CastKeeps
<1>4. CASE ReadSignal(a)
  <2> DEFINE s == inbox[a][1]
  <2>1. /\ Reads(a, s) /\ 1 \in 1..Len(inbox[a])
        /\ step[a] \in Requests /\ phase[a] = "await"
        /\ s.path \in Paths \cup {NoPath}
        /\ s.code \in {"ok", "handle", "malformed", "cancelled", "rejected"}
        /\ UNCHANGED <<kind, bus, remote, request, fd, asked>>
    BY <1>4, ReadOutcome, Rest, Fields
  <2>2. CASE Passed(a, s)
    BY <2>1, <2>2 DEF Passed, Watched
  <2>3. CASE Ended(a, s)
    BY <2>1, <2>3 DEF Ended, FailedWith, Watched, Keeps, RemoteKeeps, CastKeeps
  <2>4. CASE Outrun(a, s)
    BY <2>1, <2>4 DEF Outrun, FailedWith, Keeps, RemoteKeeps, CastKeeps
  <2>5. CASE Created(a, s)
    BY <2>1, <2>5 DEF Created
  <2>6. CASE Advanced(a)
    BY <2>1, <2>6 DEF Advanced
  <2>7. CASE Refused(a, s)
    BY <2>1, <2>7 DEF Refused, FailedWith, Keeps, RemoteKeeps, CastKeeps
  <2> QED BY <2>1, <2>2, <2>3, <2>4, <2>5, <2>6, <2>7 DEF Reads
<1>5. CASE AwaitEnds(a)
  BY <1>5 DEF AwaitEnds, Fail, Put, Keeps, RemoteKeeps, CastKeeps
<1>6. CASE OpenRemoteFails(a)
  BY <1>6 DEF OpenRemoteFails, Fail, Put, Keeps, RemoteKeeps, CastKeeps
<1>7. CASE CleanUp(a)
  BY <1>7 DEF CleanUp, Put, AskClose, Kill, OwesClose
<1>8. CASE FinishAsks(a)
  BY <1>8 DEF FinishAsks, Put, AskClose, Kill
<1>9. CASE Leave(a)
  BY <1>9 DEF Leave, Put
<1>10. CASE Monitor(a)
  BY <1>10 DEF Monitor, Finish, Put, Closed
<1>11. CASE Reply(a)
  BY <1>11 DEF Reply, Put, Fail, Keeps, RemoteKeeps, CastKeeps
<1>12. CASE OpenRemote(a)
  BY <1>12 DEF OpenRemote, Put, Fail, Keeps, RemoteKeeps, CastKeeps
<1>13. CASE FinishedBy(a)
  BY <1>13 DEF FinishedBy, Finish, Put
<1>14. CASE PortalAnswers(a) \/ PortalCloses(a) \/ BusLost(a) \/
    CallerGivesUp(a) \/ CancelledBy(a)
  <2>1. UNCHANGED <<step, known, asked>>
    BY <1>14 DEF PortalAnswers, opening, PortalCloses, BusLost, CallerGivesUp,
        CancelledBy
  <2> QED BY <2>1
<1> QED BY <1>1, <1>2, <1>3, <1>4, <1>5, <1>6, <1>7, <1>8, <1>9, <1>10, <1>11,
    <1>12, <1>13, <1>14 DEF Moves, Progress, Portal, Trouble

(* A failed attempt still knows what it has to close.                          *)
LEMMA MovesFailed ==
  ASSUME Rows, NEW a \in Attempts, TypedOf(a), WiredOf(a), SettledOf(a),
      Moves(a)
  PROVE  FailedOf(a)'
<1> USE DEF Rows, FailedOf, BlankOf, SettledOf, MadeOf, AskedOf, MailOf,
    WiredOf, NoSession, LeftToTheBus, TypedOf, Requests, Paths, NoPath
<1>1. CASE Begin(a)
  BY <1>1 DEF Begin, Put, atPortal
<1>2. CASE Send(a)
  BY <1>2 DEF Send, Put, Fail, Keeps, RemoteKeeps, CastKeeps
<1>3. CASE ReplyLost(a)
  BY <1>3 DEF ReplyLost, Fail, Put, Keeps, RemoteKeeps, CastKeeps
<1>4. CASE ReadSignal(a)
  <2> DEFINE s == inbox[a][1]
  <2>1. /\ Reads(a, s) /\ 1 \in 1..Len(inbox[a])
        /\ step[a] \in Requests /\ phase[a] = "await"
        /\ s.path \in Paths \cup {NoPath}
        /\ s.code \in {"ok", "handle", "malformed", "cancelled", "rejected"}
        /\ UNCHANGED <<kind, bus, remote, request, fd, asked>>
    BY <1>4, ReadOutcome, Rest, Fields
  <2>2. CASE Passed(a, s)
    BY <2>1, <2>2 DEF Passed, Watched
  <2>3. CASE Ended(a, s)
    BY <2>1, <2>3 DEF Ended, FailedWith, Watched, Keeps, RemoteKeeps, CastKeeps
  <2>4. CASE Outrun(a, s)
    BY <2>1, <2>4 DEF Outrun, FailedWith, Keeps, RemoteKeeps, CastKeeps
  <2>5. CASE Created(a, s)
    BY <2>1, <2>5 DEF Created
  <2>6. CASE Advanced(a)
    BY <2>1, <2>6 DEF Advanced
  <2>7. CASE Refused(a, s)
    BY <2>1, <2>7 DEF Refused, FailedWith, Keeps, RemoteKeeps, CastKeeps
  <2> QED BY <2>1, <2>2, <2>3, <2>4, <2>5, <2>6, <2>7 DEF Reads
<1>5. CASE AwaitEnds(a)
  BY <1>5 DEF AwaitEnds, Fail, Put, Keeps, RemoteKeeps, CastKeeps
<1>6. CASE OpenRemoteFails(a)
  BY <1>6 DEF OpenRemoteFails, Fail, Put, Keeps, RemoteKeeps, CastKeeps,
      atPortal
<1>7. CASE CleanUp(a)
  BY <1>7 DEF CleanUp, Put, AskClose, Kill, OwesClose
<1>8. CASE FinishAsks(a)
  BY <1>8 DEF FinishAsks, Put, AskClose, Kill
<1>9. CASE Leave(a)
  BY <1>9 DEF Leave, Put
<1>10. CASE Monitor(a)
  BY <1>10 DEF Monitor, Finish, Put, Closed, atPortal
<1>11. CASE Reply(a)
  BY <1>11 DEF Reply, Put, Fail, Keeps, RemoteKeeps, CastKeeps
<1>12. CASE OpenRemote(a)
  BY <1>12 DEF OpenRemote, Put, Fail, Keeps, RemoteKeeps, CastKeeps, atPortal
<1>13. CASE PortalAnswers(a)
  BY <1>13 DEF PortalAnswers, Deliver, Response, opening
<1>14. CASE PortalCloses(a)
  BY <1>14 DEF PortalCloses, Kill, Deliver, Closed, opening
<1>15. CASE BusLost(a)
  BY <1>15 DEF BusLost, Kill, opening
<1>16. CASE FinishedBy(a)
  BY <1>16 DEF FinishedBy, Finish, Put, atPortal
<1>17. CASE CallerGivesUp(a) \/ CancelledBy(a)
  <2>1. UNCHANGED <<kind, bus, remote, request, step, path, known, err, asked>>
    BY <1>17 DEF CallerGivesUp, atPortal, opening, CancelledBy
  <2> QED BY <2>1
<1> QED BY <1>1, <1>2, <1>3, <1>4, <1>5, <1>6, <1>7, <1>8, <1>9, <1>10, <1>11,
    <1>12, <1>13, <1>14, <1>15, <1>16, <1>17 DEF Moves, Progress, Portal,
    Trouble

(* A step of an attempt leaves the invariant of the handshake.                 *)
LEMMA HandshakeStays ==
  ASSUME Typed, Wired, Settled,
         UNCHANGED handshake \/ \E a \in Attempts : Moves(a)
  PROVE  Typed' /\ Wired' /\ Settled'
<1>1. CASE UNCHANGED handshake
  BY <1>1 DEF handshake, Typed, Rows, TypedOf, Wired, WiredOf, Settled,
     SettledOf, BlankOf, MadeOf, MailOf, AskedOf, FailedOf, LeftToTheBus, NoSession
<1>2. ASSUME NEW a \in Attempts, Moves(a)
      PROVE  Typed' /\ Wired' /\ Settled'
  <2>1. Rows /\ TypedOf(a) /\ WiredOf(a) /\ SettledOf(a)
    BY DEF Typed, Wired, Settled
  <2>2. BlankOf(a) /\ MadeOf(a) /\ MailOf(a) /\ AskedOf(a) /\ FailedOf(a)
    BY <2>1 DEF SettledOf
  <2>3. Rows'
    BY <1>2, <2>1, MovesRows
  <2>4. TypedOf(a)' /\ WiredOf(a)'
    BY <1>2, <2>1, <2>2, MovesTyped, MovesWired
  <2>5. SettledOf(a)'
    BY <1>2, <2>1, <2>2, MovesBlank, MovesMade, MovesMail, MovesAsked,
       MovesFailed DEF SettledOf
  <2>6. ASSUME NEW b \in Attempts \ {a}
        PROVE  TypedOf(b)' /\ WiredOf(b)' /\ SettledOf(b)'
    <3>1. /\ UNCHANGED kind
          /\ bus'[b] = bus[b] /\ remote'[b] = remote[b] /\ inbox'[b] = inbox[b]
          /\ request'[b] = request[b] /\ step'[b] = step[b]
          /\ phase'[b] = phase[b] /\ path'[b] = path[b] /\ known'[b] = known[b]
          /\ err'[b] = err[b] /\ fd'[b] = fd[b] /\ asked'[b] = asked[b]
      BY <1>2, <2>1, MovesOthers
    <3>2. TypedOf(b) /\ WiredOf(b) /\ SettledOf(b)
      BY DEF Typed, Wired, Settled
    <3>3. TypedOf(b)'
      BY <3>1, <3>2 DEF TypedOf
    <3>4. WiredOf(b)'
      BY <3>1, <3>2 DEF WiredOf
    <3>5. BlankOf(b)' /\ MadeOf(b)' /\ MailOf(b)' /\ AskedOf(b)'
      BY <3>1, <3>2 DEF SettledOf, BlankOf, MadeOf, MailOf, AskedOf, NoSession
    <3>6. FailedOf(b)'
      BY <3>1, <3>2 DEF SettledOf, FailedOf, LeftToTheBus, NoSession
    <3> QED BY <3>3, <3>4, <3>5, <3>6 DEF SettledOf
  <2> QED BY <2>3, <2>4, <2>5, <2>6 DEF Typed, Wired, Settled
<1> QED BY <1>1, <1>2

(* Who has not begun or has gone does nothing.                                 *)
LEMMA MovesOn ==
  ASSUME Rows, NEW a \in Attempts, Progress(a) \/ Portal(a) \/ Trouble(a)
  PROVE  (step[a] \in {"idle", "gone"} => step'[a] = step[a])
<1> USE DEF Rows, Requests
<1>1. CASE Send(a)
  BY <1>1 DEF Send, Put, Fail, Keeps, RemoteKeeps, CastKeeps
<1>2. CASE ReplyLost(a)
  BY <1>2 DEF ReplyLost, Fail, Put, Keeps, RemoteKeeps, CastKeeps
<1>3. CASE ReadSignal(a)
  BY <1>3 DEF ReadSignal, Fail, Put, Keeps, RemoteKeeps, CastKeeps, Watched,
      Read, Good, After, AfterRemote, AfterCast
<1>4. CASE AwaitEnds(a)
  BY <1>4 DEF AwaitEnds, Fail, Put, Keeps, RemoteKeeps, CastKeeps
<1>5. CASE OpenRemoteFails(a)
  BY <1>5 DEF OpenRemoteFails, Fail, Put, Keeps, RemoteKeeps, CastKeeps
<1>6. CASE CleanUp(a)
  BY <1>6 DEF CleanUp, Put, AskClose, Kill, OwesClose
<1>7. CASE FinishAsks(a)
  BY <1>7 DEF FinishAsks, Put, AskClose, Kill
<1>8. CASE Leave(a)
  BY <1>8 DEF Leave, Put
<1>9. CASE Monitor(a)
  BY <1>9 DEF Monitor, Finish, Put, Closed
<1>10. CASE Reply(a)
  BY <1>10 DEF Reply, Put, Fail, Keeps, RemoteKeeps, CastKeeps
<1>11. CASE OpenRemote(a)
  BY <1>11 DEF OpenRemote, Put, Fail, Keeps, RemoteKeeps, CastKeeps
<1>12. CASE PortalAnswers(a) \/ PortalCloses(a) \/ BusLost(a) \/
    CallerGivesUp(a)
  <2>1. UNCHANGED <<step>>
    BY <1>12 DEF PortalAnswers, opening, PortalCloses, BusLost, CallerGivesUp
  <2> QED BY <2>1
<1> QED BY <1>1, <1>2, <1>3, <1>4, <1>5, <1>6, <1>7, <1>8, <1>9, <1>10, <1>11,
    <1>12 DEF Progress, Portal, Trouble
-----------------------------------------------------------------------------
(* The goroutines, the streams and the locks of a capture.                     *)

(* Where a Start has an attempt that nobody else knows, where a call closes a  *)
(* capture, and where one captures.                                            *)
Young == {"starting", "opening", "checking", "duplicating", "readying",
          "swapping", "undoing"}
Shutting == {"stopping", "locking", "freeing", "finishing"}
Reading == {"capturing", "asking", "entering", "native"}

(* The values of the variables that the rest speaks of.                        *)
ShapeOf(p) ==
    /\ at[p] \in Attempts \cup {0}
    /\ pc[p] \in {"idle", "closing"} \cup Young \cup Shutting \cup Reading
    /\ after[p] \in {"none", "install", "return", "closed"}

Shape ==
    /\ current \in Attempts \cup {0} /\ starts \in 0..MaxStarts
    /\ op \in Procs \cup {Nobody} /\ pending \in Attempts \cup {0}
    /\ DOMAIN at = Procs /\ DOMAIN pc = Procs /\ DOMAIN after = Procs
    /\ DOMAIN stream = Attempts /\ DOMAIN srcLock = Attempts
    /\ \A a \in Attempts : stream[a] \in {"none", "live", "freed"}
    /\ \A p \in Procs : ShapeOf(p)

(* What a call has at each point.                                              *)
PlacesOf(p) ==
    /\ pc[p] \in {"idle", "closing"} <=> at[p] = 0
    /\ pc[p] \in Shutting <=> after[p] # "none"
    /\ after[p] = "install" => current # 0

Places == \A p \in Procs : PlacesOf(p)

(* Attempts are numbered as they are begun.                                    *)
Numbered ==
    /\ current <= starts
    /\ \A p \in Procs : at[p] <= starts
    /\ \A a \in Attempts : a > starts => stream[a] = "none"

(* Who opens or closes a capture has the operation.                            *)
ExclusiveOf(p) == pc[p] \in (Young \ {"starting"}) \cup Shutting <=> op = p

Exclusive == \A p \in Procs : ExclusiveOf(p)

(* The attempt of a Start is its own until it is installed.                    *)
Owns(p) == pc[p] \in Young \/ after[p] \in {"install", "return"}

FreshOf(p, q) == Owns(p) => at[p] # current /\ (at[q] = at[p] => q = p)

Fresh == \A p, q \in Procs : FreshOf(p, q)

(* When the streams of the attempts live.                                      *)
StreamsOf(p) ==
    /\ pc[p] \in Reading => stream[at[p]] # "none"
    /\ pc[p] \in {"starting", "opening", "checking", "duplicating"} =>
         stream[at[p]] = "none"
    /\ pc[p] \in {"readying", "swapping"} \/ after[p] = "install" =>
         stream[at[p]] = "live"
    /\ pc[p] = "undoing" => stream[at[p]] # "live"
    /\ pc[p] = "finishing" => stream[Victim(p)] # "live"

Streams ==
    /\ current # 0 => stream[current] # "none"
    /\ \A p \in Procs : StreamsOf(p)

(* Who is in the native stream has the source's lock.                          *)
LockedOf(p) ==
    pc[p] = "native" => srcLock[at[p]] = p /\ stream[at[p]] = "live"

Locked == \A p \in Procs : LockedOf(p)

(* An attempt that has something to give back is in use or in the hands of     *)
(* who has the operation.                                                      *)
InHandOf(a) ==
    step[a] \notin {"idle", "gone"} \/ stream[a] = "live" =>
      a = current \/ (op \in Procs /\ at[op] = a)

InHand == \A a \in Attempts : InHandOf(a)

Inv == /\ Shape /\ Places /\ Numbered /\ Exclusive /\ Fresh /\ Streams /\ Locked
       /\ Typed /\ Wired /\ InHand /\ Settled

(* What a goroutine does.                                                      *)
Called(p) == Start(p) \/ Close(p) \/ Grab(p) \/ Step(p)

-----------------------------------------------------------------------------
(* The values of the manager keep their shape.                                 *)
LEMMA CalledShape ==
  ASSUME NEW p \in Procs, Shape, Places, Called(p)
  PROVE  Shape'
<1> USE ScreenCastAssumption DEF Shape, ShapeOf, Places, PlacesOf, Young,
    Shutting, Reading
<1>1. CASE Start(p)
  BY <1>1 DEF Start, Go, manager, capture, locks
<1>2. CASE Close(p)
  BY <1>2 DEF Close, Go, CancelPending, Cancelled, capture, locks
<1>3. CASE Grab(p)
  BY <1>3 DEF Grab, Go, manager, bounds, capture, locks
<1>4. CASE StartEnters(p)
  BY <1>4 DEF StartEnters, Go, Return, bounds, capture, locks
<1>5. CASE Opened(p)
  BY <1>5 DEF Opened, Go, HasSession, manager, bounds, capture, locks
<1>6. CASE OpeningFails(p)
  BY <1>6 DEF OpeningFails, StartReturns, Return, Go, HasSession, bounds,
      capture, locks
<1>7. CASE CloseRemote(p)
  BY <1>7 DEF CloseRemote, Go, HasSession, manager, bounds, capture, locks
<1>8. CASE CheckSession(p)
  BY <1>8 DEF CheckSession, Go, manager, bounds, capture, locks
<1>9. CASE Connect(p)
  BY <1>9 DEF Connect, Go, manager, locks, bounds
<1>10. CASE StreamReady(p)
  BY <1>10 DEF StreamReady, Go, manager, bounds, capture, locks
<1>11. CASE StreamFails(p)
  BY <1>11 DEF StreamFails, Go, Free, manager, locks, bounds
<1>12. CASE Undo(p)
  BY <1>12 DEF Undo, Go, Finish, Put, manager, bounds, capture, locks
<1>13. CASE Swap(p)
  BY <1>13 DEF Swap, Go, StartReturns, Return, bounds, capture, locks
<1>14. CASE Stop(p)
  BY <1>14 DEF Stop, Go, Victim, manager, locks, bounds
<1>15. CASE LockToClose(p)
  BY <1>15 DEF LockToClose, Go, Take, Victim, manager, bounds
<1>16. CASE FreeStream(p)
  BY <1>16 DEF FreeStream, Go, Free, Finish, Put, Victim, SourceFree, manager,
      locks, bounds
<1>17. CASE Finished(p)
  <2>0. /\ pc[p] = "finishing" /\ step[Victim(p)] = "gone"
        /\ after[p] \in {"install", "return", "closed"}
        /\ UNCHANGED <<starts, stream, srcLock>>
    BY <1>17 DEF Finished, bounds
  <2>1. CASE after[p] = "install" /\ current' = at[p] /\ StartReturns(p)
    BY <2>0, <2>1 DEF StartReturns, Return, Go
  <2>2. CASE after[p] = "install" /\ current' = 0 /\ Discard(p)
    BY <2>0, <2>2 DEF Discard, Go
  <2>3. CASE after[p] = "return" /\ UNCHANGED current /\ StartReturns(p)
    BY <2>0, <2>3 DEF StartReturns, Return, Go
  <2>4. CASE /\ after[p] = "closed" /\ Return(p)
             /\ op' = Nobody /\ UNCHANGED <<pending, current>>
    BY <2>0, <2>4 DEF Return, Go
  <2> QED BY <1>17, <2>0, <2>1, <2>2, <2>3, <2>4 DEF Finished
<1>18. CASE CloseEnters(p)
  BY <1>18 DEF CloseEnters, Go, Return, bounds, capture, locks
<1>19. CASE LockToCapture(p)
  BY <1>19 DEF LockToCapture, Go, Take, Return, manager, bounds
<1>20. CASE AskReady(p)
  BY <1>20 DEF AskReady, Go, Return, manager, bounds, capture, locks
<1>21. CASE EnterSource(p)
  BY <1>21 DEF EnterSource, Go, Take, Leaves, Drop, Return, manager, bounds
<1>22. CASE NativeReturns(p)
  BY <1>22 DEF NativeReturns, Drop, Leaves, Return, Go, manager, bounds
<1>23. CASE BeginOpening(p)
  <2>1. UNCHANGED <<op, pending, current, srcLock, stream, pc, at, after,
      starts>>
    BY <1>23 DEF BeginOpening, manager, control, bounds, capture, locks
  <2> QED BY <2>1
<1> QED BY <1>1, <1>2, <1>3, <1>4, <1>5, <1>6, <1>7, <1>8, <1>9, <1>10, <1>11,
    <1>12, <1>13, <1>14, <1>15, <1>16, <1>17, <1>18, <1>19, <1>20, <1>21,
    <1>22, <1>23 DEF Called, Step

(* What a call has at each point.                                              *)
LEMMA CalledPlaces ==
  ASSUME NEW p \in Procs, NEW q \in Procs, Shape, Places, Exclusive, Called(p)
  PROVE  PlacesOf(q)'
<1> USE ScreenCastAssumption DEF Shape, ShapeOf, Places, PlacesOf, Exclusive,
    ExclusiveOf, Young, Shutting, Reading
<1>1. CASE Start(p)
  BY <1>1 DEF Start, Go, manager
<1>2. CASE Close(p)
  BY <1>2 DEF Close, Go, CancelPending, Cancelled
<1>3. CASE Grab(p)
  BY <1>3 DEF Grab, Go, manager
<1>4. CASE StartEnters(p)
  BY <1>4 DEF StartEnters, Go, Return
<1>5. CASE Opened(p)
  BY <1>5 DEF Opened, Go, HasSession, manager
<1>6. CASE OpeningFails(p)
  BY <1>6 DEF OpeningFails, StartReturns, Return, Go, HasSession
<1>7. CASE CloseRemote(p)
  BY <1>7 DEF CloseRemote, Go, HasSession, manager
<1>8. CASE CheckSession(p)
  BY <1>8 DEF CheckSession, Go, manager
<1>9. CASE Connect(p)
  BY <1>9 DEF Connect, Go, manager
<1>10. CASE StreamReady(p)
  BY <1>10 DEF StreamReady, Go, manager
<1>11. CASE StreamFails(p)
  BY <1>11 DEF StreamFails, Go, Free, manager
<1>12. CASE Undo(p)
  BY <1>12 DEF Undo, Go, Finish, Put, manager
<1>13. CASE Swap(p)
  BY <1>13 DEF Swap, Go, StartReturns, Return
<1>14. CASE Stop(p)
  BY <1>14 DEF Stop, Go, Victim, manager
<1>15. CASE LockToClose(p)
  BY <1>15 DEF LockToClose, Go, Take, Victim, manager
<1>16. CASE FreeStream(p)
  BY <1>16 DEF FreeStream, Go, Free, Finish, Put, Victim, SourceFree, manager
<1>17. CASE Finished(p)
  <2>0. /\ pc[p] = "finishing" /\ step[Victim(p)] = "gone"
        /\ after[p] \in {"install", "return", "closed"}
        /\ UNCHANGED <<starts, stream, srcLock>>
    BY <1>17 DEF Finished, bounds
  <2>1. CASE after[p] = "install" /\ current' = at[p] /\ StartReturns(p)
    BY <2>0, <2>1 DEF StartReturns, Return, Go
  <2>2. CASE after[p] = "install" /\ current' = 0 /\ Discard(p)
    BY <2>0, <2>2 DEF Discard, Go
  <2>3. CASE after[p] = "return" /\ UNCHANGED current /\ StartReturns(p)
    BY <2>0, <2>3 DEF StartReturns, Return, Go
  <2>4. CASE /\ after[p] = "closed" /\ Return(p)
             /\ op' = Nobody /\ UNCHANGED <<pending, current>>
    BY <2>0, <2>4 DEF Return, Go
  <2> QED BY <1>17, <2>0, <2>1, <2>2, <2>3, <2>4 DEF Finished
<1>18. CASE CloseEnters(p)
  BY <1>18 DEF CloseEnters, Go, Return
<1>19. CASE LockToCapture(p)
  BY <1>19 DEF LockToCapture, Go, Take, Return, manager
<1>20. CASE AskReady(p)
  BY <1>20 DEF AskReady, Go, Return, manager
<1>21. CASE EnterSource(p)
  BY <1>21 DEF EnterSource, Go, Take, Leaves, Drop, Return, manager
<1>22. CASE NativeReturns(p)
  BY <1>22 DEF NativeReturns, Drop, Leaves, Return, Go, manager
<1>23. CASE BeginOpening(p)
  <2>1. UNCHANGED <<current, pc, at, after>>
    BY <1>23 DEF BeginOpening, manager, control
  <2> QED BY <2>1
<1> QED BY <1>1, <1>2, <1>3, <1>4, <1>5, <1>6, <1>7, <1>8, <1>9, <1>10, <1>11,
    <1>12, <1>13, <1>14, <1>15, <1>16, <1>17, <1>18, <1>19, <1>20, <1>21,
    <1>22, <1>23 DEF Called, Step

(* Attempts are numbered as they are begun.                                    *)
LEMMA CalledNumbered ==
  ASSUME NEW p \in Procs, Shape, Places, Numbered, Called(p)
  PROVE  Numbered'
<1> USE ScreenCastAssumption DEF Shape, ShapeOf, Places, PlacesOf, Numbered,
    Young, Shutting, Reading
<1>1. CASE Start(p)
  BY <1>1 DEF Start, Go, manager, capture, locks
<1>2. CASE Grab(p)
  BY <1>2 DEF Grab, Go, manager, bounds, capture, locks
<1>3. CASE StartEnters(p)
  BY <1>3 DEF StartEnters, Go, Return, bounds, capture, locks
<1>4. CASE OpeningFails(p)
  BY <1>4 DEF OpeningFails, StartReturns, Return, Go, HasSession, bounds,
      capture, locks
<1>5. CASE Connect(p)
  BY <1>5 DEF Connect, Go, manager, bounds
<1>6. CASE StreamFails(p)
  BY <1>6 DEF StreamFails, Go, Free, manager, bounds
<1>7. CASE Swap(p)
  BY <1>7 DEF Swap, Go, StartReturns, Return, bounds, capture, locks
<1>8. CASE FreeStream(p)
  BY <1>8 DEF FreeStream, Go, Free, Finish, Put, Victim, SourceFree, manager,
      bounds
<1>9. CASE Finished(p)
  <2>0. /\ pc[p] = "finishing" /\ step[Victim(p)] = "gone"
        /\ after[p] \in {"install", "return", "closed"}
        /\ UNCHANGED <<starts, stream, srcLock>>
    BY <1>9 DEF Finished, bounds
  <2>1. CASE after[p] = "install" /\ current' = at[p] /\ StartReturns(p)
    BY <2>0, <2>1 DEF StartReturns, Return, Go
  <2>2. CASE after[p] = "install" /\ current' = 0 /\ Discard(p)
    BY <2>0, <2>2 DEF Discard, Go
  <2>3. CASE after[p] = "return" /\ UNCHANGED current /\ StartReturns(p)
    BY <2>0, <2>3 DEF StartReturns, Return, Go
  <2>4. CASE /\ after[p] = "closed" /\ Return(p)
             /\ op' = Nobody /\ UNCHANGED <<pending, current>>
    BY <2>0, <2>4 DEF Return, Go
  <2> QED BY <1>9, <2>0, <2>1, <2>2, <2>3, <2>4 DEF Finished
<1>10. CASE CloseEnters(p)
  BY <1>10 DEF CloseEnters, Go, Return, bounds, capture, locks
<1>11. CASE LockToCapture(p)
  BY <1>11 DEF LockToCapture, Go, Take, Return, manager, bounds
<1>12. CASE AskReady(p)
  BY <1>12 DEF AskReady, Go, Return, manager, bounds, capture, locks
<1>13. CASE EnterSource(p)
  BY <1>13 DEF EnterSource, Go, Take, Leaves, Drop, Return, manager, bounds
<1>14. CASE NativeReturns(p)
  BY <1>14 DEF NativeReturns, Drop, Leaves, Return, Go, manager, bounds
<1>15. CASE Close(p) \/ BeginOpening(p) \/ Opened(p) \/ CloseRemote(p) \/
    CheckSession(p) \/ StreamReady(p) \/ Undo(p) \/ Stop(p) \/ LockToClose(p)
  <2>1. UNCHANGED <<current, stream, at, starts>>
    BY <1>15 DEF Close, capture, locks, BeginOpening, manager, control, bounds,
        Opened, CloseRemote, CheckSession, StreamReady, Undo, Stop, LockToClose
  <2> QED BY <2>1
<1> QED BY <1>1, <1>2, <1>3, <1>4, <1>5, <1>6, <1>7, <1>8, <1>9, <1>10, <1>11,
    <1>12, <1>13, <1>14, <1>15 DEF Called, Step

(* Who opens or closes a capture has the operation.                            *)
LEMMA CalledExclusive ==
  ASSUME NEW p \in Procs, NEW q \in Procs, Shape, Places, Exclusive, Called(p)
  PROVE  ExclusiveOf(q)'
<1> USE ScreenCastAssumption DEF Shape, ShapeOf, Places, PlacesOf, Exclusive,
    ExclusiveOf, Young, Shutting, Reading
<1>1. CASE Start(p)
  BY <1>1 DEF Start, Go, manager
<1>2. CASE Close(p)
  BY <1>2 DEF Close, Go, CancelPending, Cancelled
<1>3. CASE Grab(p)
  BY <1>3 DEF Grab, Go, manager
<1>4. CASE StartEnters(p)
  BY <1>4 DEF StartEnters, Go, Return
<1>5. CASE Opened(p)
  BY <1>5 DEF Opened, Go, HasSession, manager
<1>6. CASE OpeningFails(p)
  BY <1>6 DEF OpeningFails, StartReturns, Return, Go, HasSession
<1>7. CASE CloseRemote(p)
  BY <1>7 DEF CloseRemote, Go, HasSession, manager
<1>8. CASE CheckSession(p)
  BY <1>8 DEF CheckSession, Go, manager
<1>9. CASE Connect(p)
  BY <1>9 DEF Connect, Go, manager
<1>10. CASE StreamReady(p)
  BY <1>10 DEF StreamReady, Go, manager
<1>11. CASE StreamFails(p)
  BY <1>11 DEF StreamFails, Go, Free, manager
<1>12. CASE Undo(p)
  BY <1>12 DEF Undo, Go, Finish, Put, manager
<1>13. CASE Swap(p)
  BY <1>13 DEF Swap, Go, StartReturns, Return
<1>14. CASE Stop(p)
  BY <1>14 DEF Stop, Go, Victim, manager
<1>15. CASE LockToClose(p)
  BY <1>15 DEF LockToClose, Go, Take, Victim, manager
<1>16. CASE FreeStream(p)
  BY <1>16 DEF FreeStream, Go, Free, Finish, Put, Victim, SourceFree, manager
<1>17. CASE Finished(p)
  <2>0. /\ pc[p] = "finishing" /\ step[Victim(p)] = "gone"
        /\ after[p] \in {"install", "return", "closed"}
        /\ UNCHANGED <<starts, stream, srcLock>>
    BY <1>17 DEF Finished, bounds
  <2>1. CASE after[p] = "install" /\ current' = at[p] /\ StartReturns(p)
    BY <2>0, <2>1 DEF StartReturns, Return, Go
  <2>2. CASE after[p] = "install" /\ current' = 0 /\ Discard(p)
    BY <2>0, <2>2 DEF Discard, Go
  <2>3. CASE after[p] = "return" /\ UNCHANGED current /\ StartReturns(p)
    BY <2>0, <2>3 DEF StartReturns, Return, Go
  <2>4. CASE /\ after[p] = "closed" /\ Return(p)
             /\ op' = Nobody /\ UNCHANGED <<pending, current>>
    BY <2>0, <2>4 DEF Return, Go
  <2> QED BY <1>17, <2>0, <2>1, <2>2, <2>3, <2>4 DEF Finished
<1>18. CASE CloseEnters(p)
  BY <1>18 DEF CloseEnters, Go, Return
<1>19. CASE LockToCapture(p)
  BY <1>19 DEF LockToCapture, Go, Take, Return, manager
<1>20. CASE AskReady(p)
  BY <1>20 DEF AskReady, Go, Return, manager
<1>21. CASE EnterSource(p)
  BY <1>21 DEF EnterSource, Go, Take, Leaves, Drop, Return, manager
<1>22. CASE NativeReturns(p)
  BY <1>22 DEF NativeReturns, Drop, Leaves, Return, Go, manager
<1>23. CASE BeginOpening(p)
  <2>1. UNCHANGED <<op, pc>>
    BY <1>23 DEF BeginOpening, manager, control
  <2> QED BY <2>1
<1> QED BY <1>1, <1>2, <1>3, <1>4, <1>5, <1>6, <1>7, <1>8, <1>9, <1>10, <1>11,
    <1>12, <1>13, <1>14, <1>15, <1>16, <1>17, <1>18, <1>19, <1>20, <1>21,
    <1>22, <1>23 DEF Called, Step

(* The attempt of a Start is its own until it is installed.                    *)
LEMMA CalledFresh ==
  ASSUME NEW p \in Procs, NEW q \in Procs, NEW r \in Procs, Shape, Places,
      Numbered, Exclusive, Fresh, Called(p)
  PROVE  FreshOf(q, r)'
<1> USE ScreenCastAssumption DEF Shape, ShapeOf, Places, PlacesOf, Numbered,
    Exclusive, ExclusiveOf, Fresh, FreshOf, Owns, Young, Shutting, Reading
<1>1. CASE Start(p)
  BY <1>1 DEF Start, Go, manager
<1>2. CASE Close(p)
  BY <1>2 DEF Close, Go, CancelPending, Cancelled
<1>3. CASE Grab(p)
  BY <1>3 DEF Grab, Go, manager
<1>4. CASE StartEnters(p)
  BY <1>4 DEF StartEnters, Go, Return
<1>5. CASE Opened(p)
  BY <1>5 DEF Opened, Go, HasSession, manager
<1>6. CASE OpeningFails(p)
  BY <1>6 DEF OpeningFails, StartReturns, Return, Go, HasSession
<1>7. CASE CloseRemote(p)
  BY <1>7 DEF CloseRemote, Go, HasSession, manager
<1>8. CASE CheckSession(p)
  BY <1>8 DEF CheckSession, Go, manager
<1>9. CASE Connect(p)
  BY <1>9 DEF Connect, Go, manager
<1>10. CASE StreamReady(p)
  BY <1>10 DEF StreamReady, Go, manager
<1>11. CASE StreamFails(p)
  BY <1>11 DEF StreamFails, Go, Free, manager
<1>12. CASE Undo(p)
  BY <1>12 DEF Undo, Go, Finish, Put, manager
<1>13. CASE Swap(p)
  BY <1>13 DEF Swap, Go, StartReturns, Return
<1>14. CASE Stop(p)
  BY <1>14 DEF Stop, Go, Victim, manager
<1>15. CASE LockToClose(p)
  BY <1>15 DEF LockToClose, Go, Take, Victim, manager
<1>16. CASE FreeStream(p)
  BY <1>16 DEF FreeStream, Go, Free, Finish, Put, Victim, SourceFree, manager
<1>17. CASE Finished(p)
  <2>0. /\ pc[p] = "finishing" /\ step[Victim(p)] = "gone"
        /\ after[p] \in {"install", "return", "closed"}
        /\ UNCHANGED <<starts, stream, srcLock>>
    BY <1>17 DEF Finished, bounds
  <2>1. CASE after[p] = "install" /\ current' = at[p] /\ StartReturns(p)
    BY <2>0, <2>1 DEF StartReturns, Return, Go
  <2>2. CASE after[p] = "install" /\ current' = 0 /\ Discard(p)
    BY <2>0, <2>2 DEF Discard, Go
  <2>3. CASE after[p] = "return" /\ UNCHANGED current /\ StartReturns(p)
    BY <2>0, <2>3 DEF StartReturns, Return, Go
  <2>4. CASE /\ after[p] = "closed" /\ Return(p)
             /\ op' = Nobody /\ UNCHANGED <<pending, current>>
    BY <2>0, <2>4 DEF Return, Go
  <2> QED BY <1>17, <2>0, <2>1, <2>2, <2>3, <2>4 DEF Finished
<1>18. CASE CloseEnters(p)
  BY <1>18 DEF CloseEnters, Go, Return
<1>19. CASE LockToCapture(p)
  BY <1>19 DEF LockToCapture, Go, Take, Return, manager
<1>20. CASE AskReady(p)
  BY <1>20 DEF AskReady, Go, Return, manager
<1>21. CASE EnterSource(p)
  BY <1>21 DEF EnterSource, Go, Take, Leaves, Drop, Return, manager
<1>22. CASE NativeReturns(p)
  BY <1>22 DEF NativeReturns, Drop, Leaves, Return, Go, manager
<1>23. CASE BeginOpening(p)
  <2>1. UNCHANGED <<current, pc, at, after>>
    BY <1>23 DEF BeginOpening, manager, control
  <2> QED BY <2>1
<1> QED BY <1>1, <1>2, <1>3, <1>4, <1>5, <1>6, <1>7, <1>8, <1>9, <1>10, <1>11,
    <1>12, <1>13, <1>14, <1>15, <1>16, <1>17, <1>18, <1>19, <1>20, <1>21,
    <1>22, <1>23 DEF Called, Step

(* The capture in use has been connected.                                      *)
LEMMA CalledInUse ==
  ASSUME NEW p \in Procs, Shape, Places, Numbered, Exclusive, Fresh, Streams,
      Called(p)
  PROVE  (current # 0 => stream[current] # "none")'
<1> USE ScreenCastAssumption DEF Shape, ShapeOf, Places, PlacesOf, Exclusive,
    ExclusiveOf, Fresh, FreshOf, Owns, Streams, StreamsOf, Young, Shutting,
    Reading
<1>1. CASE Connect(p)
  BY <1>1 DEF Connect, Go, manager
<1>2. CASE StreamFails(p)
  BY <1>2 DEF StreamFails, Go, Free, manager
<1>3. CASE Swap(p)
  BY <1>3 DEF Swap, Go, StartReturns, Return, capture, locks
<1>4. CASE FreeStream(p)
  BY <1>4 DEF FreeStream, Go, Free, Finish, Put, Victim, SourceFree, manager
<1>5. CASE Finished(p)
  <2>0. /\ pc[p] = "finishing" /\ step[Victim(p)] = "gone"
        /\ after[p] \in {"install", "return", "closed"}
        /\ UNCHANGED <<starts, stream, srcLock>>
    BY <1>5 DEF Finished, bounds
  <2>1. CASE after[p] = "install" /\ current' = at[p] /\ StartReturns(p)
    BY <2>0, <2>1 DEF StartReturns, Return, Go
  <2>2. CASE after[p] = "install" /\ current' = 0 /\ Discard(p)
    BY <2>0, <2>2 DEF Discard, Go
  <2>3. CASE after[p] = "return" /\ UNCHANGED current /\ StartReturns(p)
    BY <2>0, <2>3 DEF StartReturns, Return, Go
  <2>4. CASE /\ after[p] = "closed" /\ Return(p)
             /\ op' = Nobody /\ UNCHANGED <<pending, current>>
    BY <2>0, <2>4 DEF Return, Go
  <2> QED BY <1>5, <2>0, <2>1, <2>2, <2>3, <2>4 DEF Finished
<1>6. CASE CloseEnters(p)
  BY <1>6 DEF CloseEnters, Go, Return, capture, locks
<1>7. CASE Start(p) \/ Close(p) \/ Grab(p) \/ StartEnters(p) \/ BeginOpening(p)
    \/ Opened(p) \/ OpeningFails(p) \/ CloseRemote(p) \/ CheckSession(p) \/
    StreamReady(p) \/ Undo(p) \/ Stop(p) \/ LockToClose(p) \/ LockToCapture(p)
    \/ AskReady(p) \/ EnterSource(p) \/ NativeReturns(p)
  <2>1. UNCHANGED <<current, stream>>
    BY <1>7 DEF Start, manager, capture, locks, Close, Grab, StartEnters,
        BeginOpening, Opened, OpeningFails, CloseRemote, CheckSession,
        StreamReady, Undo, Stop, LockToClose, LockToCapture, AskReady,
        EnterSource, NativeReturns
  <2> QED BY <2>1
<1> QED BY <1>1, <1>2, <1>3, <1>4, <1>5, <1>6, <1>7 DEF Called, Step

(* When the streams of the attempts live.                                      *)
LEMMA CalledStreams ==
  ASSUME NEW p \in Procs, NEW q \in Procs, Shape, Places, Numbered, Exclusive,
      Fresh, Streams, Called(p)
  PROVE  StreamsOf(q)'
<1> USE ScreenCastAssumption DEF Shape, ShapeOf, Places, PlacesOf, Numbered,
    Exclusive, ExclusiveOf, Fresh, FreshOf, Owns, Streams, StreamsOf, Victim,
    Young, Shutting, Reading
<1>1. CASE Start(p)
  BY <1>1 DEF Start, Go, manager, capture, locks
<1>2. CASE Close(p)
  BY <1>2 DEF Close, Go, CancelPending, Cancelled, capture, locks
<1>3. CASE Grab(p)
  BY <1>3 DEF Grab, Go, manager, capture, locks
<1>4. CASE StartEnters(p)
  BY <1>4 DEF StartEnters, Go, Return, capture, locks
<1>5. CASE Opened(p)
  BY <1>5 DEF Opened, Go, HasSession, manager, capture, locks
<1>6. CASE OpeningFails(p)
  BY <1>6 DEF OpeningFails, StartReturns, Return, Go, HasSession, capture,
      locks
<1>7. CASE CloseRemote(p)
  BY <1>7 DEF CloseRemote, Go, HasSession, manager, capture, locks
<1>8. CASE CheckSession(p)
  BY <1>8 DEF CheckSession, Go, manager, capture, locks
<1>9. CASE Connect(p)
  BY <1>9 DEF Connect, Go, manager
<1>10. CASE StreamReady(p)
  BY <1>10 DEF StreamReady, Go, manager, capture, locks
<1>11. CASE StreamFails(p)
  BY <1>11 DEF StreamFails, Go, Free, manager
<1>12. CASE Undo(p)
  BY <1>12 DEF Undo, Go, Finish, Put, manager, capture, locks
<1>13. CASE Swap(p)
  BY <1>13 DEF Swap, Go, StartReturns, Return, capture, locks
<1>14. CASE Stop(p)
  BY <1>14 DEF Stop, Go, manager
<1>15. CASE LockToClose(p)
  BY <1>15 DEF LockToClose, Go, Take, manager
<1>16. CASE FreeStream(p)
  BY <1>16 DEF FreeStream, Go, Free, Finish, Put, SourceFree, manager
<1>17. CASE Finished(p)
  <2>0. /\ pc[p] = "finishing" /\ step[Victim(p)] = "gone"
        /\ after[p] \in {"install", "return", "closed"}
        /\ UNCHANGED <<starts, stream, srcLock>>
    BY <1>17 DEF Finished, bounds
  <2>1. CASE after[p] = "install" /\ current' = at[p] /\ StartReturns(p)
    BY <2>0, <2>1 DEF StartReturns, Return, Go
  <2>2. CASE after[p] = "install" /\ current' = 0 /\ Discard(p)
    BY <2>0, <2>2 DEF Discard, Go
  <2>3. CASE after[p] = "return" /\ UNCHANGED current /\ StartReturns(p)
    BY <2>0, <2>3 DEF StartReturns, Return, Go
  <2>4. CASE /\ after[p] = "closed" /\ Return(p)
             /\ op' = Nobody /\ UNCHANGED <<pending, current>>
    BY <2>0, <2>4 DEF Return, Go
  <2> QED BY <1>17, <2>0, <2>1, <2>2, <2>3, <2>4 DEF Finished
<1>18. CASE CloseEnters(p)
  BY <1>18 DEF CloseEnters, Go, Return, capture, locks
<1>19. CASE LockToCapture(p)
  BY <1>19 DEF LockToCapture, Go, Take, Return, manager
<1>20. CASE AskReady(p)
  BY <1>20 DEF AskReady, Go, Return, manager, capture, locks
<1>21. CASE EnterSource(p)
  BY <1>21 DEF EnterSource, Go, Take, Leaves, Drop, Return, manager
<1>22. CASE NativeReturns(p)
  BY <1>22 DEF NativeReturns, Drop, Leaves, Return, Go, manager
<1>23. CASE BeginOpening(p)
  <2>1. UNCHANGED <<current, stream, pc, at, after>>
    BY <1>23 DEF BeginOpening, manager, control, capture, locks
  <2> QED BY <2>1
<1> QED BY <1>1, <1>2, <1>3, <1>4, <1>5, <1>6, <1>7, <1>8, <1>9, <1>10, <1>11,
    <1>12, <1>13, <1>14, <1>15, <1>16, <1>17, <1>18, <1>19, <1>20, <1>21,
    <1>22, <1>23 DEF Called, Step

(* Who is in the native stream has the source's lock.                          *)
LEMMA CalledLocked ==
  ASSUME NEW p \in Procs, NEW q \in Procs, Shape, Places, Numbered, Exclusive,
      Fresh, Streams, Locked, Called(p)
  PROVE  LockedOf(q)'
<1> USE ScreenCastAssumption DEF Shape, ShapeOf, Places, PlacesOf, Exclusive,
    ExclusiveOf, Fresh, FreshOf, Owns, Streams, StreamsOf, Locked, LockedOf,
    Young, Shutting, Reading
<1>1. CASE Start(p)
  BY <1>1 DEF Start, Go, capture, locks
<1>2. CASE Close(p)
  BY <1>2 DEF Close, Go, CancelPending, Cancelled, capture, locks
<1>3. CASE Grab(p)
  BY <1>3 DEF Grab, Go, capture, locks
<1>4. CASE StartEnters(p)
  BY <1>4 DEF StartEnters, Go, Return, capture, locks
<1>5. CASE Opened(p)
  BY <1>5 DEF Opened, Go, HasSession, capture, locks
<1>6. CASE OpeningFails(p)
  BY <1>6 DEF OpeningFails, StartReturns, Return, Go, HasSession, capture,
      locks
<1>7. CASE CloseRemote(p)
  BY <1>7 DEF CloseRemote, Go, HasSession, capture, locks
<1>8. CASE CheckSession(p)
  BY <1>8 DEF CheckSession, Go, capture, locks
<1>9. CASE Connect(p)
  BY <1>9 DEF Connect, Go, locks
<1>10. CASE StreamReady(p)
  BY <1>10 DEF StreamReady, Go, capture, locks
<1>11. CASE StreamFails(p)
  BY <1>11 DEF StreamFails, Go, Free, locks
<1>12. CASE Undo(p)
  BY <1>12 DEF Undo, Go, Finish, Put, capture, locks
<1>13. CASE Swap(p)
  BY <1>13 DEF Swap, Go, StartReturns, Return, capture, locks
<1>14. CASE Stop(p)
  BY <1>14 DEF Stop, Go, Victim, locks
<1>15. CASE LockToClose(p)
  BY <1>15 DEF LockToClose, Go, Take, Victim
<1>16. CASE FreeStream(p)
  BY <1>16 DEF FreeStream, Go, Free, Finish, Put, Victim, SourceFree, locks
<1>17. CASE Finished(p)
  <2>0. /\ pc[p] = "finishing" /\ step[Victim(p)] = "gone"
        /\ after[p] \in {"install", "return", "closed"}
        /\ UNCHANGED <<starts, stream, srcLock>>
    BY <1>17 DEF Finished, bounds
  <2>1. CASE after[p] = "install" /\ current' = at[p] /\ StartReturns(p)
    BY <2>0, <2>1 DEF StartReturns, Return, Go
  <2>2. CASE after[p] = "install" /\ current' = 0 /\ Discard(p)
    BY <2>0, <2>2 DEF Discard, Go
  <2>3. CASE after[p] = "return" /\ UNCHANGED current /\ StartReturns(p)
    BY <2>0, <2>3 DEF StartReturns, Return, Go
  <2>4. CASE /\ after[p] = "closed" /\ Return(p)
             /\ op' = Nobody /\ UNCHANGED <<pending, current>>
    BY <2>0, <2>4 DEF Return, Go
  <2> QED BY <1>17, <2>0, <2>1, <2>2, <2>3, <2>4 DEF Finished
<1>18. CASE CloseEnters(p)
  BY <1>18 DEF CloseEnters, Go, Return, capture, locks
<1>19. CASE LockToCapture(p)
  BY <1>19 DEF LockToCapture, Go, Take, Return
<1>20. CASE AskReady(p)
  BY <1>20 DEF AskReady, Go, Return, capture, locks
<1>21. CASE EnterSource(p)
  <2>1. CASE Leaves(p) /\ UNCHANGED srcLock
    BY <1>21, <2>1 DEF EnterSource, Leaves, Return, Go
  <2>2. CASE /\ stream[at[p]] # "freed"
             /\ Take(srcLock, at[p], p) /\ Go(p, "native")
    BY <1>21, <2>2 DEF EnterSource, Take, Go
  <2> QED BY <1>21, <2>1, <2>2 DEF EnterSource
<1>22. CASE NativeReturns(p)
  BY <1>22 DEF NativeReturns, Drop, Leaves, Return, Go
<1>23. CASE BeginOpening(p)
  <2>1. UNCHANGED <<srcLock, stream, pc, at>>
    BY <1>23 DEF BeginOpening, control, capture, locks
  <2> QED BY <2>1
<1> QED BY <1>1, <1>2, <1>3, <1>4, <1>5, <1>6, <1>7, <1>8, <1>9, <1>10, <1>11,
    <1>12, <1>13, <1>14, <1>15, <1>16, <1>17, <1>18, <1>19, <1>20, <1>21,
    <1>22, <1>23 DEF Called, Step

(* What has something to give back is in somebody's hands.                     *)
LEMMA CalledInHand ==
  ASSUME NEW p \in Procs, NEW a \in Attempts, Rows, Shape, Places, Exclusive,
      Streams, InHand, Called(p)
  PROVE  InHandOf(a)'
<1> USE ScreenCastAssumption DEF Rows, Shape, ShapeOf, Places, PlacesOf,
    Exclusive, ExclusiveOf, Streams, StreamsOf, InHand, InHandOf, Victim,
    Young, Shutting, Reading
<1>1. CASE Start(p)
  BY <1>1 DEF Start, Go, manager, capture, locks, handshake
<1>2. CASE Grab(p)
  BY <1>2 DEF Grab, Go, manager, capture, locks, handshake
<1>3. CASE StartEnters(p)
  BY <1>3 DEF StartEnters, Go, Return, capture, locks, handshake
<1>4. CASE BeginOpening(p)
  <2>1. op = p /\ at[p] \in Attempts
    BY <1>4 DEF BeginOpening
  <2>2. /\ UNCHANGED <<current, op, at>>
        /\ a # at[p] => step'[a] = step[a] /\ stream'[a] = stream[a]
    BY <1>4 DEF BeginOpening, Begin, Put, manager, capture, locks, control,
       handshake, opening
  <2> QED BY <2>1, <2>2
<1>5. CASE OpeningFails(p)
  BY <1>5 DEF OpeningFails, StartReturns, Return, Go, HasSession, capture,
      locks, handshake
<1>6. CASE Connect(p)
  <2>1. op = p /\ at[p] \in Attempts
    BY <1>6 DEF Connect
  <2>2. /\ UNCHANGED <<current, op, at>>
        /\ a # at[p] => step'[a] = step[a] /\ stream'[a] = stream[a]
    BY <1>6 DEF Connect, Go, manager, capture, locks, control,
       handshake, opening
  <2> QED BY <2>1, <2>2
<1>7. CASE StreamFails(p)
  BY <1>7 DEF StreamFails, Go, Free, manager, handshake
<1>8. CASE Undo(p)
  <2>1. op = p /\ at[p] \in Attempts
    BY <1>8 DEF Undo
  <2>2. /\ UNCHANGED <<current, op, at>>
        /\ a # at[p] => step'[a] = step[a] /\ stream'[a] = stream[a]
    BY <1>8 DEF Undo, Finish, Put, manager, capture, locks, control,
       handshake, opening
  <2> QED BY <2>1, <2>2
<1>9. CASE Swap(p)
  BY <1>9 DEF Swap, Go, StartReturns, Return, capture, locks, handshake
<1>10. CASE FreeStream(p)
  <2>1. op = p /\ Victim(p) \in Attempts \cap {current, at[p]}
    BY <1>10 DEF FreeStream
  <2>2. /\ UNCHANGED <<current, op, at>>
        /\ a # Victim(p) => step'[a] = step[a] /\ stream'[a] = stream[a]
    BY <1>10 DEF FreeStream, Finish, Put, Free, manager, capture, locks, control,
       handshake, opening
  <2> QED BY <2>1, <2>2
<1>11. CASE Finished(p)
  <2>0. /\ pc[p] = "finishing" /\ step[Victim(p)] = "gone"
        /\ after[p] \in {"install", "return", "closed"}
        /\ UNCHANGED <<step, stream>> /\ op = p
    BY <1>11 DEF Finished, handshake
  <2>1. CASE after[p] = "install" /\ current' = at[p] /\ StartReturns(p)
    BY <2>0, <2>1 DEF StartReturns, Return, Go
  <2>2. CASE after[p] = "install" /\ current' = 0 /\ Discard(p)
    BY <2>0, <2>2 DEF Discard, Go
  <2>3. CASE after[p] = "return" /\ UNCHANGED current /\ StartReturns(p)
    BY <2>0, <2>3 DEF StartReturns, Return, Go
  <2>4. CASE /\ after[p] = "closed" /\ Return(p)
             /\ op' = Nobody /\ UNCHANGED <<pending, current>>
    BY <2>0, <2>4 DEF Return, Go
  <2> QED BY <1>11, <2>0, <2>1, <2>2, <2>3, <2>4 DEF Finished
<1>12. CASE CloseEnters(p)
  BY <1>12 DEF CloseEnters, Go, Return, capture, locks, handshake
<1>13. CASE LockToCapture(p)
  BY <1>13 DEF LockToCapture, Go, Take, Return, manager, handshake
<1>14. CASE AskReady(p)
  <2>1. op # p
    BY <1>14 DEF AskReady
  <2>2. /\ UNCHANGED <<current, op, stream, step>>
        /\ \A q \in Procs : q # p => at'[q] = at[q]
    BY <1>14 DEF AskReady, Return, manager, capture, locks, handshake
  <2> QED BY <2>1, <2>2
<1>15. CASE EnterSource(p)
  BY <1>15 DEF EnterSource, Go, Take, Leaves, Drop, Return, manager, handshake
<1>16. CASE NativeReturns(p)
  BY <1>16 DEF NativeReturns, Drop, Leaves, Return, Go, manager, handshake
<1>17. CASE Close(p) \/ Opened(p) \/ CloseRemote(p) \/ CheckSession(p) \/
    StreamReady(p) \/ Stop(p) \/ LockToClose(p)
  <2>1. UNCHANGED <<op, current, stream, at, step>>
    BY <1>17 DEF Close, capture, locks, opening, Opened, manager, handshake,
        CloseRemote, CheckSession, StreamReady, Stop, LockToClose
  <2> QED BY <2>1
<1> QED BY <1>1, <1>2, <1>3, <1>4, <1>5, <1>6, <1>7, <1>8, <1>9, <1>10, <1>11,
    <1>12, <1>13, <1>14, <1>15, <1>16, <1>17 DEF Called, Step

(* What a call does to an attempt.                                             *)
LEMMA CalledMoves ==
  ASSUME NEW p \in Procs, Shape, Places, Called(p)
  PROVE  UNCHANGED handshake \/ \E a \in Attempts : Moves(a)
<1> USE ScreenCastAssumption
<1>1. CASE Close(p)
  <2>1. CASE pending # 0
    <3>1. pending \in Attempts
      BY <2>1 DEF Shape
    <3>2. CancelledBy(pending)
      BY <1>1, <2>1 DEF Close, CancelPending, CancelledBy
    <3> QED BY <3>1, <3>2 DEF Moves
  <2>2. CASE pending = 0
    BY <1>1, <2>2 DEF Close, CancelPending, handshake, atPortal, opening
  <2> QED BY <2>1, <2>2
<1>2. CASE BeginOpening(p)
  <2>1. at[p] \in Attempts
    BY <1>2 DEF BeginOpening, Shape, ShapeOf, Places, PlacesOf
  <2> QED BY <1>2, <2>1 DEF BeginOpening, Moves
<1>3. CASE Undo(p)
  <2>1. at[p] \in Attempts
    BY <1>3 DEF Undo, Shape, ShapeOf, Places, PlacesOf
  <2>2. FinishedBy(at[p])
    BY <1>3 DEF Undo, FinishedBy
  <2> QED BY <2>1, <2>2 DEF Moves
<1>4. CASE FreeStream(p)
  <2>1. Victim(p) \in Attempts
    BY <1>4 DEF FreeStream, Shape, ShapeOf, Places, PlacesOf, Victim
  <2>2. FinishedBy(Victim(p))
    BY <1>4 DEF FreeStream, FinishedBy
  <2> QED BY <2>1, <2>2 DEF Moves
<1>5. CASE \/ Start(p) \/ Grab(p) \/ StartEnters(p) \/ Opened(p)
           \/ OpeningFails(p) \/ CloseRemote(p) \/ CheckSession(p)
           \/ Connect(p) \/ StreamReady(p) \/ StreamFails(p) \/ Swap(p)
           \/ Stop(p) \/ LockToClose(p) \/ Finished(p) \/ CloseEnters(p)
           \/ LockToCapture(p) \/ AskReady(p) \/ EnterSource(p)
           \/ NativeReturns(p)
  BY <1>5 DEF Start, Grab, StartEnters, Opened, OpeningFails, CloseRemote,
     CheckSession, Connect, StreamReady, StreamFails, Swap, Stop, LockToClose,
     Finished, CloseEnters, LockToCapture, AskReady, EnterSource, NativeReturns
<1> QED BY <1>1, <1>2, <1>3, <1>4, <1>5 DEF Called, Step

(* A call leaves the invariant of the manager.                                 *)
LEMMA CalledStays ==
  ASSUME Inv, NEW p \in Procs, Called(p)
  PROVE  Inv'
<1> USE DEF Inv
<1>1. Shape'
  BY CalledShape
<1>2. Numbered'
  BY CalledNumbered
<1>3. Places' /\ Exclusive'
  BY CalledPlaces, CalledExclusive DEF Places, Exclusive
<1>4. Fresh'
  BY CalledFresh DEF Fresh
<1>5. Streams'
  BY CalledInUse, CalledStreams DEF Streams
<1>6. Locked'
  BY CalledLocked DEF Locked
<1>7. InHand'
  BY CalledInHand DEF InHand, Typed
<1>8. Typed' /\ Wired' /\ Settled'
  BY CalledMoves, HandshakeStays
<1> QED BY <1>1, <1>2, <1>3, <1>4, <1>5, <1>6, <1>7, <1>8

(* So does what happens to an attempt by itself, or from outside.              *)
LEMMA OthersStay ==
  ASSUME Inv, NEW a \in Attempts, Attempt(a) \/ Outside(a)
  PROVE  Inv'
<1> USE DEF Inv
<1>1. Progress(a) \/ Portal(a) \/ Trouble(a)
  BY DEF Attempt, Outside
<1>2. UNCHANGED <<manager, capture, pc, at, after, starts>>
  BY DEF Attempt, Outside, control, bounds
<1>3. UNCHANGED <<op, pending, current, srcLock, stream>>
  BY <1>2 DEF manager, capture, locks
<1>4. Shape' /\ Places' /\ Numbered' /\ Exclusive' /\ Fresh'
  BY <1>2, <1>3 DEF Shape, ShapeOf, Places, PlacesOf, Numbered, Exclusive,
     ExclusiveOf, Fresh, FreshOf, Owns
<1>5. Streams' /\ Locked'
  BY <1>2, <1>3 DEF Streams, StreamsOf, Victim, Locked, LockedOf
<1>6. InHand'
  <2>1. Rows
    BY DEF Typed
  <2>2. \A b \in Attempts : step[b] \in {"idle", "gone"} => step'[b] = step[b]
    BY <1>1, <2>1, MovesOn, MovesOthers DEF Moves
  <2>3. \A b \in Attempts :
          step'[b] \notin {"idle", "gone"} => step[b] \notin {"idle", "gone"}
    BY <2>2
  <2> QED BY <1>2, <1>3, <2>3 DEF InHand, InHandOf
<1>7. Typed' /\ Wired' /\ Settled'
  <2>1. Moves(a)
    BY <1>1 DEF Moves
  <2> QED BY <2>1, HandshakeStays
<1> QED BY <1>4, <1>5, <1>6, <1>7

(* The invariant holds at first.                                               *)
LEMMA InvStarts == Init => Inv
<1> SUFFICES ASSUME Init
             PROVE  Inv
  OBVIOUS
<1> USE ScreenCastAssumption DEF Init, HandshakeInit
<1>1. Shape /\ Places /\ Numbered
  BY DEF Shape, ShapeOf, Places, PlacesOf, Numbered, Young, Shutting, Reading
<1>2. Exclusive /\ Fresh /\ Streams /\ Locked
  BY DEF Exclusive, ExclusiveOf, Fresh, FreshOf, Owns, Streams, StreamsOf,
     Victim, Locked, LockedOf, Young, Shutting, Reading
<1>3. Typed
  BY DEF Typed, Rows, TypedOf, Paths, NoPath
<1>4. Wired /\ InHand
  BY DEF Wired, WiredOf, InHand, InHandOf
<1>5. Settled
  BY DEF Settled, SettledOf, BlankOf, MadeOf, MailOf, AskedOf, FailedOf,
     NoSession, Requests, Paths, NoPath
<1> QED BY <1>1, <1>2, <1>3, <1>4, <1>5 DEF Inv

(* And every step leaves it.                                                   *)
LEMMA InvStays == Inv /\ [Next]_vars => Inv'
<1> SUFFICES ASSUME Inv, [Next]_vars
             PROVE  Inv'
  OBVIOUS
<1>1. CASE \E p \in Procs : Called(p)
  BY <1>1, CalledStays
<1>2. CASE \E a \in Attempts : Attempt(a) \/ Outside(a)
  BY <1>2, OthersStay
<1>3. CASE UNCHANGED vars
  <2> USE <1>3 DEF Inv, vars, manager, capture, locks, control, bounds
  <2>1. Shape' /\ Places' /\ Numbered' /\ Exclusive' /\ Fresh'
    BY DEF Shape, ShapeOf, Places, PlacesOf, Numbered, Exclusive, ExclusiveOf,
       Fresh, FreshOf, Owns
  <2>2. Streams' /\ Locked'
    BY DEF Streams, StreamsOf, Victim, Locked, LockedOf
  <2>3. InHand'
    BY DEF InHand, InHandOf, handshake
  <2>4. Typed' /\ Wired' /\ Settled'
    BY HandshakeStays
  <2> QED BY <2>1, <2>2, <2>3, <2>4
<1> QED BY <1>1, <1>2, <1>3 DEF Next, Called, Procs

THEOREM Invariant == Spec => []Inv
BY InvStarts, InvStays, PTL DEF Spec

(* No native call runs on a stream that has been freed: of a stream that a     *)
(* Start waits for nobody else knows, and the others are freed under the       *)
(* source's lock.                                                              *)
THEOREM StreamLivesInCall == Spec => []NativeLive
<1>1. Inv => NativeLive
  BY DEF Inv, Streams, StreamsOf, Locked, LockedOf, NativeLive
<1> QED BY <1>1, Invariant, PTL

(* When no Start or Close is at work, every attempt but the one in use has     *)
(* given everything back.                                                      *)
THEOREM AllGivenBack == Spec => []NothingLeft
<1>1. Inv => NothingLeft
  <2> SUFFICES ASSUME Inv, op = Nobody, NEW a \in Attempts \ {current}
               PROVE  /\ step[a] \in {"idle", "gone"}
                      /\ stream[a] # "live" /\ fd[a] # "open"
                      /\ ~remote[a].alive
    BY DEF NothingLeft
  <2>1. step[a] \in {"idle", "gone"} /\ stream[a] # "live"
    BY ScreenCastAssumption DEF Inv, InHand, InHandOf
  <2>2. WiredOf(a) /\ TypedOf(a)
    BY DEF Inv, Wired, Typed
  <2> QED BY <2>1, <2>2 DEF WiredOf, TypedOf
<1> QED BY <1>1, Invariant, PTL

(* Every session that this side can name and the portal may have made is asked *)
(* to close, once it is of no use, unless it is known to be closed.            *)
THEOREM SessionsAsked == Spec => []SessionsSettled
<1>1. Inv => SessionsSettled
  <2> SUFFICES ASSUME Inv, NEW a \in Attempts
               PROVE  /\ asked[a] \cap known[a] = {}
                      /\ step[a] = "leaving" /\ bus[a] = "up" /\ Nameable(a)
                           /\ ~LeftToTheBus(a)
                           => remote[a].path \in asked[a] \cup known[a]
    BY DEF SessionsSettled
  <2>1. AskedOf(a) /\ FailedOf(a)
    BY DEF Inv, Settled, SettledOf
  <2> QED BY <2>1 DEF AskedOf, FailedOf, Nameable, NoSession
<1> QED BY <1>1, Invariant, PTL
=============================================================================
