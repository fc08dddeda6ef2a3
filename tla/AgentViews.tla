------------------------------ MODULE AgentViews ------------------------------
(* The sensitive pixels of an agent session that serves an MCP client: desktop *)
(* views, their retained captures and their analysis (src/agent/view.go,       *)
(* analysis.go, observation.go, target_evidence.go, session.go) and the image  *)
(* content of the responses (src/agent/mcpserver/server.go).                   *)
(*                                                                             *)
(* A view goes through the hands of a native worker, the session, a response   *)
(* and the MCP SDK; whoever has pixels when it fails has to wipe them.         *)
(*                                                                             *)
(* Abstracted: the pixels, a PNG, the boxes that an analysis finds. A policy   *)
(* that denies, a backend that fails, an audit sink that refuses and a limit   *)
(* that is exceeded are one choice, Fail or Refuse. The native reads are the   *)
(* synchronous ones; Wayland's take a context themselves.                      *)
EXTENDS Naturals

CONSTANTS
    Callers,      \* goroutines that handle a tool call or call the session
    Application,  \* those of them that call the session
    Closers,      \* goroutines that call Server.Close
    Nobody,
    MaxViews,     \* the policy's quota of views
    MaxAnalyses,  \* the policy's quota of analyses
    MaxReleases,  \* bound on the application's calls of ReleaseObservation
    MaxCloses     \* bound on the calls of Server.Close

Procs == Callers \cup Closers
Views == 1..MaxViews

ASSUME AgentViewsAssumption ==
    /\ MaxViews \in Nat /\ MaxAnalyses \in Nat
    /\ MaxReleases \in Nat /\ MaxCloses \in Nat
    /\ Application \subseteq Callers
    /\ Nobody \notin Procs /\ Callers \cap Closers = {}

VARIABLES
    gate,       \* who has Session.actionGate
    cancelled,  \* Session.ctx is done
    swept,      \* Session.closeOnce has run
    adapterClosed, imagesClosed,  \* adapter.closed, Server.pendingImagesClosed
    closeMu,    \* who has adapter.closeMu
    closeDone,  \* adapter.closeDone
    reader,     \* the worker that has the slot of synchronous desktop reads
    analyst,    \* who has the token of the analysis worker
    buffer,     \* buffer[v]: the retained capture, "none", "live" or "wiped"
    user,       \* user[v]: who has captureBuffer.mu for as long as it reads
    png,        \* png[v]: whose bytes: "none", "view", "content", "sent", "wiped"
    content,    \* content[v]: clearingImageContent, "none", "open" or "closed"
    tracked, records, pending,  \* Session.views, .observations, Server.pendingImages
    evidence,   \* evidence[v]: the callers whose analysis a record keeps
    crop,       \* crop[c]: c holds pixels that it copied out of a capture
    pc, call,
    at,         \* at[c]: the view c deals with
    ended,      \* ended[c]: the context of c's request or operation is done
    gone,       \* gone[c]: ... its request's own, if it is for a view
    doomed,     \* doomed[k]: the images a closer has still to clear
    known,      \* the views whose identity a client or the application has
    taken, analyses, releases, closes

session  == <<gate, cancelled, swept>>
server   == <<adapterClosed, imagesClosed, closeMu, closeDone>>
workers  == <<reader, analyst>>
captures == <<buffer, user, records, evidence>>
images   == <<png, content, tracked, pending>>
control  == <<pc, call, at>>
context  == <<ended, gone>>
bounds   == <<taken, analyses, releases, closes>>
vars == <<session, server, workers, captures, images, crop, control, context,
          doomed, known, bounds>>

NoReader == [for |-> Nobody, kind |-> "none", step |-> "idle"]
NoAnalyst == [for |-> Nobody, step |-> "idle"]

Init ==
    /\ gate = Nobody /\ cancelled = FALSE /\ swept = FALSE
    /\ adapterClosed = FALSE /\ imagesClosed = FALSE
    /\ closeMu = Nobody /\ closeDone = FALSE
    /\ reader = NoReader /\ analyst = NoAnalyst
    /\ buffer = [v \in Views |-> "none"] /\ user = [v \in Views |-> Nobody]
    /\ png = [v \in Views |-> "none"] /\ content = [v \in Views |-> "none"]
    /\ tracked = {} /\ records = {} /\ pending = {}
    /\ evidence = [v \in Views |-> {}]
    /\ crop = [c \in Callers |-> FALSE]
    /\ pc = [p \in Procs |-> "idle"] /\ call = [c \in Callers |-> "none"]
    /\ at = [c \in Callers |-> 0]
    /\ ended = [c \in Callers |-> FALSE] /\ gone = [c \in Callers |-> FALSE]
    /\ doomed = [k \in Closers |-> {}] /\ known = {}
    /\ taken = 0 /\ analyses = 0 /\ releases = 0 /\ closes = 0

-----------------------------------------------------------------------------
Go(p, where) == pc' = [pc EXCEPT ![p] = where]

(* The context of a view or an analysis: it ends with the request's, with its  *)
(* time-out and with the session.                                              *)
Stopped(c) == ended[c] \/ cancelled

(* The call is over; the contexts made for it are gone.                        *)
Idle(c) ==
    /\ pc' = [pc EXCEPT ![c] = "idle"]
    /\ call' = [call EXCEPT ![c] = "none"]
    /\ at' = [at EXCEPT ![c] = 0]
    /\ ended' = [ended EXCEPT ![c] = FALSE]
    /\ gone' = [gone EXCEPT ![c] = FALSE]

-----------------------------------------------------------------------------
(* A tool call, which the adapter refuses once the server is closed, or one of *)
(* the application, which has the session as well.                             *)
Ask(c, kind, v) ==
    /\ pc[c] = "idle"
    /\ c \in Application \/ ~adapterClosed
    /\ kind = "view" => v = 0 /\ taken < MaxViews
    /\ kind \in {"ocr", "visual"} => v \in known /\ analyses < MaxAnalyses
    /\ Go(c, "asking")
    /\ call' = [call EXCEPT ![c] = kind]
    /\ at' = [at EXCEPT ![c] = v]
    /\ UNCHANGED <<session, server, workers, captures, images, crop, context,
                   doomed, known, bounds>>

(* The application releases an observation; nothing orders that.               *)
AskRelease(c, v) ==
    /\ pc[c] = "idle" /\ c \in Application /\ v \in known
    /\ releases < MaxReleases /\ releases' = releases + 1
    /\ Go(c, "untrack")
    /\ call' = [call EXCEPT ![c] = "release"]
    /\ at' = [at EXCEPT ![c] = v]
    /\ UNCHANGED <<session, server, workers, captures, images, crop, context,
                   doomed, known, taken, analyses, closes>>

(* The client cancels its request, or an operation takes too long, at a point  *)
(* from which the call still looks at its context.                             *)
Watched == {"bounds", "image", "reading", "captured", "copy", "copying",
            "worker", "analysing"}

Cancel(c) ==
    /\ ~gone[c]
    /\ \/ pc[c] \in {"asking"} \cup Watched
       \/ call[c] = "view" /\ pc[c] \in {"recorded", "returned", "taking", "taken"}
    /\ ended' = [ended EXCEPT ![c] = TRUE]
    /\ gone' = [gone EXCEPT ![c] = call[c] = "view"]
    /\ UNCHANGED <<session, server, workers, captures, images, crop, control,
                   doomed, known, bounds>>

TimeOut(c) ==
    /\ pc[c] \in Watched /\ ~ended[c]
    /\ ended' = [ended EXCEPT ![c] = TRUE]
    /\ UNCHANGED <<session, server, workers, captures, images, crop, control,
                   gone, doomed, known, bounds>>

(* Session.acquire, and the checks before anything is read: a call may find    *)
(* its context done in the queue, be denied at the gate, or find the session   *)
(* closed.                                                                     *)
Refuse(c) ==
    /\ pc[c] = "asking"
    /\ Stopped(c) \/ gate = Nobody
    /\ Idle(c)
    /\ UNCHANGED <<session, server, workers, captures, images, crop, doomed,
                   known, bounds>>

BeginView(c) ==
    /\ pc[c] = "asking" /\ call[c] = "view" /\ gate = Nobody /\ ~cancelled
    /\ taken < MaxViews
    /\ taken' = taken + 1
    /\ at' = [at EXCEPT ![c] = taken + 1]
    /\ gate' = c
    /\ Go(c, "bounds")
    /\ UNCHANGED <<cancelled, swept, server, workers, captures, images, crop,
                   call, context, doomed, known, analyses, releases, closes>>

(* Fault: the capture counts as retained before it is recorded.                *)
FailRetained(c) ==
    /\ UNCHANGED buffer
    /\ gate' = Nobody
    /\ Idle(c)

(* finishViewFailure, whatever the reason: the capture is closed and the gate  *)
(* given back, and the handler answers with an error.                          *)
Fail(c) ==
    /\ buffer' = [buffer EXCEPT ![at[c]] = IF pc[c] = "captured" THEN "wiped" ELSE @]
    /\ gate' = Nobody
    /\ Idle(c)

(* The read of the display's bounds and of its pixels share one slot. A native *)
(* read cannot be ended, only abandoned.                                       *)
TakeSlot(c) ==
    /\ pc[c] \in {"bounds", "image"} /\ reader.step = "idle"
    /\ reader' = [for |-> c, kind |-> pc[c], step |-> "starting"]
    /\ Go(c, "reading")
    /\ UNCHANGED <<session, server, analyst, captures, images, crop, call, at,
                   context, doomed, known, bounds>>

(* Fault: ... and is not, once it has begun.                                   *)
AbandonQueue(c) ==
    /\ pc[c] \in {"bounds", "image"} /\ Stopped(c)
    /\ Fail(c)
    /\ UNCHANGED <<cancelled, swept, server, workers, user, records, evidence,
                   images, crop, doomed, known, bounds>>

Abandon(c) ==
    /\ pc[c] \in {"bounds", "image", "reading"} /\ Stopped(c)
    /\ Fail(c)
    /\ UNCHANGED <<cancelled, swept, server, workers, user, records, evidence,
                   images, crop, doomed, known, bounds>>

(* The worker's caller has left or is about to.                                *)
Late(w, waiting) == pc[w.for] # waiting \/ Stopped(w.for)

ReadBegins ==
    /\ reader.step = "starting"
    /\ reader' = IF Late(reader, "reading") THEN NoReader
               ELSE [reader EXCEPT !.step = "native"]
    /\ UNCHANGED <<session, server, analyst, captures, images, crop, control,
                   context, doomed, known, bounds>>

(* The native read returns, perhaps long after.                                *)
ReadReturns ==
    /\ reader.step = "native"
    /\ reader' = [reader EXCEPT !.step = "offering"]
    /\ UNCHANGED <<session, server, analyst, captures, images, crop, control,
                   context, doomed, known, bounds>>

(* A late image is wiped by the worker.                                        *)
DropLate ==
    /\ reader.step = "offering" /\ Late(reader, "reading")
    /\ reader' = NoReader
    /\ UNCHANGED <<session, server, analyst, captures, images, crop, control,
                   context, doomed, known, bounds>>

(* The caller gets the result, copies the pixels into a capture buffer of its  *)
(* own and wipes the image, or wipes it at once.                               *)
Receive(c) ==
    /\ pc[c] = "reading" /\ reader.for = c /\ reader.step = "offering"
    /\ reader' = NoReader
    /\ \/ /\ Fail(c)
       \/ /\ ~Stopped(c) /\ reader.kind = "bounds"
          /\ Go(c, "image")
          /\ UNCHANGED <<gate, buffer, call, at, context>>
       \/ /\ ~Stopped(c) /\ reader.kind = "image"
          /\ buffer' = [buffer EXCEPT ![at[c]] = "live"]
          /\ Go(c, "captured")
          /\ UNCHANGED <<gate, call, at, context>>
    /\ UNCHANGED <<cancelled, swept, server, analyst, user, records, evidence,
                   images, crop, doomed, known, bounds>>

(* Redacted and encoded in time, the capture is recorded and the view tracked. *)
Record(c) ==
    /\ pc[c] = "captured" /\ ~Stopped(c)
    /\ png' = [png EXCEPT ![at[c]] = "view"]
    /\ records' = records \cup {at[c]}
    /\ tracked' = tracked \cup {at[c]}
    /\ Go(c, "recorded")
    /\ UNCHANGED <<session, server, workers, buffer, user, evidence, content,
                   pending, crop, call, at, context, doomed, known, bounds>>

RecordFails(c) ==
    /\ pc[c] = "captured"
    /\ Fail(c)
    /\ UNCHANGED <<cancelled, swept, server, workers, user, records, evidence,
                   images, crop, doomed, known, bounds>>

(* The final audit: a view whose audit fails is returned with the error. The   *)
(* application keeps what it gets until it releases it.                        *)
ViewReturns(c) ==
    /\ pc[c] = "recorded"
    /\ gate' = Nobody
    /\ \/ /\ c \notin Application
          /\ Go(c, "returned") \/ Go(c, "reject")
          /\ ended' = [ended EXCEPT ![c] = gone[c]]
          /\ UNCHANGED <<call, at, gone, known>>
       \/ /\ c \in Application
          /\ known' = known \cup {at[c]}
          /\ Idle(c)
    /\ UNCHANGED <<cancelled, swept, server, workers, captures, images, crop,
                   doomed, bounds>>

-----------------------------------------------------------------------------
(* The response of a view. Its content is registered before it has any bytes.  *)
(* Fault: ... even when the server has cleared the pending ones.               *)
RegisterAlways(c) ==
    /\ pc[c] = "returned"
    /\ content' = [content EXCEPT ![at[c]] = "open"]
    /\ pending' = pending \cup {at[c]}
    /\ Go(c, "taking")
    /\ UNCHANGED <<session, server, workers, captures, png, tracked, crop, call,
                   at, context, doomed, known, bounds>>

Register(c) ==
    /\ pc[c] = "returned"
    /\ content' = [content EXCEPT ![at[c]] = IF imagesClosed THEN "closed" ELSE "open"]
    /\ pending' = IF imagesClosed THEN pending ELSE pending \cup {at[c]}
    /\ Go(c, "taking")
    /\ UNCHANGED <<session, server, workers, captures, png, tracked, crop, call,
                   at, context, doomed, known, bounds>>

(* clearingImageContent.clear.                                                 *)
Clear(v) ==
    /\ content' = [content EXCEPT ![v] = "closed"]
    /\ png' = [png EXCEPT ![v] = IF @ = "content" THEN "wiped" ELSE @]
    /\ pending' = pending \ {v}

(* The content takes the bytes out of the view, unless a close came first.     *)
Take(c) ==
    /\ pc[c] = "taking"
    /\ \/ /\ content[at[c]] = "open" /\ png[at[c]] = "view"
          /\ png' = [png EXCEPT ![at[c]] = "content"]
          /\ tracked' = tracked \ {at[c]}
          /\ Go(c, "taken")
          /\ UNCHANGED <<content, pending>>
       \/ /\ content[at[c]] # "open" \/ png[at[c]] # "view"
          /\ Clear(at[c])
          /\ Go(c, "reject")
          /\ UNCHANGED tracked
    /\ UNCHANGED <<session, server, workers, captures, crop, call, at, context,
                   doomed, known, bounds>>

Answer(c) ==
    /\ pc[c] = "taken"
    /\ \/ /\ gone[c] /\ Clear(at[c]) /\ Go(c, "untrack")
       \/ /\ ~gone[c] /\ Go(c, "responding")
          /\ UNCHANGED <<content, png, pending>>
    /\ UNCHANGED <<session, server, workers, captures, tracked, crop, call, at,
                   context, doomed, known, bounds>>

(* The SDK serializes the response, which clears the content, or finds that    *)
(* nobody is there to read it, which leaves the content to Server.Close.       *)
Serialize(c) ==
    /\ pc[c] = "responding"
    /\ \/ /\ content[at[c]] = "open"
          /\ content' = [content EXCEPT ![at[c]] = "closed"]
          /\ png' = [png EXCEPT ![at[c]] = "sent"]
          /\ pending' = pending \ {at[c]}
          /\ known' = known \cup {at[c]}
       \/ UNCHANGED <<content, png, pending, known>>
    /\ Idle(c)
    /\ UNCHANGED <<session, server, workers, captures, tracked, crop, doomed,
                   bounds>>

(* finishViewError: the view is closed, which takes it out of the session's    *)
(* books, and its observation released.                                        *)
Reject(c) ==
    /\ pc[c] = "reject"
    /\ png' = [png EXCEPT ![at[c]] = IF @ = "view" THEN "wiped" ELSE @]
    /\ tracked' = tracked \ {at[c]}
    /\ Go(c, "forget")
    /\ UNCHANGED <<session, server, workers, captures, content, pending, crop,
                   call, at, context, doomed, known, bounds>>

-----------------------------------------------------------------------------
(* ReleaseObservation, without the action gate: the view, then the record,     *)
(* then the capture, which waits for whoever reads it.                         *)
Untrack(c) ==
    /\ pc[c] = "untrack"
    /\ Go(c, IF at[c] \in tracked THEN "close view" ELSE "forget")
    /\ tracked' = tracked \ {at[c]}
    /\ UNCHANGED <<session, server, workers, captures, png, content, pending,
                   crop, call, at, context, doomed, known, bounds>>

CloseView(c) ==
    /\ pc[c] = "close view"
    /\ png' = [png EXCEPT ![at[c]] = IF @ = "view" THEN "wiped" ELSE @]
    /\ Go(c, "forget")
    /\ UNCHANGED <<session, server, workers, captures, content, tracked, pending,
                   crop, call, at, context, doomed, known, bounds>>

Forget(c) ==
    /\ pc[c] = "forget"
    /\ \/ /\ at[c] \in records
          /\ records' = records \ {at[c]}
          /\ Go(c, "wipe")
          /\ UNCHANGED <<call, at, context>>
       \/ /\ at[c] \notin records
          /\ Idle(c)
          /\ UNCHANGED records
    /\ UNCHANGED <<session, server, workers, buffer, user, evidence, images,
                   crop, doomed, known, bounds>>

WipeCapture(c) ==
    /\ pc[c] = "wipe" /\ user[at[c]] = Nobody
    /\ buffer' = [buffer EXCEPT ![at[c]] = "wiped"]
    /\ evidence' = [evidence EXCEPT ![at[c]] = {}]
    /\ Idle(c)
    /\ UNCHANGED <<session, server, workers, user, records, images, crop, doomed,
                   known, bounds>>

-----------------------------------------------------------------------------
(* OCR and DetectVisualElements, on a capture that is live.                    *)
BeginAnalysis(c) ==
    /\ pc[c] = "asking" /\ call[c] \in {"ocr", "visual"}
    /\ gate = Nobody /\ ~cancelled
    /\ at[c] \in records /\ buffer[at[c]] = "live"
    /\ analyses < MaxAnalyses /\ analyses' = analyses + 1
    /\ gate' = c
    /\ Go(c, IF call[c] = "ocr" THEN "copy" ELSE "worker")
    /\ UNCHANGED <<cancelled, swept, server, workers, captures, images, crop,
                   call, at, context, doomed, known, taken, releases, closes>>

(* The call ends; what it has copied is wiped, a worker of its own set free.   *)
EndAnalysis(c) ==
    /\ crop' = [crop EXCEPT ![c] = FALSE]
    /\ analyst' = IF analyst.for = c /\ analyst.step = "caller"
                    THEN NoAnalyst ELSE analyst
    /\ gate' = Nobody
    /\ Idle(c)

AnalysisFails(c) ==
    /\ \/ pc[c] \in {"copy", "detecting"}
       \/ pc[c] \in {"worker", "analysing"} /\ Stopped(c)
    /\ EndAnalysis(c)
    /\ UNCHANGED <<cancelled, swept, server, reader, captures, images, doomed,
                   known, bounds>>

(* The region is copied with the capture's lock held. The record that was      *)
(* looked up may be gone from the session by then.                             *)
Acquire(c) ==
    /\ pc[c] = "copy"
    /\ buffer[at[c]] = "live" /\ user[at[c]] = Nobody
    /\ user' = [user EXCEPT ![at[c]] = c]
    /\ Go(c, "copying")
    /\ UNCHANGED <<session, server, workers, buffer, records, evidence, images,
                   crop, call, at, context, doomed, known, bounds>>

Copied(c) ==
    /\ pc[c] = "copying"
    /\ user' = [user EXCEPT ![at[c]] = Nobody]
    /\ \/ Stopped(c) /\ EndAnalysis(c)
       \/ /\ ~Stopped(c)
          /\ crop' = [crop EXCEPT ![c] = TRUE]
          /\ Go(c, IF call[c] = "ocr" THEN "worker" ELSE "detecting")
          /\ UNCHANGED <<gate, analyst, call, at, context>>
    /\ UNCHANGED <<cancelled, swept, server, reader, buffer, records, evidence,
                   images, doomed, known, bounds>>

(* OCR hands its copy to a worker, which wipes it whatever becomes of the      *)
(* call. Visual detection has the worker's token while it copies and works.    *)
TakeWorker(c) ==
    /\ pc[c] = "worker" /\ analyst.step = "idle"
    /\ IF call[c] = "ocr"
         THEN /\ analyst' = [for |-> c, step |-> "native"]
              /\ crop' = [crop EXCEPT ![c] = FALSE]
              /\ Go(c, "analysing")
         ELSE /\ analyst' = [for |-> c, step |-> "caller"]
              /\ Go(c, "copy")
              /\ UNCHANGED crop
    /\ UNCHANGED <<session, server, reader, captures, images, call, at, context,
                   doomed, known, bounds>>

AnalysisReturns ==
    /\ analyst.step = "native"
    /\ analyst' = [analyst EXCEPT !.step = "offering"]
    /\ UNCHANGED <<session, server, reader, captures, images, crop, control,
                   context, doomed, known, bounds>>

DropBoxes ==
    /\ analyst.step = "offering" /\ Late(analyst, "analysing")
    /\ analyst' = NoAnalyst
    /\ UNCHANGED <<session, server, reader, captures, images, crop, control,
                   context, doomed, known, bounds>>

(* The end of an analysis that has found something, or has failed.             *)
Results(c) ==
    \/ /\ pc[c] = "analysing" /\ analyst.for = c /\ analyst.step = "offering"
       /\ analyst' = NoAnalyst
    \/ /\ pc[c] = "detecting"
       /\ UNCHANGED analyst

(* The result is kept as evidence if the observation is still there.           *)
Publish(c) ==
    /\ Results(c)
    /\ at[c] \in records
    /\ evidence' = [evidence EXCEPT ![at[c]] = @ \cup {c}]
    /\ Go(c, "published")
    /\ UNCHANGED <<session, server, reader, buffer, user, records, images, crop,
                   call, at, context, doomed, known, bounds>>

(* It is not: the boxes that the worker has handed over are cleared.           *)
Unpublished(c) ==
    /\ pc[c] = "analysing" /\ analyst.for = c /\ analyst.step = "offering"
    /\ analyst' = NoAnalyst
    /\ gate' = Nobody
    /\ Idle(c)
    /\ UNCHANGED <<cancelled, swept, server, reader, captures, images, crop,
                   doomed, known, bounds>>

(* An audit that fails takes the evidence back.                                *)
AnalysisAnswers(c) ==
    /\ pc[c] = "published"
    /\ \/ UNCHANGED evidence
       \/ evidence' = [evidence EXCEPT ![at[c]] = @ \ {c}]
    /\ EndAnalysis(c)
    /\ UNCHANGED <<cancelled, swept, server, reader, buffer, user, records,
                   images, doomed, known, bounds>>

-----------------------------------------------------------------------------
(* Server.Close: the contents that wait for the SDK are cleared, then the      *)
(* adapter closes the session.                                                 *)
Close(k) ==
    /\ pc[k] = "idle"
    /\ closes < MaxCloses /\ closes' = closes + 1
    /\ imagesClosed' = TRUE
    /\ doomed' = [doomed EXCEPT ![k] = pending]
    /\ pending' = {}
    /\ Go(k, "contents")
    /\ UNCHANGED <<session, adapterClosed, closeMu, closeDone, workers, captures,
                   png, content, tracked, crop, call, at, context, known, taken,
                   analyses, releases>>

(* Fault: the bytes are cleared, but the content may be filled again.          *)
ClearContentOpen(k) ==
    \E v \in doomed[k] :
        /\ pc[k] = "contents"
        /\ png' = [png EXCEPT ![v] = IF @ = "content" THEN "wiped" ELSE @]
        /\ doomed' = [doomed EXCEPT ![k] = @ \ {v}]
        /\ UNCHANGED <<session, server, workers, captures, content, tracked,
                       pending, crop, control, context, known, bounds>>

ClearContent(k) ==
    \E v \in doomed[k] :
        /\ pc[k] = "contents"
        /\ Clear(v)
        /\ doomed' = [doomed EXCEPT ![k] = @ \ {v}]
        /\ UNCHANGED <<session, server, workers, captures, tracked, crop,
                       control, context, known, bounds>>

CloseAdapter(k) ==
    /\ pc[k] = "contents" /\ doomed[k] = {}
    /\ adapterClosed' = TRUE
    /\ Go(k, "lock")
    /\ UNCHANGED <<session, imagesClosed, closeMu, closeDone, workers, captures,
                   images, crop, call, at, context, doomed, known, bounds>>

(* A Close that has succeeded is not repeated, nor is the sweep of a session   *)
(* whose inputs could not be released.                                         *)
CloseSession(k) ==
    /\ pc[k] = "lock" /\ closeMu = Nobody
    /\ \/ /\ closeDone
          /\ Go(k, "idle")
          /\ UNCHANGED <<closeMu, cancelled>>
       \/ /\ ~closeDone
          /\ closeMu' = k
          /\ cancelled' = TRUE
          /\ Go(k, IF swept THEN "inputs" ELSE "gate")
    /\ UNCHANGED <<gate, swept, adapterClosed, imagesClosed, closeDone, workers,
                   captures, images, crop, call, at, context, doomed, known,
                   bounds>>

CloseEnters(k) ==
    /\ pc[k] = "gate" /\ gate = Nobody
    /\ gate' = k
    /\ doomed' = [doomed EXCEPT ![k] = tracked]
    /\ tracked' = {}
    /\ Go(k, "views")
    /\ UNCHANGED <<cancelled, swept, server, workers, captures, png, content,
                   pending, crop, call, at, context, known, bounds>>

CloseViews(k) ==
    \E v \in doomed[k] :
        /\ pc[k] = "views"
        /\ png' = [png EXCEPT ![v] = IF @ = "view" THEN "wiped" ELSE @]
        /\ doomed' = [doomed EXCEPT ![k] = @ \ {v}]
        /\ UNCHANGED <<session, server, workers, captures, content, tracked,
                       pending, crop, control, context, known, bounds>>

(* closeObservations wipes every capture; who reads one has the gate.          *)
CloseObservations(k) ==
    /\ pc[k] = "views" /\ doomed[k] = {}
    /\ buffer' = [v \in Views |-> IF v \in records THEN "wiped" ELSE buffer[v]]
    /\ evidence' = [v \in Views |-> IF v \in records THEN {} ELSE evidence[v]]
    /\ records' = {}
    /\ gate' = Nobody /\ swept' = TRUE
    /\ Go(k, "inputs")
    /\ UNCHANGED <<cancelled, server, workers, user, images, crop, call, at,
                   context, doomed, known, bounds>>

(* The release of the session's inputs, which is AgentSession's, may fail.     *)
CloseEnds(k) ==
    /\ pc[k] = "inputs"
    /\ closeDone' \in BOOLEAN
    /\ closeMu' = Nobody
    /\ Go(k, "idle")
    /\ UNCHANGED <<session, adapterClosed, imagesClosed, workers, captures,
                   images, crop, call, at, context, doomed, known, bounds>>

-----------------------------------------------------------------------------
CallStep(c) ==
    \/ Refuse(c) \/ BeginView(c) \/ TakeSlot(c)
    \/ Abandon(c) \/ Receive(c) \/ Record(c) \/ RecordFails(c) \/ ViewReturns(c)
    \/ Register(c) \/ Take(c) \/ Answer(c) \/ Serialize(c) \/ Reject(c)
    \/ Untrack(c) \/ CloseView(c) \/ Forget(c) \/ WipeCapture(c)
    \/ BeginAnalysis(c) \/ AnalysisFails(c) \/ Acquire(c) \/ Copied(c)
    \/ TakeWorker(c) \/ Publish(c) \/ Unpublished(c) \/ AnalysisAnswers(c)

CloseStep(k) ==
    \/ ClearContent(k) \/ CloseAdapter(k) \/ CloseSession(k) \/ CloseEnters(k)
    \/ CloseViews(k) \/ CloseObservations(k) \/ CloseEnds(k)

Native == ReadReturns \/ AnalysisReturns

Next ==
    \/ \E c \in Callers :
         \/ \E kind \in {"view", "ocr", "visual"}, v \in {0} \cup known : Ask(c, kind, v)
         \/ \E v \in known : AskRelease(c, v)
         \/ Cancel(c) \/ TimeOut(c) \/ CallStep(c)
    \/ \E k \in Closers : Close(k) \/ CloseStep(k)
    \/ ReadBegins \/ DropLate \/ DropBoxes \/ Native

Spec == Init /\ [][Next]_vars

(* The scheduler runs everyone, nobody waits for ever for a lock or a channel  *)
(* that others take and give back, and an operation's time-out expires. No     *)
(* native read need ever return.                                               *)
Fairness ==
    /\ \A c \in Callers : SF_vars(CallStep(c) \/ TimeOut(c))
    /\ \A k \in Closers : SF_vars(CloseStep(k))

LiveSpec == Spec /\ Fairness

-----------------------------------------------------------------------------
(* Where a call is between BeginView or BeginAnalysis and the end of its turn. *)
Working == {"bounds", "image", "reading", "captured", "recorded", "copy",
            "copying", "worker", "analysing", "detecting", "published"}

TypeControl ==
    /\ pc \in [Procs -> Working \cup
                  {"idle", "asking", "returned", "taking", "taken", "responding",
                   "reject", "untrack", "close view", "forget", "wipe",
                   "contents", "lock", "gate", "views", "inputs"}]
    /\ call \in [Callers -> {"none", "view", "ocr", "visual", "release"}]
    /\ at \in [Callers -> Views \cup {0}]
    /\ gate \in Procs \cup {Nobody} /\ closeMu \in Closers \cup {Nobody}

TypeFlags ==
    /\ cancelled \in BOOLEAN /\ swept \in BOOLEAN
    /\ adapterClosed \in BOOLEAN /\ imagesClosed \in BOOLEAN
    /\ closeDone \in BOOLEAN
    /\ crop \in [Callers -> BOOLEAN]
    /\ ended \in [Callers -> BOOLEAN] /\ gone \in [Callers -> BOOLEAN]

TypeWorkers ==
    /\ reader \in [for : Callers \cup {Nobody}, kind : {"none", "bounds", "image"},
                   step : {"idle", "starting", "native", "offering"}]
    /\ analyst \in [for : Callers \cup {Nobody},
                    step : {"idle", "native", "offering", "caller"}]

TypePixels ==
    /\ buffer \in [Views -> {"none", "live", "wiped"}]
    /\ user \in [Views -> Callers \cup {Nobody}]
    /\ png \in [Views -> {"none", "view", "content", "sent", "wiped"}]
    /\ content \in [Views -> {"none", "open", "closed"}]

TypeBooks ==
    /\ tracked \subseteq Views /\ records \subseteq Views
    /\ pending \subseteq Views /\ known \subseteq Views
    /\ evidence \in [Views -> SUBSET Callers]
    /\ doomed \in [Closers -> SUBSET Views]
    /\ taken \in 0..MaxViews /\ analyses \in 0..MaxAnalyses
    /\ releases \in 0..MaxReleases /\ closes \in 0..MaxCloses

TypeOK == TypeControl /\ TypeFlags /\ TypeWorkers /\ TypePixels /\ TypeBooks

(* Who deals with view v at one of the given points.                           *)
With(v, points) == \E c \in Callers : at[c] = v /\ pc[c] \in points

Doomed(v, points) == \E k \in Closers : v \in doomed[k] /\ pc[k] \in points

(* The bytes of a view are the session's, or a release's or a close's that has *)
(* taken the view out of its books.                                            *)
ViewsOwned ==
    \A v \in Views : png[v] = "view" =>
        v \in tracked \/ With(v, {"close view"}) \/ Doomed(v, {"views"})

(* Those of a response are the server's, or the close's that clears it.        *)
ResponsesOwned ==
    \A v \in Views : png[v] = "content" => v \in pending \/ Doomed(v, {"contents"})

(* A capture is its observation's, or the call's that has not recorded it yet  *)
(* or has just forgotten it.                                                   *)
CapturesOwned ==
    \A v \in Views : buffer[v] = "live" => v \in records \/ With(v, {"captured", "wipe"})

(* Nobody copies out of a capture that is wiped.                               *)
ReadersOwned == \A v \in Views : user[v] # Nobody => buffer[v] = "live"

(* Whatever is live has somebody who will wipe it, at every moment.            *)
Owned == ViewsOwned /\ ResponsesOwned /\ CapturesOwned /\ ReadersOwned

(* At least one Close has returned and none is under way.                      *)
Closed == closes > 0 /\ \A k \in Closers : pc[k] = "idle"

(* After Server.Close, even one that reports a failure, no pixels are left in  *)
(* the session or in a response, whatever calls were under way or still are;   *)
(* only a native read and a release may have some yet to wipe.                 *)
NothingLeft ==
    Closed =>
        /\ \A v \in Views :
             /\ png[v] \in {"view", "content"} => With(v, {"close view"})
             /\ buffer[v] = "live" \/ evidence[v] # {} => With(v, {"wipe"})
        /\ \A c \in Callers : ~crop[c]

(* An image leaves through one response, its client's, and none leaves after   *)
(* Server.Close.                                                               *)
SentInTime ==
    [][\A v \in Views :
         png'[v] = "sent" /\ png[v] # "sent" => png[v] = "content" /\ ~Closed]_vars

(* Every call and every Close returns although a native read never does and    *)
(* keeps its slot.                                                             *)
CallsReturn == \A p \in Procs : []<>(pc[p] = "idle")
=============================================================================
