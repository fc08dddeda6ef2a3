---------------------------- MODULE AgentViewsProofs ----------------------------
(* Theorems about AgentViews, for any callers, closers, quotas and bounds.      *)
EXTENDS AgentViews, TLAPS

(* Every function keeps its domain, and views are numbered.                    *)
ControlShape ==
    /\ DOMAIN pc = Procs /\ at \in [Callers -> Nat] /\ taken \in 0..MaxViews
    /\ closes \in Nat /\ known \subseteq Nat

PixelShape ==
    /\ DOMAIN png = Views /\ DOMAIN content = Views /\ DOMAIN buffer = Views
    /\ DOMAIN user = Views /\ DOMAIN evidence = Views
    /\ DOMAIN call = Callers /\ DOMAIN crop = Callers /\ DOMAIN doomed = Closers

Shape == ControlShape /\ PixelShape

(* The action gate is held by whoever works on a view or an analysis, and by a *)
(* close that clears the books.                                                *)
Gated ==
    /\ \A c \in Callers : pc[c] \in Working => gate = c
    /\ \A k \in Closers : pc[k] = "views" => gate = k

(* Who has a capture's lock copies out of that capture, with the gate.         *)
Reading ==
    \A v \in Views : user[v] # Nobody =>
        user[v] \in Callers /\ pc[user[v]] = "copying" /\ at[user[v]] = v

(* Where a view is still in the hands of the call that takes it.               *)
Taking == {"bounds", "image", "reading", "captured", "recorded", "returned",
           "taking", "taken", "responding"}

(* Views are numbered as they are begun, and each is in the hands of one call. *)
Numbered ==
    /\ known \subseteq 1..taken
    /\ \A c \in Callers : at[c] <= taken /\ (pc[c] \in Taking => at[c] > 0)
    /\ \A c, d \in Callers :
         pc[c] \in Taking /\ pc[d] \in Taking /\ at[c] = at[d] => c = d

(* What is pending is the server's until its first Close.                      *)
Flags ==
    /\ imagesClosed => pending = {}
    /\ closes > 0 => imagesClosed

(* A content that is open is the server's, or the close's that will clear it.  *)
Opened ==
    \A v \in Views : content[v] = "open" => v \in pending \/ Doomed(v, {"contents"})

(* The content of a response on its way has the bytes for as long as it is open. *)
Filled ==
    \A c \in Callers :
         pc[c] \in {"taken", "responding"} /\ content[at[c]] = "open"
            => png[at[c]] = "content"

Responses == Flags /\ Opened /\ Filled

(* Evidence belongs to a record, or to the release that has taken it away.     *)
Extracts ==
    \A v \in Views : evidence[v] # {} => v \in records \/ With(v, {"wipe"})

(* Copied pixels belong to a call that works.                                  *)
Cropped ==
    \A c \in Callers : crop[c] =>
        pc[c] \in {"detecting", "published"} \/ (pc[c] = "worker" /\ call[c] = "ocr")

(* Once the sweep has ended nobody works and the session's books stay empty.   *)
Sweeping ==
    /\ swept => /\ cancelled /\ records = {} /\ tracked = {}
                /\ \A c \in Callers : pc[c] \notin Working
    /\ \A k \in Closers : pc[k] \in {"gate", "views"} => cancelled
    /\ \A k \in Closers : pc[k] = "views" => tracked = {}
    /\ closeDone => swept
    /\ \A k \in Closers : pc[k] = "inputs" => swept
    /\ closes > 0 => swept \/ \E k \in Closers : pc[k] # "idle"

Inv == /\ Shape /\ Gated /\ Reading /\ Owned /\ Numbered /\ Responses
       /\ Extracts /\ Cropped /\ Sweeping

(* What is not a step of a call or of Server.Close.                            *)
Requests(c) ==
    \/ \E kind \in {"view", "ocr", "visual"}, v \in {0} \cup known : Ask(c, kind, v)
    \/ \E v \in known : AskRelease(c, v)
    \/ Cancel(c) \/ TimeOut(c)

Background == ReadBegins \/ DropLate \/ DropBoxes \/ Native

Others == Background \/ \E c \in Callers : Requests(c)

(* The points of the calls keep their shape after a step of a call.            *)
LEMMA ControlShapeByCall ==
  ASSUME Shape, NEW c \in Callers, CallStep(c)
  PROVE  ControlShape'
<1> USE AgentViewsAssumption DEF Shape, ControlShape, PixelShape, Procs, Views
<1>1. CASE Refuse(c)
  BY <1>1 DEF Refuse, Idle, Stopped, bounds
<1>2. CASE BeginView(c)
  BY <1>2 DEF BeginView, Go, bounds
<1>3. CASE TakeSlot(c)
  BY <1>3 DEF TakeSlot, Go, bounds
<1>4. CASE Abandon(c)
  BY <1>4 DEF Abandon, Fail, Idle, Stopped, bounds
<1>5. CASE Receive(c)
  <2>1. CASE Fail(c)
    BY <1>5, <2>1 DEF Receive, Fail, Idle, bounds
  <2>2. CASE Go(c, "image") /\ UNCHANGED <<gate, buffer, at>>
    BY <1>5, <2>2 DEF Receive, Go, bounds
  <2>3. CASE /\ buffer' = [buffer EXCEPT ![at[c]] = "live"]
             /\ Go(c, "captured") /\ UNCHANGED <<gate, at>>
    BY <1>5, <2>3 DEF Receive, Go, bounds
  <2> QED BY <1>5, <2>1, <2>2, <2>3 DEF Receive
<1>6. CASE Record(c)
  BY <1>6 DEF Record, Go, Stopped, bounds
<1>7. CASE RecordFails(c)
  BY <1>7 DEF RecordFails, Fail, Idle, bounds
<1>8. CASE ViewReturns(c)
  <2>1. pc[c] = "recorded" /\ UNCHANGED <<taken, closes>>
    BY <1>8 DEF ViewReturns, bounds
  <2>2. CASE UNCHANGED <<at, known>> /\ \E w \in {"returned", "reject"} : Go(c, w)
    BY <2>1, <2>2 DEF Go
  <2>3. CASE known' = known \cup {at[c]} /\ Idle(c)
    BY <2>1, <2>3 DEF Idle
  <2> QED BY <1>8, <2>2, <2>3 DEF ViewReturns
<1>9. CASE Register(c)
  BY <1>9 DEF Register, Go, bounds
<1>10. CASE Take(c)
  BY <1>10 DEF Take, Clear, Go, bounds
<1>11. CASE Answer(c)
  BY <1>11 DEF Answer, Clear, Go, bounds
<1>12. CASE Serialize(c)
  <2>1. known' \in {known, known \cup {at[c]}}
    BY <1>12 DEF Serialize
  <2>2. UNCHANGED <<taken, closes>> /\ Idle(c)
    BY <1>12 DEF Serialize, bounds
  <2> QED BY <2>1, <2>2 DEF Idle
<1>13. CASE Reject(c)
  BY <1>13 DEF Reject, Go, bounds
<1>14. CASE Untrack(c)
  BY <1>14 DEF Untrack, Go, bounds
<1>15. CASE CloseView(c)
  BY <1>15 DEF CloseView, Go, bounds
<1>16. CASE Forget(c)
  <2>1. UNCHANGED <<taken, closes, known>>
    BY <1>16 DEF Forget, bounds
  <2>2. CASE Idle(c)
    BY <2>1, <2>2 DEF Idle
  <2>3. CASE ~Idle(c)
    BY <1>16, <2>1, <2>3 DEF Forget, Go
  <2> QED BY <2>2, <2>3
<1>17. CASE WipeCapture(c)
  BY <1>17 DEF WipeCapture, Idle, bounds
<1>18. CASE BeginAnalysis(c)
  BY <1>18 DEF BeginAnalysis, Go
<1>19. CASE AnalysisFails(c)
  BY <1>19 DEF AnalysisFails, EndAnalysis, Idle, Stopped, bounds
<1>20. CASE Acquire(c)
  BY <1>20 DEF Acquire, Go, bounds
<1>21. CASE Copied(c)
  <2>1. UNCHANGED <<known, taken, closes>>
    BY <1>21 DEF Copied, bounds
  <2>2. CASE Idle(c)
    BY <2>1, <2>2 DEF Idle
  <2>3. CASE UNCHANGED at /\ \E w : Go(c, w)
    BY <2>1, <2>3 DEF Go
  <2> QED BY <1>21, <2>2, <2>3 DEF Copied, EndAnalysis
<1>22. CASE TakeWorker(c)
  BY <1>22 DEF TakeWorker, Go, bounds
<1>23. CASE Publish(c)
  BY <1>23 DEF Publish, Go, Results, bounds
<1>24. CASE Unpublished(c)
  BY <1>24 DEF Unpublished, Idle, bounds
<1>25. CASE AnalysisAnswers(c)
  BY <1>25 DEF AnalysisAnswers, EndAnalysis, Idle, bounds
<1> QED BY <1>1, <1>2, <1>3, <1>4, <1>5, <1>6, <1>7, <1>8, <1>9, <1>10, <1>11,
    <1>12, <1>13, <1>14, <1>15, <1>16, <1>17, <1>18, <1>19, <1>20, <1>21,
    <1>22, <1>23, <1>24, <1>25 DEF CallStep

(* The points of the calls keep their shape after a step of Server.Close.      *)
LEMMA ControlShapeByClose ==
  ASSUME Shape, NEW k \in Closers, Close(k) \/ CloseStep(k)
  PROVE  ControlShape'
<1> USE AgentViewsAssumption DEF Shape, ControlShape, PixelShape, Procs, Views
<1>1. CASE Close(k)
  BY <1>1 DEF Close, Go
<1>2. CASE CloseAdapter(k)
  BY <1>2 DEF CloseAdapter, Go, bounds
<1>3. CASE CloseSession(k)
  BY <1>3 DEF CloseSession, Go, bounds
<1>4. CASE CloseEnters(k)
  BY <1>4 DEF CloseEnters, Go, bounds
<1>5. CASE CloseObservations(k)
  BY <1>5 DEF CloseObservations, Go, bounds
<1>6. CASE CloseEnds(k)
  BY <1>6 DEF CloseEnds, Go, bounds
<1>7. CASE ClearContent(k) \/ CloseViews(k)
  <2>1. UNCHANGED <<pc, at, taken, closes, known>>
    BY <1>7 DEF ClearContent, Clear, control, bounds, CloseViews
  <2> QED BY <2>1
<1> QED BY <1>1, <1>2, <1>3, <1>4, <1>5, <1>6, <1>7 DEF CloseStep

(* The points of the calls keep their shape after a request, the end of a      *)
(* context, or a native worker.                                                *)
LEMMA ControlShapeByOther ==
  ASSUME Shape, Others
  PROVE  ControlShape'
<1> USE AgentViewsAssumption DEF Shape, ControlShape, PixelShape, Procs, Views
<1>1. ASSUME NEW c \in Callers, Requests(c)
      PROVE  ControlShape'
  <2>1. UNCHANGED <<taken, closes, known>>
    BY <1>1 DEF Requests, Ask, AskRelease, Cancel, TimeOut, bounds
  <2>2. CASE \E v \in {0} \cup known, w \in {"asking", "untrack"} :
               (pc' = [pc EXCEPT ![c] = w] /\ at' = [at EXCEPT ![c] = v])
    BY <2>1, <2>2
  <2>3. CASE UNCHANGED <<pc, at>>
    BY <2>1, <2>3
  <2> QED
    BY <1>1, <2>2, <2>3 DEF Requests, Ask, AskRelease, Cancel, TimeOut, Go, control
<1>2. CASE Background
  <2>1. UNCHANGED <<pc, at, taken, closes, known>>
    BY <1>2 DEF Background, Native, ReadBegins, Late, Stopped, control, bounds,
        DropLate, DropBoxes, ReadReturns, AnalysisReturns
  <2> QED BY <2>1
<1> QED BY <1>1, <1>2 DEF Others

(* The pixels' books keep their shape after a step of a call.                  *)
LEMMA PixelShapeByCall ==
  ASSUME Shape, NEW c \in Callers, CallStep(c)
  PROVE  PixelShape'
<1> USE AgentViewsAssumption DEF Shape, ControlShape, PixelShape, Procs, Views
<1>1. CASE Refuse(c)
  BY <1>1 DEF Refuse, Idle, Stopped, captures, images
<1>2. CASE Abandon(c)
  BY <1>2 DEF Abandon, Fail, Idle, Stopped, images
<1>3. CASE Receive(c)
  BY <1>3 DEF Receive, Fail, Go, Idle, Stopped, images
<1>4. CASE Record(c)
  BY <1>4 DEF Record, Go, Stopped
<1>5. CASE RecordFails(c)
  BY <1>5 DEF RecordFails, Fail, Idle, images
<1>6. CASE ViewReturns(c)
  BY <1>6 DEF ViewReturns, Go, Idle, captures, images
<1>7. CASE Register(c)
  BY <1>7 DEF Register, Go, captures
<1>8. CASE Take(c)
  BY <1>8 DEF Take, Clear, Go, captures
<1>9. CASE Answer(c)
  BY <1>9 DEF Answer, Clear, Go, captures
<1>10. CASE Serialize(c)
  BY <1>10 DEF Serialize, Idle, captures
<1>11. CASE Reject(c)
  BY <1>11 DEF Reject, Go, captures
<1>12. CASE CloseView(c)
  BY <1>12 DEF CloseView, Go, captures
<1>13. CASE Forget(c)
  BY <1>13 DEF Forget, Go, Idle, images
<1>14. CASE WipeCapture(c)
  BY <1>14 DEF WipeCapture, Idle, images
<1>15. CASE AnalysisFails(c)
  BY <1>15 DEF AnalysisFails, EndAnalysis, Idle, Stopped, captures, images
<1>16. CASE Acquire(c)
  BY <1>16 DEF Acquire, Go, images
<1>17. CASE Copied(c)
  BY <1>17 DEF Copied, EndAnalysis, Go, Idle, Stopped, images
<1>18. CASE TakeWorker(c)
  BY <1>18 DEF TakeWorker, Go, captures, images
<1>19. CASE Publish(c)
  BY <1>19 DEF Publish, Go, Results, images
<1>20. CASE Unpublished(c)
  BY <1>20 DEF Unpublished, Idle, captures, images
<1>21. CASE AnalysisAnswers(c)
  BY <1>21 DEF AnalysisAnswers, EndAnalysis, Idle, images
<1>22. CASE BeginView(c) \/ TakeSlot(c) \/ Untrack(c) \/ BeginAnalysis(c)
  <2>1. UNCHANGED <<buffer, user, evidence, png, content, call, crop, doomed>>
    BY <1>22 DEF BeginView, Go, captures, images, TakeSlot, Untrack,
        BeginAnalysis
  <2> QED BY <2>1
<1> QED BY <1>1, <1>2, <1>3, <1>4, <1>5, <1>6, <1>7, <1>8, <1>9, <1>10, <1>11,
    <1>12, <1>13, <1>14, <1>15, <1>16, <1>17, <1>18, <1>19, <1>20, <1>21, <1>22
    DEF CallStep

(* The pixels' books keep their shape after a step of Server.Close.            *)
LEMMA PixelShapeByClose ==
  ASSUME Shape, NEW k \in Closers, Close(k) \/ CloseStep(k)
  PROVE  PixelShape'
<1> USE AgentViewsAssumption DEF Shape, ControlShape, PixelShape, Procs, Views
<1>1. CASE Close(k)
  BY <1>1 DEF Close, Go, captures
<1>2. CASE ClearContent(k)
  BY <1>2 DEF ClearContent, Clear, captures, control
<1>3. CASE CloseEnters(k)
  BY <1>3 DEF CloseEnters, Go, captures
<1>4. CASE CloseViews(k)
  BY <1>4 DEF CloseViews, captures, control
<1>5. CASE CloseObservations(k)
  BY <1>5 DEF CloseObservations, Go, images
<1>6. CASE CloseAdapter(k) \/ CloseSession(k) \/ CloseEnds(k)
  <2>1. UNCHANGED <<buffer, user, evidence, png, content, call, crop, doomed>>
    BY <1>6 DEF CloseAdapter, Go, captures, images, CloseSession, CloseEnds
  <2> QED BY <2>1
<1> QED BY <1>1, <1>2, <1>3, <1>4, <1>5, <1>6 DEF CloseStep

(* The pixels' books keep their shape after a request, the end of a            *)
(* context, or a native worker.                                                *)
LEMMA PixelShapeByOther ==
  ASSUME Shape, Others
  PROVE  PixelShape'
<1> USE AgentViewsAssumption DEF Shape, ControlShape, PixelShape, Procs, Views
<1>1. ASSUME NEW c \in Callers, Requests(c)
      PROVE  PixelShape'
  BY <1>1 DEF Requests, Ask, Go, captures, images, AskRelease, Cancel, control,
      TimeOut
<1>2. CASE Background
  <2>1. UNCHANGED <<buffer, user, evidence, png, content, call, crop, doomed>>
    BY <1>2 DEF Background, Native, ReadBegins, Late, Stopped, captures,
        images, control, DropLate, DropBoxes, ReadReturns, AnalysisReturns
  <2> QED BY <2>1
<1> QED BY <1>1, <1>2 DEF Others

(* Who works has the gate, after a step of a call.                             *)
LEMMA GatedByCall ==
  ASSUME Shape, Gated, NEW c \in Callers, CallStep(c)
  PROVE  Gated'
<1> USE AgentViewsAssumption DEF Shape, ControlShape, PixelShape, Gated,
    Working, Procs
<1>1. CASE Refuse(c)
  BY <1>1 DEF Refuse, Idle, Stopped, session
<1>2. CASE BeginView(c)
  BY <1>2 DEF BeginView, Go
<1>3. CASE TakeSlot(c)
  BY <1>3 DEF TakeSlot, Go, session
<1>4. CASE Abandon(c)
  BY <1>4 DEF Abandon, Fail, Idle, Stopped
<1>5. CASE Receive(c)
  BY <1>5 DEF Receive, Fail, Go, Idle, Stopped
<1>6. CASE Record(c)
  BY <1>6 DEF Record, Go, Stopped, session
<1>7. CASE RecordFails(c)
  BY <1>7 DEF RecordFails, Fail, Idle
<1>8. CASE ViewReturns(c)
  BY <1>8 DEF ViewReturns, Go, Idle
<1>9. CASE Register(c)
  BY <1>9 DEF Register, Go, session
<1>10. CASE Take(c)
  BY <1>10 DEF Take, Clear, Go, session
<1>11. CASE Answer(c)
  BY <1>11 DEF Answer, Clear, Go, session
<1>12. CASE Serialize(c)
  BY <1>12 DEF Serialize, Idle, session
<1>13. CASE Reject(c)
  BY <1>13 DEF Reject, Go, session
<1>14. CASE Untrack(c)
  BY <1>14 DEF Untrack, Go, session
<1>15. CASE CloseView(c)
  BY <1>15 DEF CloseView, Go, session
<1>16. CASE Forget(c)
  BY <1>16 DEF Forget, Go, Idle, session
<1>17. CASE WipeCapture(c)
  BY <1>17 DEF WipeCapture, Idle, session
<1>18. CASE BeginAnalysis(c)
  BY <1>18 DEF BeginAnalysis, Go
<1>19. CASE AnalysisFails(c)
  BY <1>19 DEF AnalysisFails, EndAnalysis, Idle, Stopped
<1>20. CASE Acquire(c)
  BY <1>20 DEF Acquire, Go, session
<1>21. CASE Copied(c)
  BY <1>21 DEF Copied, EndAnalysis, Go, Idle, Stopped
<1>22. CASE TakeWorker(c)
  BY <1>22 DEF TakeWorker, Go, session
<1>23. CASE Publish(c)
  BY <1>23 DEF Publish, Go, Results, session
<1>24. CASE Unpublished(c)
  BY <1>24 DEF Unpublished, Idle
<1>25. CASE AnalysisAnswers(c)
  BY <1>25 DEF AnalysisAnswers, EndAnalysis, Idle
<1> QED BY <1>1, <1>2, <1>3, <1>4, <1>5, <1>6, <1>7, <1>8, <1>9, <1>10, <1>11,
    <1>12, <1>13, <1>14, <1>15, <1>16, <1>17, <1>18, <1>19, <1>20, <1>21,
    <1>22, <1>23, <1>24, <1>25 DEF CallStep

(* Who works has the gate, after a step of Server.Close.                       *)
LEMMA GatedByClose ==
  ASSUME Shape, Gated, NEW k \in Closers, Close(k) \/ CloseStep(k)
  PROVE  Gated'
<1> USE AgentViewsAssumption DEF Shape, ControlShape, PixelShape, Gated,
    Working, Procs
<1>1. CASE Close(k)
  BY <1>1 DEF Close, Go, session
<1>2. CASE CloseAdapter(k)
  BY <1>2 DEF CloseAdapter, Go, session
<1>3. CASE CloseSession(k)
  BY <1>3 DEF CloseSession, Go
<1>4. CASE CloseEnters(k)
  BY <1>4 DEF CloseEnters, Go
<1>5. CASE CloseObservations(k)
  BY <1>5 DEF CloseObservations, Go
<1>6. CASE CloseEnds(k)
  BY <1>6 DEF CloseEnds, Go, session
<1>7. CASE ClearContent(k) \/ CloseViews(k)
  <2>1. UNCHANGED <<gate, pc>>
    BY <1>7 DEF ClearContent, Clear, session, control, CloseViews
  <2> QED BY <2>1
<1> QED BY <1>1, <1>2, <1>3, <1>4, <1>5, <1>6, <1>7 DEF CloseStep

(* Who works has the gate, after a request, the end of a context, or a         *)
(* native worker.                                                              *)
LEMMA GatedByOther ==
  ASSUME Shape, Gated, Others
  PROVE  Gated'
<1> USE AgentViewsAssumption DEF Shape, ControlShape, PixelShape, Gated,
    Working, Procs
<1>1. ASSUME NEW c \in Callers, Requests(c)
      PROVE  Gated'
  BY <1>1 DEF Requests, Ask, Go, session, AskRelease, Cancel, control, TimeOut
<1>2. CASE Background
  <2>1. UNCHANGED <<gate, pc>>
    BY <1>2 DEF Background, Native, ReadBegins, Late, Stopped, session,
        control, DropLate, DropBoxes, ReadReturns, AnalysisReturns
  <2> QED BY <2>1
<1> QED BY <1>1, <1>2 DEF Others

(* Who has a capture's lock copies out of it, after a step of a call.          *)
LEMMA ReadingByCall ==
  ASSUME Shape, Reading, NEW c \in Callers, CallStep(c)
  PROVE  Reading'
<1> USE AgentViewsAssumption DEF Shape, ControlShape, PixelShape, Reading,
    Procs, Views
<1>1. CASE Refuse(c)
  BY <1>1 DEF Refuse, Idle, Stopped, captures
<1>2. CASE BeginView(c)
  BY <1>2 DEF BeginView, Go, captures
<1>3. CASE TakeSlot(c)
  BY <1>3 DEF TakeSlot, Go, captures
<1>4. CASE Abandon(c)
  BY <1>4 DEF Abandon, Fail, Idle, Stopped
<1>5. CASE Receive(c)
  BY <1>5 DEF Receive, Fail, Go, Idle, Stopped
<1>6. CASE Record(c)
  BY <1>6 DEF Record, Go, Stopped
<1>7. CASE RecordFails(c)
  BY <1>7 DEF RecordFails, Fail, Idle
<1>8. CASE ViewReturns(c)
  BY <1>8 DEF ViewReturns, Go, Idle, captures
<1>9. CASE Register(c)
  BY <1>9 DEF Register, Go, captures
<1>10. CASE Take(c)
  BY <1>10 DEF Take, Clear, Go, captures
<1>11. CASE Answer(c)
  BY <1>11 DEF Answer, Clear, Go, captures
<1>12. CASE Serialize(c)
  BY <1>12 DEF Serialize, Idle, captures
<1>13. CASE Reject(c)
  BY <1>13 DEF Reject, Go, captures
<1>14. CASE Untrack(c)
  BY <1>14 DEF Untrack, Go, captures
<1>15. CASE CloseView(c)
  BY <1>15 DEF CloseView, Go, captures
<1>16. CASE Forget(c)
  BY <1>16 DEF Forget, Go, Idle
<1>17. CASE WipeCapture(c)
  BY <1>17 DEF WipeCapture, Idle
<1>18. CASE BeginAnalysis(c)
  BY <1>18 DEF BeginAnalysis, Go, captures
<1>19. CASE AnalysisFails(c)
  BY <1>19 DEF AnalysisFails, EndAnalysis, Idle, Stopped, captures
<1>20. CASE Acquire(c)
  BY <1>20 DEF Acquire, Go
<1>21. CASE Copied(c)
  BY <1>21 DEF Copied, EndAnalysis, Go, Idle, Stopped
<1>22. CASE TakeWorker(c)
  BY <1>22 DEF TakeWorker, Go, captures
<1>23. CASE Publish(c)
  BY <1>23 DEF Publish, Go, Results
<1>24. CASE Unpublished(c)
  BY <1>24 DEF Unpublished, Idle, captures
<1>25. CASE AnalysisAnswers(c)
  BY <1>25 DEF AnalysisAnswers, EndAnalysis, Idle
<1> QED BY <1>1, <1>2, <1>3, <1>4, <1>5, <1>6, <1>7, <1>8, <1>9, <1>10, <1>11,
    <1>12, <1>13, <1>14, <1>15, <1>16, <1>17, <1>18, <1>19, <1>20, <1>21,
    <1>22, <1>23, <1>24, <1>25 DEF CallStep

(* Who has a capture's lock copies out of it, after a step of Server.Close.    *)
LEMMA ReadingByClose ==
  ASSUME Shape, Reading, NEW k \in Closers, Close(k) \/ CloseStep(k)
  PROVE  Reading'
<1> USE AgentViewsAssumption DEF Shape, ControlShape, PixelShape, Reading,
    Procs, Views
<1>1. CASE Close(k)
  BY <1>1 DEF Close, Go, captures
<1>2. CASE CloseAdapter(k)
  BY <1>2 DEF CloseAdapter, Go, captures
<1>3. CASE CloseSession(k)
  BY <1>3 DEF CloseSession, Go, captures
<1>4. CASE CloseEnters(k)
  BY <1>4 DEF CloseEnters, Go, captures
<1>5. CASE CloseObservations(k)
  BY <1>5 DEF CloseObservations, Go
<1>6. CASE CloseEnds(k)
  BY <1>6 DEF CloseEnds, Go, captures
<1>7. CASE ClearContent(k) \/ CloseViews(k)
  <2>1. UNCHANGED <<user, pc, at>>
    BY <1>7 DEF ClearContent, Clear, captures, control, CloseViews
  <2> QED BY <2>1
<1> QED BY <1>1, <1>2, <1>3, <1>4, <1>5, <1>6, <1>7 DEF CloseStep

(* Who has a capture's lock copies out of it, after a request, the end of a    *)
(* context, or a native worker.                                                *)
LEMMA ReadingByOther ==
  ASSUME Shape, Reading, Others
  PROVE  Reading'
<1> USE AgentViewsAssumption DEF Shape, ControlShape, PixelShape, Reading,
    Procs, Views
<1>1. ASSUME NEW c \in Callers, Requests(c)
      PROVE  Reading'
  BY <1>1 DEF Requests, Ask, Go, captures, AskRelease, Cancel, control, TimeOut
<1>2. CASE Background
  <2>1. UNCHANGED <<user, pc, at>>
    BY <1>2 DEF Background, Native, ReadBegins, Late, Stopped, captures,
        control, DropLate, DropBoxes, ReadReturns, AnalysisReturns
  <2> QED BY <2>1
<1> QED BY <1>1, <1>2 DEF Others

(* A view's bytes are in somebody's hands, after a step of a call.             *)
LEMMA ViewsOwnedByCall ==
  ASSUME Shape, ViewsOwned, NEW c \in Callers, CallStep(c)
  PROVE  ViewsOwned'
<1> USE AgentViewsAssumption DEF Shape, ControlShape, PixelShape, ViewsOwned,
    With, Doomed, Procs, Views
<1>1. CASE Refuse(c)
  BY <1>1 DEF Refuse, Idle, Stopped, images
<1>2. CASE BeginView(c)
  BY <1>2 DEF BeginView, Go, images
<1>3. CASE TakeSlot(c)
  BY <1>3 DEF TakeSlot, Go, images
<1>4. CASE Abandon(c)
  BY <1>4 DEF Abandon, Fail, Idle, Stopped, images
<1>5. CASE Receive(c)
  BY <1>5 DEF Receive, Fail, Go, Idle, Stopped, images
<1>6. CASE Record(c)
  BY <1>6 DEF Record, Go, Stopped
<1>7. CASE RecordFails(c)
  BY <1>7 DEF RecordFails, Fail, Idle, images
<1>8. CASE ViewReturns(c)
  BY <1>8 DEF ViewReturns, Go, Idle, images
<1>9. CASE Register(c)
  BY <1>9 DEF Register, Go
<1>10. CASE Take(c)
  <2>1. /\ pc' = [pc EXCEPT ![c] = "taken"] \/ pc' = [pc EXCEPT ![c] = "reject"]
        /\ pc[c] = "taking" /\ UNCHANGED <<at, doomed>>
    BY <1>10 DEF Take, Go
  <2>2. \A v \in Views : png'[v] = "view" => png[v] = "view" /\ (v \in tracked => v \in tracked')
    BY <1>10 DEF Take, Clear
  <2> QED BY <2>1, <2>2
<1>11. CASE Answer(c)
  <2>1. /\ pc' = [pc EXCEPT ![c] = "untrack"] \/ pc' = [pc EXCEPT ![c] = "responding"]
        /\ pc[c] = "taken" /\ UNCHANGED <<at, doomed, tracked>>
    BY <1>11 DEF Answer, Go
  <2>2. CASE Clear(at[c])
    BY <2>1, <2>2 DEF Clear
  <2>3. CASE UNCHANGED png
    BY <2>1, <2>3
  <2> QED BY <1>11, <2>2, <2>3 DEF Answer
<1>12. CASE Serialize(c)
  BY <1>12 DEF Serialize, Idle
<1>13. CASE Reject(c)
  BY <1>13 DEF Reject, Go
<1>14. CASE Untrack(c)
  BY <1>14 DEF Untrack, Go
<1>15. CASE CloseView(c)
  BY <1>15 DEF CloseView, Go
<1>16. CASE Forget(c)
  BY <1>16 DEF Forget, Go, Idle, images
<1>17. CASE WipeCapture(c)
  BY <1>17 DEF WipeCapture, Idle, images
<1>18. CASE BeginAnalysis(c)
  BY <1>18 DEF BeginAnalysis, Go, images
<1>19. CASE AnalysisFails(c)
  BY <1>19 DEF AnalysisFails, EndAnalysis, Idle, Stopped, images
<1>20. CASE Acquire(c)
  BY <1>20 DEF Acquire, Go, images
<1>21. CASE Copied(c)
  BY <1>21 DEF Copied, EndAnalysis, Go, Idle, Stopped, images
<1>22. CASE TakeWorker(c)
  BY <1>22 DEF TakeWorker, Go, images
<1>23. CASE Publish(c)
  BY <1>23 DEF Publish, Go, Results, images
<1>24. CASE Unpublished(c)
  BY <1>24 DEF Unpublished, Idle, images
<1>25. CASE AnalysisAnswers(c)
  BY <1>25 DEF AnalysisAnswers, EndAnalysis, Idle, images
<1> QED BY <1>1, <1>2, <1>3, <1>4, <1>5, <1>6, <1>7, <1>8, <1>9, <1>10, <1>11,
    <1>12, <1>13, <1>14, <1>15, <1>16, <1>17, <1>18, <1>19, <1>20, <1>21,
    <1>22, <1>23, <1>24, <1>25 DEF CallStep

(* A view's bytes are in somebody's hands, after a step of Server.Close.       *)
LEMMA ViewsOwnedByClose ==
  ASSUME Shape, ViewsOwned, NEW k \in Closers, Close(k) \/ CloseStep(k)
  PROVE  ViewsOwned'
<1> USE AgentViewsAssumption DEF Shape, ControlShape, PixelShape, ViewsOwned,
    With, Doomed, Procs, Views
<1>1. CASE Close(k)
  BY <1>1 DEF Close, Go
<1>2. CASE ClearContent(k)
  <2> PICK v \in doomed[k] : Clear(v) /\ doomed' = [doomed EXCEPT ![k] = @ \ {v}]
    BY <1>2 DEF ClearContent
  <2>1. pc[k] = "contents" /\ UNCHANGED <<pc, at, tracked>>
    BY <1>2 DEF ClearContent, control
  <2>2. \A w \in Views : png'[w] = "view" => png[w] = "view"
    BY DEF Clear
  <2> QED BY <2>1, <2>2
<1>3. CASE CloseAdapter(k)
  BY <1>3 DEF CloseAdapter, Go, images
<1>4. CASE CloseSession(k)
  BY <1>4 DEF CloseSession, Go, images
<1>5. CASE CloseEnters(k)
  BY <1>5 DEF CloseEnters, Go
<1>6. CASE CloseViews(k)
  <2> PICK v \in doomed[k] :
          /\ png' = [png EXCEPT ![v] = IF @ = "view" THEN "wiped" ELSE @]
          /\ doomed' = [doomed EXCEPT ![k] = @ \ {v}]
    BY <1>6 DEF CloseViews
  <2>1. UNCHANGED <<pc, at, tracked>>
    BY <1>6 DEF CloseViews, control
  <2>2. \A w \in Views : png'[w] = "view" => png[w] = "view" /\ w # v
    OBVIOUS
  <2> QED BY <2>1, <2>2
<1>7. CASE CloseObservations(k)
  BY <1>7 DEF CloseObservations, Go, images
<1>8. CASE CloseEnds(k)
  BY <1>8 DEF CloseEnds, Go, images
<1> QED BY <1>1, <1>2, <1>3, <1>4, <1>5, <1>6, <1>7, <1>8 DEF CloseStep

(* A view's bytes are in somebody's hands, after a request, the end of a       *)
(* context, or a native worker.                                                *)
LEMMA ViewsOwnedByOther ==
  ASSUME Shape, ViewsOwned, Others
  PROVE  ViewsOwned'
<1> USE AgentViewsAssumption DEF Shape, ControlShape, PixelShape, ViewsOwned,
    With, Doomed, Procs, Views
<1>1. ASSUME NEW c \in Callers, Requests(c)
      PROVE  ViewsOwned'
  BY <1>1 DEF Requests, Ask, Go, images, AskRelease, Cancel, control, TimeOut
<1>2. CASE Background
  <2>1. UNCHANGED <<png, tracked, pc, at, doomed>>
    BY <1>2 DEF Background, Native, ReadBegins, Late, Stopped, images, control,
        DropLate, DropBoxes, ReadReturns, AnalysisReturns
  <2> QED BY <2>1
<1> QED BY <1>1, <1>2 DEF Others

(* A response's bytes are in somebody's hands, after a step of a call.         *)
LEMMA ResponsesOwnedByCall ==
  ASSUME Shape, Opened, ResponsesOwned, NEW c \in Callers, CallStep(c)
  PROVE  ResponsesOwned'
<1> USE AgentViewsAssumption DEF Shape, ControlShape, PixelShape, Opened,
    ResponsesOwned, Doomed, Procs, Views
<1>1. CASE Refuse(c)
  BY <1>1 DEF Refuse, Idle, Stopped, images
<1>2. CASE BeginView(c)
  BY <1>2 DEF BeginView, Go, images
<1>3. CASE TakeSlot(c)
  BY <1>3 DEF TakeSlot, Go, images
<1>4. CASE Abandon(c)
  BY <1>4 DEF Abandon, Fail, Idle, Stopped, images
<1>5. CASE Receive(c)
  BY <1>5 DEF Receive, Fail, Go, Idle, Stopped, images
<1>6. CASE Record(c)
  BY <1>6 DEF Record, Go, Stopped
<1>7. CASE RecordFails(c)
  BY <1>7 DEF RecordFails, Fail, Idle, images
<1>8. CASE ViewReturns(c)
  BY <1>8 DEF ViewReturns, Go, Idle, images
<1>9. CASE Register(c)
  BY <1>9 DEF Register, Go
<1>10. CASE Take(c)
  BY <1>10 DEF Take, Clear, Go
<1>11. CASE Answer(c)
  <2>1. /\ pc' = [pc EXCEPT ![c] = "untrack"] \/ pc' = [pc EXCEPT ![c] = "responding"]
        /\ UNCHANGED doomed
    BY <1>11 DEF Answer, Go
  <2>3. CASE Clear(at[c])
    <3>1. \A v \in Views : png'[v] = "content" => png[v] = "content" /\ v # at[c]
      BY <2>3 DEF Clear
    <3>2. pending' = pending \ {at[c]}
      BY <2>3 DEF Clear
    <3> QED BY <2>1, <3>1, <3>2
  <2>4. CASE UNCHANGED <<png, pending>>
    BY <2>1, <2>4
  <2> QED BY <1>11, <2>3, <2>4 DEF Answer
<1>12. CASE Serialize(c)
  BY <1>12 DEF Serialize, Idle
<1>13. CASE Reject(c)
  BY <1>13 DEF Reject, Go
<1>14. CASE Untrack(c)
  BY <1>14 DEF Untrack, Go
<1>15. CASE CloseView(c)
  BY <1>15 DEF CloseView, Go
<1>16. CASE Forget(c)
  BY <1>16 DEF Forget, Go, Idle, images
<1>17. CASE WipeCapture(c)
  BY <1>17 DEF WipeCapture, Idle, images
<1>18. CASE BeginAnalysis(c)
  BY <1>18 DEF BeginAnalysis, Go, images
<1>19. CASE AnalysisFails(c)
  BY <1>19 DEF AnalysisFails, EndAnalysis, Idle, Stopped, images
<1>20. CASE Acquire(c)
  BY <1>20 DEF Acquire, Go, images
<1>21. CASE Copied(c)
  BY <1>21 DEF Copied, EndAnalysis, Go, Idle, Stopped, images
<1>22. CASE TakeWorker(c)
  BY <1>22 DEF TakeWorker, Go, images
<1>23. CASE Publish(c)
  BY <1>23 DEF Publish, Go, Results, images
<1>24. CASE Unpublished(c)
  BY <1>24 DEF Unpublished, Idle, images
<1>25. CASE AnalysisAnswers(c)
  BY <1>25 DEF AnalysisAnswers, EndAnalysis, Idle, images
<1> QED BY <1>1, <1>2, <1>3, <1>4, <1>5, <1>6, <1>7, <1>8, <1>9, <1>10, <1>11,
    <1>12, <1>13, <1>14, <1>15, <1>16, <1>17, <1>18, <1>19, <1>20, <1>21,
    <1>22, <1>23, <1>24, <1>25 DEF CallStep

(* A response's bytes are in somebody's hands, after a step of                 *)
(* Server.Close.                                                               *)
LEMMA ResponsesOwnedByClose ==
  ASSUME Shape, Opened, ResponsesOwned, NEW k \in Closers, Close(k) \/
      CloseStep(k)
  PROVE  ResponsesOwned'
<1> USE AgentViewsAssumption DEF Shape, ControlShape, PixelShape, Opened,
    ResponsesOwned, Doomed, Procs, Views
<1>1. CASE Close(k)
  BY <1>1 DEF Close, Go
<1>2. CASE ClearContent(k)
  BY <1>2 DEF ClearContent, Clear, control
<1>3. CASE CloseAdapter(k)
  BY <1>3 DEF CloseAdapter, Go, images
<1>4. CASE CloseSession(k)
  BY <1>4 DEF CloseSession, Go, images
<1>5. CASE CloseEnters(k)
  BY <1>5 DEF CloseEnters, Go
<1>6. CASE CloseViews(k)
  BY <1>6 DEF CloseViews, control
<1>7. CASE CloseObservations(k)
  BY <1>7 DEF CloseObservations, Go, images
<1>8. CASE CloseEnds(k)
  BY <1>8 DEF CloseEnds, Go, images
<1> QED BY <1>1, <1>2, <1>3, <1>4, <1>5, <1>6, <1>7, <1>8 DEF CloseStep

(* A response's bytes are in somebody's hands, after a request, the end of     *)
(* a context, or a native worker.                                              *)
LEMMA ResponsesOwnedByOther ==
  ASSUME Shape, Opened, ResponsesOwned, Others
  PROVE  ResponsesOwned'
<1> USE AgentViewsAssumption DEF Shape, ControlShape, PixelShape, Opened,
    ResponsesOwned, Doomed, Procs, Views
<1>1. ASSUME NEW c \in Callers, Requests(c)
      PROVE  ResponsesOwned'
  BY <1>1 DEF Requests, Ask, Go, images, AskRelease, Cancel, control, TimeOut
<1>2. CASE Background
  <2>1. UNCHANGED <<png, pending, pc, doomed>>
    BY <1>2 DEF Background, Native, ReadBegins, Late, Stopped, images, control,
        DropLate, DropBoxes, ReadReturns, AnalysisReturns
  <2> QED BY <2>1
<1> QED BY <1>1, <1>2 DEF Others

(* A capture is in somebody's hands, after a step of a call.                   *)
LEMMA CapturesOwnedByCall ==
  ASSUME Shape, CapturesOwned, NEW c \in Callers, CallStep(c)
  PROVE  CapturesOwned'
<1> USE AgentViewsAssumption DEF Shape, ControlShape, PixelShape,
    CapturesOwned, With, Procs, Views
<1>1. CASE Refuse(c)
  BY <1>1 DEF Refuse, Idle, Stopped, captures
<1>2. CASE BeginView(c)
  BY <1>2 DEF BeginView, Go, captures
<1>3. CASE TakeSlot(c)
  BY <1>3 DEF TakeSlot, Go, captures
<1>4. CASE Abandon(c)
  BY <1>4 DEF Abandon, Fail, Idle, Stopped
<1>5. CASE Receive(c)
  <2>1. CASE Fail(c)
    BY <1>5, <2>1 DEF Receive, Fail, Idle
  <2>2. CASE Go(c, "image") /\ UNCHANGED <<gate, buffer, at>>
    BY <1>5, <2>2 DEF Receive, Go
  <2>3. CASE /\ buffer' = [buffer EXCEPT ![at[c]] = "live"]
             /\ Go(c, "captured") /\ UNCHANGED <<gate, at>>
    BY <1>5, <2>3 DEF Receive, Go
  <2> QED BY <1>5, <2>1, <2>2, <2>3 DEF Receive
<1>6. CASE Record(c)
  BY <1>6 DEF Record, Go, Stopped
<1>7. CASE RecordFails(c)
  BY <1>7 DEF RecordFails, Fail, Idle
<1>8. CASE ViewReturns(c)
  BY <1>8 DEF ViewReturns, Go, Idle, captures
<1>9. CASE Register(c)
  BY <1>9 DEF Register, Go, captures
<1>10. CASE Take(c)
  BY <1>10 DEF Take, Clear, Go, captures
<1>11. CASE Answer(c)
  BY <1>11 DEF Answer, Clear, Go, captures
<1>12. CASE Serialize(c)
  BY <1>12 DEF Serialize, Idle, captures
<1>13. CASE Reject(c)
  BY <1>13 DEF Reject, Go, captures
<1>14. CASE Untrack(c)
  BY <1>14 DEF Untrack, Go, captures
<1>15. CASE CloseView(c)
  BY <1>15 DEF CloseView, Go, captures
<1>16. CASE Forget(c)
  <2>1. pc[c] = "forget" /\ UNCHANGED buffer
    BY <1>16 DEF Forget
  <2>2. CASE at[c] \in records
    BY <1>16, <2>1, <2>2 DEF Forget, Go
  <2>3. CASE at[c] \notin records
    BY <1>16, <2>1, <2>3 DEF Forget, Idle
  <2> QED BY <2>2, <2>3
<1>17. CASE WipeCapture(c)
  <2>1. /\ pc' = [pc EXCEPT ![c] = "idle"] /\ at' = [at EXCEPT ![c] = 0]
        /\ UNCHANGED records
    BY <1>17 DEF WipeCapture, Idle
  <2>2. \A v \in Views : buffer'[v] = "live" => buffer[v] = "live" /\ v # at[c]
    BY <1>17 DEF WipeCapture
  <2> QED BY <2>1, <2>2
<1>18. CASE BeginAnalysis(c)
  BY <1>18 DEF BeginAnalysis, Go, captures
<1>19. CASE AnalysisFails(c)
  BY <1>19 DEF AnalysisFails, EndAnalysis, Idle, Stopped, captures
<1>20. CASE Acquire(c)
  BY <1>20 DEF Acquire, Go
<1>21. CASE Copied(c)
  BY <1>21 DEF Copied, EndAnalysis, Go, Idle, Stopped
<1>22. CASE TakeWorker(c)
  BY <1>22 DEF TakeWorker, Go, captures
<1>23. CASE Publish(c)
  BY <1>23 DEF Publish, Go, Results
<1>24. CASE Unpublished(c)
  BY <1>24 DEF Unpublished, Idle, captures
<1>25. CASE AnalysisAnswers(c)
  BY <1>25 DEF AnalysisAnswers, EndAnalysis, Idle
<1> QED BY <1>1, <1>2, <1>3, <1>4, <1>5, <1>6, <1>7, <1>8, <1>9, <1>10, <1>11,
    <1>12, <1>13, <1>14, <1>15, <1>16, <1>17, <1>18, <1>19, <1>20, <1>21,
    <1>22, <1>23, <1>24, <1>25 DEF CallStep

(* A capture is in somebody's hands, after a step of Server.Close.             *)
LEMMA CapturesOwnedByClose ==
  ASSUME Shape, CapturesOwned, NEW k \in Closers, Close(k) \/ CloseStep(k)
  PROVE  CapturesOwned'
<1> USE AgentViewsAssumption DEF Shape, ControlShape, PixelShape,
    CapturesOwned, With, Procs, Views
<1>1. CASE Close(k)
  BY <1>1 DEF Close, Go, captures
<1>2. CASE CloseAdapter(k)
  BY <1>2 DEF CloseAdapter, Go, captures
<1>3. CASE CloseSession(k)
  BY <1>3 DEF CloseSession, Go, captures
<1>4. CASE CloseEnters(k)
  BY <1>4 DEF CloseEnters, Go, captures
<1>5. CASE CloseObservations(k)
  BY <1>5 DEF CloseObservations, Go
<1>6. CASE CloseEnds(k)
  BY <1>6 DEF CloseEnds, Go, captures
<1>7. CASE ClearContent(k) \/ CloseViews(k)
  <2>1. UNCHANGED <<buffer, records, pc, at>>
    BY <1>7 DEF ClearContent, Clear, captures, control, CloseViews
  <2> QED BY <2>1
<1> QED BY <1>1, <1>2, <1>3, <1>4, <1>5, <1>6, <1>7 DEF CloseStep

(* A capture is in somebody's hands, after a request, the end of a context,    *)
(* or a native worker.                                                         *)
LEMMA CapturesOwnedByOther ==
  ASSUME Shape, CapturesOwned, Others
  PROVE  CapturesOwned'
<1> USE AgentViewsAssumption DEF Shape, ControlShape, PixelShape,
    CapturesOwned, With, Procs, Views
<1>1. ASSUME NEW c \in Callers, Requests(c)
      PROVE  CapturesOwned'
  BY <1>1 DEF Requests, Ask, Go, captures, AskRelease, Cancel, control, TimeOut
<1>2. CASE Background
  <2>1. UNCHANGED <<buffer, records, pc, at>>
    BY <1>2 DEF Background, Native, ReadBegins, Late, Stopped, captures,
        control, DropLate, DropBoxes, ReadReturns, AnalysisReturns
  <2> QED BY <2>1
<1> QED BY <1>1, <1>2 DEF Others

(* Nobody reads a wiped capture, after a step of a call.                       *)
LEMMA ReadersOwnedByCall ==
  ASSUME Shape, Gated, Reading, ReadersOwned, NEW c \in Callers, CallStep(c)
  PROVE  ReadersOwned'
<1> USE AgentViewsAssumption DEF Shape, ControlShape, PixelShape, ReadersOwned,
    Procs, Views, Gated, Reading, Working
<1>1. CASE Abandon(c)
  BY <1>1 DEF Abandon, Fail, Idle, Stopped
<1>2. CASE Receive(c)
  BY <1>2 DEF Receive, Fail, Go, Idle, Stopped
<1>3. CASE RecordFails(c)
  BY <1>3 DEF RecordFails, Fail, Idle
<1>4. CASE WipeCapture(c)
  BY <1>4 DEF WipeCapture, Idle
<1>5. CASE Acquire(c)
  BY <1>5 DEF Acquire, Go
<1>6. CASE Copied(c)
  BY <1>6 DEF Copied, EndAnalysis, Go, Idle, Stopped
<1>7. CASE Refuse(c) \/ BeginView(c) \/ TakeSlot(c) \/ Record(c) \/
    ViewReturns(c) \/ Register(c) \/ Take(c) \/ Answer(c) \/ Serialize(c) \/
    Reject(c) \/ Untrack(c) \/ CloseView(c) \/ Forget(c) \/ BeginAnalysis(c) \/
    AnalysisFails(c) \/ TakeWorker(c) \/ Publish(c) \/ Unpublished(c) \/
    AnalysisAnswers(c)
  <2>1. UNCHANGED <<buffer, user>>
    BY <1>7 DEF Refuse, Idle, Stopped, captures, BeginView, Go, TakeSlot,
        Record, ViewReturns, Register, Take, Clear, Answer, Serialize, Reject,
        Untrack, CloseView, Forget, BeginAnalysis, AnalysisFails, EndAnalysis,
        TakeWorker, Publish, Results, Unpublished, AnalysisAnswers
  <2> QED BY <2>1
<1> QED BY <1>1, <1>2, <1>3, <1>4, <1>5, <1>6, <1>7 DEF CallStep

(* Nobody reads a wiped capture, after a step of Server.Close.                 *)
LEMMA ReadersOwnedByClose ==
  ASSUME Shape, Gated, Reading, ReadersOwned, NEW k \in Closers, Close(k) \/
      CloseStep(k)
  PROVE  ReadersOwned'
<1> USE AgentViewsAssumption DEF Shape, ControlShape, PixelShape, ReadersOwned,
    Procs, Views, Gated, Reading, Working
<1>1. CASE CloseObservations(k)
  BY <1>1 DEF CloseObservations, Go
<1>2. CASE Close(k) \/ ClearContent(k) \/ CloseAdapter(k) \/ CloseSession(k) \/
    CloseEnters(k) \/ CloseViews(k) \/ CloseEnds(k)
  <2>1. UNCHANGED <<buffer, user>>
    BY <1>2 DEF Close, Go, captures, ClearContent, Clear, CloseAdapter,
        CloseSession, CloseEnters, CloseViews, CloseEnds
  <2> QED BY <2>1
<1> QED BY <1>1, <1>2 DEF CloseStep

(* Nobody reads a wiped capture, after a request, the end of a context, or     *)
(* a native worker.                                                            *)
LEMMA ReadersOwnedByOther ==
  ASSUME Shape, Gated, Reading, ReadersOwned, Others
  PROVE  ReadersOwned'
<1> USE AgentViewsAssumption DEF Shape, ControlShape, PixelShape, ReadersOwned,
    Procs, Views, Gated, Reading, Working
<1>1. ASSUME NEW c \in Callers, Requests(c)
      PROVE  ReadersOwned'
  BY <1>1 DEF Requests, Ask, Go, captures, AskRelease, Cancel, TimeOut
<1>2. CASE Background
  <2>1. UNCHANGED <<buffer, user>>
    BY <1>2 DEF Background, Native, ReadBegins, Late, Stopped, captures,
        DropLate, DropBoxes, ReadReturns, AnalysisReturns
  <2> QED BY <2>1
<1> QED BY <1>1, <1>2 DEF Others

(* Views are numbered and in one call's hands, after a step of a call.         *)
LEMMA NumberedByCall ==
  ASSUME Shape, Numbered, NEW c \in Callers, CallStep(c)
  PROVE  Numbered'
<1> USE AgentViewsAssumption DEF Shape, ControlShape, PixelShape, Numbered,
    Taking, Procs, Views
<1>1. CASE Refuse(c)
  BY <1>1 DEF Refuse, Idle, Stopped, bounds
<1>2. CASE BeginView(c)
  BY <1>2 DEF BeginView, Go, bounds
<1>3. CASE TakeSlot(c)
  BY <1>3 DEF TakeSlot, Go, bounds
<1>4. CASE Abandon(c)
  BY <1>4 DEF Abandon, Fail, Idle, Stopped, bounds
<1>5. CASE Receive(c)
  <2>1. CASE Fail(c)
    BY <1>5, <2>1 DEF Receive, Fail, Idle, bounds
  <2>2. CASE Go(c, "image") /\ UNCHANGED <<gate, buffer, at>>
    BY <1>5, <2>2 DEF Receive, Go, bounds
  <2>3. CASE /\ buffer' = [buffer EXCEPT ![at[c]] = "live"]
             /\ Go(c, "captured") /\ UNCHANGED <<gate, at>>
    BY <1>5, <2>3 DEF Receive, Go, bounds
  <2> QED BY <1>5, <2>1, <2>2, <2>3 DEF Receive
<1>6. CASE Record(c)
  BY <1>6 DEF Record, Go, Stopped, bounds
<1>7. CASE RecordFails(c)
  BY <1>7 DEF RecordFails, Fail, Idle, bounds
<1>8. CASE ViewReturns(c)
  <2>1. pc[c] = "recorded" /\ UNCHANGED taken
    BY <1>8 DEF ViewReturns, bounds
  <2>2. CASE UNCHANGED <<at, known>> /\ \E w \in {"returned", "reject"} : Go(c, w)
    BY <2>1, <2>2 DEF Go
  <2>3. CASE known' = known \cup {at[c]} /\ Idle(c)
    <3>1. pc' = [pc EXCEPT ![c] = "idle"] /\ at' = [at EXCEPT ![c] = 0]
      BY <2>3 DEF Idle
    <3>2. at[c] \in 1..taken
      BY <2>1
    <3>3. known' \subseteq 1..taken'
      BY <2>1, <2>3, <3>2
    <3> QED BY <2>1, <3>1, <3>3
  <2> QED BY <1>8, <2>2, <2>3 DEF ViewReturns
<1>9. CASE Register(c)
  BY <1>9 DEF Register, Go, bounds
<1>10. CASE Take(c)
  BY <1>10 DEF Take, Clear, Go, bounds
<1>11. CASE Answer(c)
  BY <1>11 DEF Answer, Clear, Go, bounds
<1>12. CASE Serialize(c)
  <2>1. pc[c] = "responding" /\ known' \subseteq known \cup {at[c]} /\ UNCHANGED taken
    BY <1>12 DEF Serialize, bounds
  <2>2. pc' = [pc EXCEPT ![c] = "idle"] /\ at' = [at EXCEPT ![c] = 0]
    BY <1>12 DEF Serialize, Idle
  <2>3. at[c] \in 1..taken
    BY <2>1
  <2> QED BY <2>1, <2>2, <2>3
<1>13. CASE Reject(c)
  BY <1>13 DEF Reject, Go, bounds
<1>14. CASE Untrack(c)
  BY <1>14 DEF Untrack, Go, bounds
<1>15. CASE CloseView(c)
  BY <1>15 DEF CloseView, Go, bounds
<1>16. CASE Forget(c)
  <2>1. pc[c] = "forget" /\ UNCHANGED <<known, taken>>
    BY <1>16 DEF Forget, bounds
  <2>2. CASE Idle(c)
    BY <2>1, <2>2 DEF Idle
  <2>3. CASE UNCHANGED at /\ Go(c, "wipe")
    BY <2>1, <2>3 DEF Go
  <2> QED BY <1>16, <2>2, <2>3 DEF Forget
<1>17. CASE WipeCapture(c)
  BY <1>17 DEF WipeCapture, Idle, bounds
<1>18. CASE BeginAnalysis(c)
  BY <1>18 DEF BeginAnalysis, Go
<1>19. CASE AnalysisFails(c)
  BY <1>19 DEF AnalysisFails, EndAnalysis, Idle, Stopped, bounds
<1>20. CASE Acquire(c)
  BY <1>20 DEF Acquire, Go, bounds
<1>21. CASE Copied(c)
  <2>1. pc[c] = "copying" /\ UNCHANGED <<known, taken>>
    BY <1>21 DEF Copied, bounds
  <2>2. CASE Idle(c)
    BY <2>1, <2>2 DEF Idle
  <2>3. CASE Go(c, "worker") /\ UNCHANGED at
    BY <2>1, <2>3 DEF Go
  <2>4. CASE Go(c, "detecting") /\ UNCHANGED at
    BY <2>1, <2>4 DEF Go
  <2> QED BY <1>21, <2>2, <2>3, <2>4 DEF Copied, EndAnalysis
<1>22. CASE TakeWorker(c)
  <2>1. /\ pc[c] = "worker" /\ UNCHANGED <<at, taken, known>>
        /\ \E w \in {"analysing", "copy"} : Go(c, w)
    BY <1>22 DEF TakeWorker, bounds
  <2> QED BY <2>1 DEF Go
<1>23. CASE Publish(c)
  BY <1>23 DEF Publish, Go, Results, bounds
<1>24. CASE Unpublished(c)
  BY <1>24 DEF Unpublished, Idle, bounds
<1>25. CASE AnalysisAnswers(c)
  BY <1>25 DEF AnalysisAnswers, EndAnalysis, Idle, bounds
<1> QED BY <1>1, <1>2, <1>3, <1>4, <1>5, <1>6, <1>7, <1>8, <1>9, <1>10, <1>11,
    <1>12, <1>13, <1>14, <1>15, <1>16, <1>17, <1>18, <1>19, <1>20, <1>21,
    <1>22, <1>23, <1>24, <1>25 DEF CallStep

(* Views are numbered and in one call's hands, after a step of                 *)
(* Server.Close.                                                               *)
LEMMA NumberedByClose ==
  ASSUME Shape, Numbered, NEW k \in Closers, Close(k) \/ CloseStep(k)
  PROVE  Numbered'
<1> USE AgentViewsAssumption DEF Shape, ControlShape, PixelShape, Numbered,
    Taking, Procs, Views
<1>1. CASE Close(k)
  BY <1>1 DEF Close, Go
<1>2. CASE CloseAdapter(k)
  BY <1>2 DEF CloseAdapter, Go, bounds
<1>3. CASE CloseSession(k)
  BY <1>3 DEF CloseSession, Go, bounds
<1>4. CASE CloseEnters(k)
  BY <1>4 DEF CloseEnters, Go, bounds
<1>5. CASE CloseObservations(k)
  BY <1>5 DEF CloseObservations, Go, bounds
<1>6. CASE CloseEnds(k)
  BY <1>6 DEF CloseEnds, Go, bounds
<1>7. CASE ClearContent(k) \/ CloseViews(k)
  <2>1. UNCHANGED <<pc, at, taken, known>>
    BY <1>7 DEF ClearContent, Clear, control, bounds, CloseViews
  <2> QED BY <2>1
<1> QED BY <1>1, <1>2, <1>3, <1>4, <1>5, <1>6, <1>7 DEF CloseStep

(* Views are numbered and in one call's hands, after a request, the end of     *)
(* a context, or a native worker.                                              *)
LEMMA NumberedByOther ==
  ASSUME Shape, Numbered, Others
  PROVE  Numbered'
<1> USE AgentViewsAssumption DEF Shape, ControlShape, PixelShape, Numbered,
    Taking, Procs, Views
<1>1. ASSUME NEW c \in Callers, Requests(c)
      PROVE  Numbered'
  <2>1. UNCHANGED <<taken, known>>
    BY <1>1 DEF Requests, Ask, AskRelease, Cancel, TimeOut, bounds
  <2>2. CASE \E v \in {0} \cup known, w \in {"asking", "untrack"} :
               (pc' = [pc EXCEPT ![c] = w] /\ at' = [at EXCEPT ![c] = v])
    BY <2>1, <2>2
  <2>3. CASE UNCHANGED <<pc, at>>
    BY <2>1, <2>3
  <2> QED
    BY <1>1, <2>2, <2>3 DEF Requests, Ask, AskRelease, Cancel, TimeOut, Go, control
<1>2. CASE Background
  <2>1. UNCHANGED <<pc, at, taken, known>>
    BY <1>2 DEF Background, Native, ReadBegins, Late, Stopped, control, bounds,
        DropLate, DropBoxes, ReadReturns, AnalysisReturns
  <2> QED BY <2>1
<1> QED BY <1>1, <1>2 DEF Others

(* The server's flags agree, after a step of a call.                           *)
LEMMA FlagsByCall ==
  ASSUME Shape, Flags, NEW c \in Callers, CallStep(c)
  PROVE  Flags'
<1> USE AgentViewsAssumption DEF Shape, ControlShape, PixelShape, Flags
<1>1. CASE Register(c)
  BY <1>1 DEF Register, Go, server, bounds
<1>2. CASE Take(c)
  BY <1>2 DEF Take, Clear, Go, server, bounds
<1>3. CASE Answer(c)
  BY <1>3 DEF Answer, Clear, Go, server, bounds
<1>4. CASE Serialize(c)
  BY <1>4 DEF Serialize, Idle, server, bounds
<1>5. CASE Refuse(c) \/ BeginView(c) \/ TakeSlot(c) \/ Abandon(c) \/ Receive(c)
    \/ Record(c) \/ RecordFails(c) \/ ViewReturns(c) \/ Reject(c) \/ Untrack(c)
    \/ CloseView(c) \/ Forget(c) \/ WipeCapture(c) \/ BeginAnalysis(c) \/
    AnalysisFails(c) \/ Acquire(c) \/ Copied(c) \/ TakeWorker(c) \/ Publish(c)
    \/ Unpublished(c) \/ AnalysisAnswers(c)
  <2>1. UNCHANGED <<imagesClosed, pending, closes>>
    BY <1>5 DEF Refuse, Idle, Stopped, server, images, bounds, BeginView, Go,
        TakeSlot, Abandon, Fail, Receive, Record, RecordFails, ViewReturns,
        Reject, Untrack, CloseView, Forget, WipeCapture, BeginAnalysis,
        AnalysisFails, EndAnalysis, Acquire, Copied, TakeWorker, Publish,
        Results, Unpublished, AnalysisAnswers
  <2> QED BY <2>1
<1> QED BY <1>1, <1>2, <1>3, <1>4, <1>5 DEF CallStep

(* The server's flags agree, after a step of Server.Close.                     *)
LEMMA FlagsByClose ==
  ASSUME Shape, Flags, NEW k \in Closers, Close(k) \/ CloseStep(k)
  PROVE  Flags'
<1> USE AgentViewsAssumption DEF Shape, ControlShape, PixelShape, Flags
<1>1. CASE Close(k)
  BY <1>1 DEF Close, Go
<1>2. CASE ClearContent(k)
  BY <1>2 DEF ClearContent, Clear, server, bounds
<1>3. CASE CloseAdapter(k) \/ CloseSession(k) \/ CloseEnters(k) \/
    CloseViews(k) \/ CloseObservations(k) \/ CloseEnds(k)
  <2>1. UNCHANGED <<imagesClosed, pending, closes>>
    BY <1>3 DEF CloseAdapter, Go, images, bounds, CloseSession, CloseEnters,
        server, CloseViews, CloseObservations, CloseEnds
  <2> QED BY <2>1
<1> QED BY <1>1, <1>2, <1>3 DEF CloseStep

(* The server's flags agree, after a request, the end of a context, or a       *)
(* native worker.                                                              *)
LEMMA FlagsByOther ==
  ASSUME Shape, Flags, Others
  PROVE  Flags'
<1> USE AgentViewsAssumption DEF Shape, ControlShape, PixelShape, Flags
<1>1. ASSUME NEW c \in Callers, Requests(c)
      PROVE  Flags'
  BY <1>1 DEF Requests, Ask, Go, server, images, bounds, AskRelease, Cancel,
      TimeOut
<1>2. CASE Background
  <2>1. UNCHANGED <<imagesClosed, pending, closes>>
    BY <1>2 DEF Background, Native, ReadBegins, Late, Stopped, server, images,
        bounds, DropLate, DropBoxes, ReadReturns, AnalysisReturns
  <2> QED BY <2>1
<1> QED BY <1>1, <1>2 DEF Others

(* An open content is the server's or a close's, after a step of a call.       *)
LEMMA OpenedByCall ==
  ASSUME Shape, Opened, NEW c \in Callers, CallStep(c)
  PROVE  Opened'
<1> USE AgentViewsAssumption DEF Shape, ControlShape, PixelShape, Opened,
    Doomed, Procs, Views
<1>1. CASE Refuse(c)
  BY <1>1 DEF Refuse, Idle, Stopped, images
<1>2. CASE BeginView(c)
  BY <1>2 DEF BeginView, Go, images
<1>3. CASE TakeSlot(c)
  BY <1>3 DEF TakeSlot, Go, images
<1>4. CASE Abandon(c)
  BY <1>4 DEF Abandon, Fail, Idle, Stopped, images
<1>5. CASE Receive(c)
  BY <1>5 DEF Receive, Fail, Go, Idle, Stopped, images
<1>6. CASE Record(c)
  BY <1>6 DEF Record, Go, Stopped
<1>7. CASE RecordFails(c)
  BY <1>7 DEF RecordFails, Fail, Idle, images
<1>8. CASE ViewReturns(c)
  BY <1>8 DEF ViewReturns, Go, Idle, images
<1>9. CASE Register(c)
  BY <1>9 DEF Register, Go
<1>10. CASE Take(c)
  BY <1>10 DEF Take, Clear, Go
<1>11. CASE Answer(c)
  BY <1>11 DEF Answer, Clear, Go
<1>12. CASE Serialize(c)
  BY <1>12 DEF Serialize, Idle
<1>13. CASE Reject(c)
  BY <1>13 DEF Reject, Go
<1>14. CASE Untrack(c)
  BY <1>14 DEF Untrack, Go
<1>15. CASE CloseView(c)
  BY <1>15 DEF CloseView, Go
<1>16. CASE Forget(c)
  BY <1>16 DEF Forget, Go, Idle, images
<1>17. CASE WipeCapture(c)
  BY <1>17 DEF WipeCapture, Idle, images
<1>18. CASE BeginAnalysis(c)
  BY <1>18 DEF BeginAnalysis, Go, images
<1>19. CASE AnalysisFails(c)
  BY <1>19 DEF AnalysisFails, EndAnalysis, Idle, Stopped, images
<1>20. CASE Acquire(c)
  BY <1>20 DEF Acquire, Go, images
<1>21. CASE Copied(c)
  BY <1>21 DEF Copied, EndAnalysis, Go, Idle, Stopped, images
<1>22. CASE TakeWorker(c)
  BY <1>22 DEF TakeWorker, Go, images
<1>23. CASE Publish(c)
  BY <1>23 DEF Publish, Go, Results, images
<1>24. CASE Unpublished(c)
  BY <1>24 DEF Unpublished, Idle, images
<1>25. CASE AnalysisAnswers(c)
  BY <1>25 DEF AnalysisAnswers, EndAnalysis, Idle, images
<1> QED BY <1>1, <1>2, <1>3, <1>4, <1>5, <1>6, <1>7, <1>8, <1>9, <1>10, <1>11,
    <1>12, <1>13, <1>14, <1>15, <1>16, <1>17, <1>18, <1>19, <1>20, <1>21,
    <1>22, <1>23, <1>24, <1>25 DEF CallStep

(* An open content is the server's or a close's, after a step of               *)
(* Server.Close.                                                               *)
LEMMA OpenedByClose ==
  ASSUME Shape, Opened, NEW k \in Closers, Close(k) \/ CloseStep(k)
  PROVE  Opened'
<1> USE AgentViewsAssumption DEF Shape, ControlShape, PixelShape, Opened,
    Doomed, Procs, Views
<1>1. CASE Close(k)
  BY <1>1 DEF Close, Go
<1>2. CASE ClearContent(k)
  BY <1>2 DEF ClearContent, Clear, control
<1>3. CASE CloseAdapter(k)
  BY <1>3 DEF CloseAdapter, Go, images
<1>4. CASE CloseSession(k)
  BY <1>4 DEF CloseSession, Go, images
<1>5. CASE CloseEnters(k)
  BY <1>5 DEF CloseEnters, Go
<1>6. CASE CloseViews(k)
  BY <1>6 DEF CloseViews, control
<1>7. CASE CloseObservations(k)
  BY <1>7 DEF CloseObservations, Go, images
<1>8. CASE CloseEnds(k)
  BY <1>8 DEF CloseEnds, Go, images
<1> QED BY <1>1, <1>2, <1>3, <1>4, <1>5, <1>6, <1>7, <1>8 DEF CloseStep

(* An open content is the server's or a close's, after a request, the end      *)
(* of a context, or a native worker.                                           *)
LEMMA OpenedByOther ==
  ASSUME Shape, Opened, Others
  PROVE  Opened'
<1> USE AgentViewsAssumption DEF Shape, ControlShape, PixelShape, Opened,
    Doomed, Procs, Views
<1>1. ASSUME NEW c \in Callers, Requests(c)
      PROVE  Opened'
  BY <1>1 DEF Requests, Ask, Go, images, AskRelease, Cancel, control, TimeOut
<1>2. CASE Background
  <2>1. UNCHANGED <<content, pending, pc, doomed>>
    BY <1>2 DEF Background, Native, ReadBegins, Late, Stopped, images, control,
        DropLate, DropBoxes, ReadReturns, AnalysisReturns
  <2> QED BY <2>1
<1> QED BY <1>1, <1>2 DEF Others

(* A response on its way has its bytes, after a step of a call.                *)
LEMMA FilledByCall ==
  ASSUME Shape, Numbered, Filled, NEW c \in Callers, CallStep(c)
  PROVE  Filled'
<1> USE AgentViewsAssumption DEF Shape, ControlShape, PixelShape, Filled,
    Procs, Views, Taking, Numbered
<1>1. CASE Refuse(c)
  BY <1>1 DEF Refuse, Idle, Stopped, images
<1>2. CASE BeginView(c)
  BY <1>2 DEF BeginView, Go, images
<1>3. CASE TakeSlot(c)
  BY <1>3 DEF TakeSlot, Go, images
<1>4. CASE Abandon(c)
  BY <1>4 DEF Abandon, Fail, Idle, Stopped, images
<1>5. CASE Receive(c)
  BY <1>5 DEF Receive, Fail, Go, Idle, Stopped, images
<1>6. CASE Record(c)
  BY <1>6 DEF Record, Go, Stopped
<1>7. CASE RecordFails(c)
  BY <1>7 DEF RecordFails, Fail, Idle, images
<1>8. CASE ViewReturns(c)
  BY <1>8 DEF ViewReturns, Go, Idle, images
<1>9. CASE Register(c)
  BY <1>9 DEF Register, Go
<1>10. CASE Take(c)
  BY <1>10 DEF Take, Clear, Go
<1>11. CASE Answer(c)
  BY <1>11 DEF Answer, Clear, Go
<1>12. CASE Serialize(c)
  BY <1>12 DEF Serialize, Idle
<1>13. CASE Reject(c)
  BY <1>13 DEF Reject, Go
<1>14. CASE Untrack(c)
  BY <1>14 DEF Untrack, Go
<1>15. CASE CloseView(c)
  <2>1. pc' = [pc EXCEPT ![c] = "forget"] /\ UNCHANGED <<at, content>>
    BY <1>15 DEF CloseView, Go
  <2>2. \A v \in Views : png[v] = "content" => png'[v] = "content"
    BY <1>15 DEF CloseView
  <2> QED BY <2>1, <2>2
<1>16. CASE Forget(c)
  BY <1>16 DEF Forget, Go, Idle, images
<1>17. CASE WipeCapture(c)
  BY <1>17 DEF WipeCapture, Idle, images
<1>18. CASE BeginAnalysis(c)
  BY <1>18 DEF BeginAnalysis, Go, images
<1>19. CASE AnalysisFails(c)
  BY <1>19 DEF AnalysisFails, EndAnalysis, Idle, Stopped, images
<1>20. CASE Acquire(c)
  BY <1>20 DEF Acquire, Go, images
<1>21. CASE Copied(c)
  BY <1>21 DEF Copied, EndAnalysis, Go, Idle, Stopped, images
<1>22. CASE TakeWorker(c)
  BY <1>22 DEF TakeWorker, Go, images
<1>23. CASE Publish(c)
  BY <1>23 DEF Publish, Go, Results, images
<1>24. CASE Unpublished(c)
  BY <1>24 DEF Unpublished, Idle, images
<1>25. CASE AnalysisAnswers(c)
  BY <1>25 DEF AnalysisAnswers, EndAnalysis, Idle, images
<1> QED BY <1>1, <1>2, <1>3, <1>4, <1>5, <1>6, <1>7, <1>8, <1>9, <1>10, <1>11,
    <1>12, <1>13, <1>14, <1>15, <1>16, <1>17, <1>18, <1>19, <1>20, <1>21,
    <1>22, <1>23, <1>24, <1>25 DEF CallStep

(* A response on its way has its bytes, after a step of Server.Close.          *)
LEMMA FilledByClose ==
  ASSUME Shape, Numbered, Filled, NEW k \in Closers, Close(k) \/ CloseStep(k)
  PROVE  Filled'
<1> USE AgentViewsAssumption DEF Shape, ControlShape, PixelShape, Filled,
    Procs, Views, Taking, Numbered
<1>1. CASE Close(k)
  BY <1>1 DEF Close, Go
<1>2. CASE ClearContent(k)
  BY <1>2 DEF ClearContent, Clear, control
<1>3. CASE CloseAdapter(k)
  BY <1>3 DEF CloseAdapter, Go, images
<1>4. CASE CloseSession(k)
  BY <1>4 DEF CloseSession, Go, images
<1>5. CASE CloseEnters(k)
  BY <1>5 DEF CloseEnters, Go
<1>6. CASE CloseViews(k)
  BY <1>6 DEF CloseViews, control
<1>7. CASE CloseObservations(k)
  BY <1>7 DEF CloseObservations, Go, images
<1>8. CASE CloseEnds(k)
  BY <1>8 DEF CloseEnds, Go, images
<1> QED BY <1>1, <1>2, <1>3, <1>4, <1>5, <1>6, <1>7, <1>8 DEF CloseStep

(* A response on its way has its bytes, after a request, the end of a          *)
(* context, or a native worker.                                                *)
LEMMA FilledByOther ==
  ASSUME Shape, Numbered, Filled, Others
  PROVE  Filled'
<1> USE AgentViewsAssumption DEF Shape, ControlShape, PixelShape, Filled,
    Procs, Views, Taking, Numbered
<1>1. ASSUME NEW c \in Callers, Requests(c)
      PROVE  Filled'
  BY <1>1 DEF Requests, Ask, Go, images, AskRelease, Cancel, control, TimeOut
<1>2. CASE Background
  <2>1. UNCHANGED <<png, content, pc, at>>
    BY <1>2 DEF Background, Native, ReadBegins, Late, Stopped, images, control,
        DropLate, DropBoxes, ReadReturns, AnalysisReturns
  <2> QED BY <2>1
<1> QED BY <1>1, <1>2 DEF Others

(* Evidence belongs to a record, after a step of a call.                       *)
LEMMA ExtractsByCall ==
  ASSUME Shape, Extracts, NEW c \in Callers, CallStep(c)
  PROVE  Extracts'
<1> USE AgentViewsAssumption DEF Shape, ControlShape, PixelShape, Extracts,
    With, Procs, Views
<1>1. CASE Refuse(c)
  BY <1>1 DEF Refuse, Idle, Stopped, captures
<1>2. CASE BeginView(c)
  BY <1>2 DEF BeginView, Go, captures
<1>3. CASE TakeSlot(c)
  BY <1>3 DEF TakeSlot, Go, captures
<1>4. CASE Abandon(c)
  BY <1>4 DEF Abandon, Fail, Idle, Stopped
<1>5. CASE Receive(c)
  <2>1. CASE Fail(c)
    BY <1>5, <2>1 DEF Receive, Fail, Idle
  <2>2. CASE Go(c, "image") /\ UNCHANGED <<gate, buffer, at>>
    BY <1>5, <2>2 DEF Receive, Go
  <2>3. CASE /\ buffer' = [buffer EXCEPT ![at[c]] = "live"]
             /\ Go(c, "captured") /\ UNCHANGED <<gate, at>>
    BY <1>5, <2>3 DEF Receive, Go
  <2> QED BY <1>5, <2>1, <2>2, <2>3 DEF Receive
<1>6. CASE Record(c)
  BY <1>6 DEF Record, Go, Stopped
<1>7. CASE RecordFails(c)
  BY <1>7 DEF RecordFails, Fail, Idle
<1>8. CASE ViewReturns(c)
  BY <1>8 DEF ViewReturns, Go, Idle, captures
<1>9. CASE Register(c)
  BY <1>9 DEF Register, Go, captures
<1>10. CASE Take(c)
  BY <1>10 DEF Take, Clear, Go, captures
<1>11. CASE Answer(c)
  BY <1>11 DEF Answer, Clear, Go, captures
<1>12. CASE Serialize(c)
  BY <1>12 DEF Serialize, Idle, captures
<1>13. CASE Reject(c)
  BY <1>13 DEF Reject, Go, captures
<1>14. CASE Untrack(c)
  BY <1>14 DEF Untrack, Go, captures
<1>15. CASE CloseView(c)
  BY <1>15 DEF CloseView, Go, captures
<1>16. CASE Forget(c)
  <2>1. pc[c] = "forget" /\ UNCHANGED evidence
    BY <1>16 DEF Forget
  <2>2. CASE records' = records \ {at[c]} /\ Go(c, "wipe") /\ UNCHANGED at
    BY <2>1, <2>2 DEF Go
  <2>3. CASE UNCHANGED records /\ Idle(c)
    BY <2>1, <2>3 DEF Idle
  <2> QED BY <1>16, <2>2, <2>3 DEF Forget
<1>17. CASE WipeCapture(c)
  BY <1>17 DEF WipeCapture, Idle
<1>18. CASE BeginAnalysis(c)
  BY <1>18 DEF BeginAnalysis, Go, captures
<1>19. CASE AnalysisFails(c)
  BY <1>19 DEF AnalysisFails, EndAnalysis, Idle, Stopped, captures
<1>20. CASE Acquire(c)
  BY <1>20 DEF Acquire, Go
<1>21. CASE Copied(c)
  <2>1. pc[c] = "copying" /\ UNCHANGED <<records, evidence>>
    BY <1>21 DEF Copied, server, images, bounds
  <2>2. CASE Idle(c)
    BY <2>1, <2>2 DEF Idle
  <2>3. CASE UNCHANGED at /\ \E w \in {"worker", "detecting"} : Go(c, w)
    BY <2>1, <2>3 DEF Go
  <2> QED BY <1>21, <2>2, <2>3 DEF Copied, EndAnalysis
<1>22. CASE TakeWorker(c)
  BY <1>22 DEF TakeWorker, Go, captures
<1>23. CASE Publish(c)
  BY <1>23 DEF Publish, Go, Results
<1>24. CASE Unpublished(c)
  BY <1>24 DEF Unpublished, Idle, captures
<1>25. CASE AnalysisAnswers(c)
  <2>1. /\ pc[c] = "published" /\ UNCHANGED records
        /\ pc' = [pc EXCEPT ![c] = "idle"] /\ at' = [at EXCEPT ![c] = 0]
    BY <1>25 DEF AnalysisAnswers, EndAnalysis, Idle
  <2>2. \A v \in Views : evidence'[v] # {} => evidence[v] # {}
    BY <1>25 DEF AnalysisAnswers
  <2> QED BY <2>1, <2>2
<1> QED BY <1>1, <1>2, <1>3, <1>4, <1>5, <1>6, <1>7, <1>8, <1>9, <1>10, <1>11,
    <1>12, <1>13, <1>14, <1>15, <1>16, <1>17, <1>18, <1>19, <1>20, <1>21,
    <1>22, <1>23, <1>24, <1>25 DEF CallStep

(* Evidence belongs to a record, after a step of Server.Close.                 *)
LEMMA ExtractsByClose ==
  ASSUME Shape, Extracts, NEW k \in Closers, Close(k) \/ CloseStep(k)
  PROVE  Extracts'
<1> USE AgentViewsAssumption DEF Shape, ControlShape, PixelShape, Extracts,
    With, Procs, Views
<1>1. CASE Close(k)
  BY <1>1 DEF Close, Go, captures
<1>2. CASE CloseAdapter(k)
  BY <1>2 DEF CloseAdapter, Go, captures
<1>3. CASE CloseSession(k)
  BY <1>3 DEF CloseSession, Go, captures
<1>4. CASE CloseEnters(k)
  BY <1>4 DEF CloseEnters, Go, captures
<1>5. CASE CloseObservations(k)
  BY <1>5 DEF CloseObservations, Go
<1>6. CASE CloseEnds(k)
  BY <1>6 DEF CloseEnds, Go, captures
<1>7. CASE ClearContent(k) \/ CloseViews(k)
  <2>1. UNCHANGED <<records, evidence, pc, at>>
    BY <1>7 DEF ClearContent, Clear, captures, control, CloseViews
  <2> QED BY <2>1
<1> QED BY <1>1, <1>2, <1>3, <1>4, <1>5, <1>6, <1>7 DEF CloseStep

(* Evidence belongs to a record, after a request, the end of a context, or     *)
(* a native worker.                                                            *)
LEMMA ExtractsByOther ==
  ASSUME Shape, Extracts, Others
  PROVE  Extracts'
<1> USE AgentViewsAssumption DEF Shape, ControlShape, PixelShape, Extracts,
    With, Procs, Views
<1>1. ASSUME NEW c \in Callers, Requests(c)
      PROVE  Extracts'
  <2>1. UNCHANGED <<records, evidence>>
    BY <1>1 DEF Requests, Ask, AskRelease, Cancel, TimeOut, captures
  <2>2. CASE /\ pc[c] = "idle"
             /\ \E v, w : (pc' = [pc EXCEPT ![c] = w] /\ at' = [at EXCEPT ![c] = v])
    <3>1. \A d \in Callers : pc[d] = "wipe" => pc'[d] = "wipe" /\ at'[d] = at[d]
      BY <2>2
    <3>2. \A v \in Views : (\E d \in Callers : at[d] = v /\ pc[d] \in {"wipe"})
               => \E d \in Callers : at'[d] = v /\ pc'[d] \in {"wipe"}
      BY <3>1
    <3> QED BY <2>1, <3>2
  <2>3. CASE UNCHANGED <<pc, at>>
    BY <2>1, <2>3
  <2> QED
    BY <1>1, <2>2, <2>3 DEF Requests, Ask, AskRelease, Cancel, TimeOut, Go, control
<1>2. CASE Background
  <2>1. UNCHANGED <<records, evidence, pc, at>>
    BY <1>2 DEF Background, Native, ReadBegins, Late, Stopped, captures,
        control, DropLate, DropBoxes, ReadReturns, AnalysisReturns
  <2> QED BY <2>1
<1> QED BY <1>1, <1>2 DEF Others

(* Copied pixels belong to a call that works, after a step of a call.          *)
LEMMA CroppedByCall ==
  ASSUME Shape, Cropped, NEW c \in Callers, CallStep(c)
  PROVE  Cropped'
<1> USE AgentViewsAssumption DEF Shape, ControlShape, PixelShape, Cropped,
    Procs, Working
<1>1. CASE Refuse(c)
  BY <1>1 DEF Refuse, Idle, Stopped
<1>2. CASE BeginView(c)
  BY <1>2 DEF BeginView, Go
<1>3. CASE TakeSlot(c)
  BY <1>3 DEF TakeSlot, Go
<1>4. CASE Abandon(c)
  BY <1>4 DEF Abandon, Fail, Idle, Stopped
<1>5. CASE Receive(c)
  BY <1>5 DEF Receive, Fail, Go, Idle, Stopped
<1>6. CASE Record(c)
  BY <1>6 DEF Record, Go, Stopped
<1>7. CASE RecordFails(c)
  BY <1>7 DEF RecordFails, Fail, Idle
<1>8. CASE ViewReturns(c)
  BY <1>8 DEF ViewReturns, Go, Idle
<1>9. CASE Register(c)
  BY <1>9 DEF Register, Go
<1>10. CASE Take(c)
  BY <1>10 DEF Take, Clear, Go
<1>11. CASE Answer(c)
  BY <1>11 DEF Answer, Clear, Go
<1>12. CASE Serialize(c)
  BY <1>12 DEF Serialize, Idle
<1>13. CASE Reject(c)
  BY <1>13 DEF Reject, Go
<1>14. CASE Untrack(c)
  BY <1>14 DEF Untrack, Go
<1>15. CASE CloseView(c)
  BY <1>15 DEF CloseView, Go
<1>16. CASE Forget(c)
  BY <1>16 DEF Forget, Go, Idle
<1>17. CASE WipeCapture(c)
  BY <1>17 DEF WipeCapture, Idle
<1>18. CASE BeginAnalysis(c)
  BY <1>18 DEF BeginAnalysis, Go
<1>19. CASE AnalysisFails(c)
  BY <1>19 DEF AnalysisFails, EndAnalysis, Idle, Stopped
<1>20. CASE Acquire(c)
  BY <1>20 DEF Acquire, Go
<1>21. CASE Copied(c)
  BY <1>21 DEF Copied, EndAnalysis, Go, Idle, Stopped
<1>22. CASE TakeWorker(c)
  <2>1. CASE call[c] = "ocr"
    BY <1>22, <2>1 DEF TakeWorker, Go
  <2>2. CASE call[c] # "ocr"
    BY <1>22, <2>2 DEF TakeWorker, Go
  <2> QED BY <2>1, <2>2
<1>23. CASE Publish(c)
  BY <1>23 DEF Publish, Go, Results
<1>24. CASE Unpublished(c)
  BY <1>24 DEF Unpublished, Idle
<1>25. CASE AnalysisAnswers(c)
  BY <1>25 DEF AnalysisAnswers, EndAnalysis, Idle
<1> QED BY <1>1, <1>2, <1>3, <1>4, <1>5, <1>6, <1>7, <1>8, <1>9, <1>10, <1>11,
    <1>12, <1>13, <1>14, <1>15, <1>16, <1>17, <1>18, <1>19, <1>20, <1>21,
    <1>22, <1>23, <1>24, <1>25 DEF CallStep

(* Copied pixels belong to a call that works, after a step of Server.Close.    *)
LEMMA CroppedByClose ==
  ASSUME Shape, Cropped, NEW k \in Closers, Close(k) \/ CloseStep(k)
  PROVE  Cropped'
<1> USE AgentViewsAssumption DEF Shape, ControlShape, PixelShape, Cropped,
    Procs, Working
<1>1. CASE Close(k)
  BY <1>1 DEF Close, Go
<1>2. CASE CloseAdapter(k)
  BY <1>2 DEF CloseAdapter, Go
<1>3. CASE CloseSession(k)
  BY <1>3 DEF CloseSession, Go
<1>4. CASE CloseEnters(k)
  BY <1>4 DEF CloseEnters, Go
<1>5. CASE CloseObservations(k)
  BY <1>5 DEF CloseObservations, Go
<1>6. CASE CloseEnds(k)
  BY <1>6 DEF CloseEnds, Go
<1>7. CASE ClearContent(k) \/ CloseViews(k)
  <2>1. UNCHANGED <<pc, call, crop>>
    BY <1>7 DEF ClearContent, Clear, control, CloseViews
  <2> QED BY <2>1
<1> QED BY <1>1, <1>2, <1>3, <1>4, <1>5, <1>6, <1>7 DEF CloseStep

(* Copied pixels belong to a call that works, after a request, the end of a    *)
(* context, or a native worker.                                                *)
LEMMA CroppedByOther ==
  ASSUME Shape, Cropped, Others
  PROVE  Cropped'
<1> USE AgentViewsAssumption DEF Shape, ControlShape, PixelShape, Cropped,
    Procs, Working
<1>1. ASSUME NEW c \in Callers, Requests(c)
      PROVE  Cropped'
  BY <1>1 DEF Requests, Ask, Go, AskRelease, Cancel, control, TimeOut
<1>2. CASE Background
  <2>1. UNCHANGED <<pc, call, crop>>
    BY <1>2 DEF Background, Native, ReadBegins, Late, Stopped, control,
        DropLate, DropBoxes, ReadReturns, AnalysisReturns
  <2> QED BY <2>1
<1> QED BY <1>1, <1>2 DEF Others

(* The session's books stay empty after a sweep, after a step of a call.       *)
LEMMA SweepingByCall ==
  ASSUME Shape, Gated, Sweeping, NEW c \in Callers, CallStep(c)
  PROVE  Sweeping'
<1> USE AgentViewsAssumption DEF Shape, ControlShape, PixelShape, Sweeping,
    Working, Procs, Views
<1>1. CASE Refuse(c)
  BY <1>1 DEF Refuse, Idle, Stopped, session, server, captures, images, bounds
<1>2. CASE BeginView(c)
  BY <1>2 DEF BeginView, Go, server, captures, images, bounds
<1>3. CASE TakeSlot(c)
  BY <1>3 DEF TakeSlot, Go, session, server, captures, images, bounds
<1>4. CASE Abandon(c)
  BY <1>4 DEF Abandon, Fail, Idle, Stopped, server, images, bounds
<1>5. CASE Receive(c)
  BY <1>5 DEF Receive, Fail, Go, Idle, Stopped, server, images, bounds
<1>6. CASE Record(c)
  BY <1>6 DEF Record, Go, Stopped, session, server, bounds
<1>7. CASE RecordFails(c)
  BY <1>7 DEF RecordFails, Fail, Idle, server, images, bounds
<1>8. CASE ViewReturns(c)
  BY <1>8 DEF ViewReturns, Go, Idle, server, captures, images, bounds
<1>9. CASE Register(c)
  BY <1>9 DEF Register, Go, session, server, captures, bounds
<1>10. CASE Take(c)
  BY <1>10 DEF Take, Clear, Go, session, server, captures, bounds
<1>11. CASE Answer(c)
  BY <1>11 DEF Answer, Clear, Go, session, server, captures, bounds
<1>12. CASE Serialize(c)
  BY <1>12 DEF Serialize, Idle, session, server, captures, bounds
<1>13. CASE Reject(c)
  BY <1>13 DEF Reject, Go, session, server, captures, bounds
<1>14. CASE Untrack(c)
  BY <1>14 DEF Untrack, Go, session, server, captures, bounds
<1>15. CASE CloseView(c)
  BY <1>15 DEF CloseView, Go, session, server, captures, bounds
<1>16. CASE Forget(c)
  BY <1>16 DEF Forget, Go, Idle, session, server, images, bounds
<1>17. CASE WipeCapture(c)
  BY <1>17 DEF WipeCapture, Idle, session, server, images, bounds
<1>18. CASE BeginAnalysis(c)
  BY <1>18 DEF BeginAnalysis, Go, server, captures, images
<1>19. CASE AnalysisFails(c)
  BY <1>19 DEF AnalysisFails, EndAnalysis, Idle, Stopped, server, captures,
      images, bounds
<1>20. CASE Acquire(c)
  BY <1>20 DEF Acquire, Go, session, server, images, bounds
<1>21. CASE Copied(c)
  <2>1. pc[c] = "copying" /\ UNCHANGED <<swept, cancelled, records, tracked, closeDone, closes>>
    BY <1>21 DEF Copied, server, images, bounds
  <2>2. CASE Idle(c)
    BY <2>1, <2>2 DEF Idle
  <2>3. CASE UNCHANGED at /\ \E w \in {"worker", "detecting"} : Go(c, w)
    BY <2>1, <2>3 DEF Go
  <2> QED BY <1>21, <2>2, <2>3 DEF Copied, EndAnalysis
<1>22. CASE TakeWorker(c)
  BY <1>22 DEF TakeWorker, Go, session, server, captures, images, bounds
<1>23. CASE Publish(c)
  BY <1>23 DEF Publish, Go, Results, session, server, images, bounds
<1>24. CASE Unpublished(c)
  BY <1>24 DEF Unpublished, Idle, server, captures, images, bounds
<1>25. CASE AnalysisAnswers(c)
  BY <1>25 DEF AnalysisAnswers, EndAnalysis, Idle, server, images, bounds
<1> QED BY <1>1, <1>2, <1>3, <1>4, <1>5, <1>6, <1>7, <1>8, <1>9, <1>10, <1>11,
    <1>12, <1>13, <1>14, <1>15, <1>16, <1>17, <1>18, <1>19, <1>20, <1>21,
    <1>22, <1>23, <1>24, <1>25 DEF CallStep

(* The session's books stay empty after a sweep, after a step of               *)
(* Server.Close.                                                               *)
LEMMA SweepingByClose ==
  ASSUME Shape, Gated, Sweeping, NEW k \in Closers, Close(k) \/ CloseStep(k)
  PROVE  Sweeping'
<1> USE AgentViewsAssumption DEF Shape, ControlShape, PixelShape, Sweeping,
    Working, Procs, Views
<1>1. CASE Close(k)
  BY <1>1 DEF Close, Go, session, captures
<1>2. CASE CloseAdapter(k)
  BY <1>2 DEF CloseAdapter, Go, session, captures, images, bounds
<1>3. CASE CloseSession(k)
  BY <1>3 DEF CloseSession, Go, captures, images, bounds
<1>4. CASE CloseEnters(k)
  BY <1>4 DEF CloseEnters, Go, server, captures, bounds
<1>5. CASE CloseObservations(k)
  <2>1. \A c \in Callers : pc[c] \notin Working
    BY <1>5 DEF CloseObservations, Gated
  <2>2. pc' = [pc EXCEPT ![k] = "inputs"] /\ pc[k] = "views"
    BY <1>5 DEF CloseObservations, Go
  <2>3. /\ swept' = TRUE /\ records' = {}
        /\ UNCHANGED <<cancelled, tracked, closeDone, closes>>
    BY <1>5 DEF CloseObservations, server, images, bounds
  <2> QED BY <2>1, <2>2, <2>3
<1>6. CASE CloseEnds(k)
  BY <1>6 DEF CloseEnds, Go, session, captures, images, bounds
<1>7. CASE ClearContent(k) \/ CloseViews(k)
  <2>1. UNCHANGED <<cancelled, swept, closeDone, records, tracked, pc, closes>>
    BY <1>7 DEF ClearContent, Clear, session, server, captures, control,
        bounds, CloseViews
  <2> QED BY <2>1
<1> QED BY <1>1, <1>2, <1>3, <1>4, <1>5, <1>6, <1>7 DEF CloseStep

(* The session's books stay empty after a sweep, after a request, the end      *)
(* of a context, or a native worker.                                           *)
LEMMA SweepingByOther ==
  ASSUME Shape, Gated, Sweeping, Others
  PROVE  Sweeping'
<1> USE AgentViewsAssumption DEF Shape, ControlShape, PixelShape, Sweeping,
    Working, Procs, Views
<1>1. ASSUME NEW c \in Callers, Requests(c)
      PROVE  Sweeping'
  BY <1>1 DEF Requests, Ask, Go, session, server, captures, images, bounds,
      AskRelease, Cancel, control, TimeOut
<1>2. CASE Background
  <2>1. UNCHANGED <<cancelled, swept, closeDone, records, tracked, pc, closes>>
    BY <1>2 DEF Background, Native, ReadBegins, Late, Stopped, session, server,
        captures, images, control, bounds, DropLate, DropBoxes, ReadReturns,
        AnalysisReturns
  <2> QED BY <2>1
<1> QED BY <1>1, <1>2 DEF Others
-----------------------------------------------------------------------------
(* Nothing has been read at the start.                                         *)
LEMMA InitInv == Init => Inv
<1> SUFFICES ASSUME Init PROVE Inv
  OBVIOUS
<1> USE AgentViewsAssumption DEF Init, Procs, Views
<1>1. Shape
  BY DEF Shape, ControlShape, PixelShape
<1>2. Gated /\ Reading
  BY DEF Gated, Reading, Working
<1>3. Owned
  BY DEF Owned, ViewsOwned, ResponsesOwned, CapturesOwned, ReadersOwned
<1>4. Numbered
  BY DEF Numbered, Taking
<1>5. Responses
  BY DEF Responses, Flags, Opened, Filled
<1>6. Extracts /\ Cropped
  BY DEF Extracts, Cropped
<1>7. Sweeping
  BY DEF Sweeping, Working
<1> QED BY <1>1, <1>2, <1>3, <1>4, <1>5, <1>6, <1>7 DEF Inv

(* No step of a call breaks the invariant, ...                                 *)
LEMMA InvByCall ==
  ASSUME Inv, NEW c \in Callers, CallStep(c)
  PROVE  Inv'
BY ControlShapeByCall, PixelShapeByCall, GatedByCall, ReadingByCall,
    ViewsOwnedByCall, ResponsesOwnedByCall, CapturesOwnedByCall,
    ReadersOwnedByCall, NumberedByCall, FlagsByCall, OpenedByCall,
    FilledByCall, ExtractsByCall, CroppedByCall, SweepingByCall DEF Inv, Shape,
    Owned, Responses

(* ... nor one of Server.Close,                                                *)
LEMMA InvByClose ==
  ASSUME Inv, NEW k \in Closers, Close(k) \/ CloseStep(k)
  PROVE  Inv'
BY ControlShapeByClose, PixelShapeByClose, GatedByClose, ReadingByClose,
    ViewsOwnedByClose, ResponsesOwnedByClose, CapturesOwnedByClose,
    ReadersOwnedByClose, NumberedByClose, FlagsByClose, OpenedByClose,
    FilledByClose, ExtractsByClose, CroppedByClose, SweepingByClose DEF Inv,
    Shape, Owned, Responses

(* ... nor any other.                                                          *)
LEMMA InvByOther ==
  ASSUME Inv, Others
  PROVE  Inv'
BY ControlShapeByOther, PixelShapeByOther, GatedByOther, ReadingByOther,
    ViewsOwnedByOther, ResponsesOwnedByOther, CapturesOwnedByOther,
    ReadersOwnedByOther, NumberedByOther, FlagsByOther, OpenedByOther,
    FilledByOther, ExtractsByOther, CroppedByOther, SweepingByOther DEF Inv,
    Shape, Owned, Responses

(* Every step is one of the three kinds.                                       *)
LEMMA Kinds ==
  ASSUME Next
  PROVE  \/ \E c \in Callers : CallStep(c)
         \/ \E k \in Closers : Close(k) \/ CloseStep(k)
         \/ Others
BY DEF Next, Others, Requests, Background

(* The invariant holds whatever the callers and the closers do.                *)
LEMMA InvHolds == Spec => []Inv
<1>1. Inv /\ [Next]_vars => Inv'
  <2> SUFFICES ASSUME Inv, [Next]_vars PROVE Inv'
    OBVIOUS
  <2>1. CASE Next
    BY <2>1, Kinds, InvByCall, InvByClose, InvByOther
  <2>2. CASE UNCHANGED vars
    <3>1. Shape' /\ Gated' /\ Reading' /\ Numbered'
      BY <2>2 DEF vars, session, captures, images, control, bounds, Inv, Shape,
          ControlShape, PixelShape, Gated, Reading, Numbered
    <3>2. Owned' /\ Responses'
      BY <2>2 DEF vars, captures, images, control, bounds, server, Inv, Owned,
          ViewsOwned, ResponsesOwned, CapturesOwned, ReadersOwned, With, Doomed,
          Responses, Flags, Opened, Filled
    <3>3. Extracts' /\ Cropped'
      BY <2>2 DEF vars, captures, control, Inv, Extracts, Cropped, With
    <3>4. Sweeping'
      BY <2>2 DEF vars, session, server, captures, images, control, bounds, Inv,
          Sweeping
    <3> QED BY <3>1, <3>2, <3>3, <3>4 DEF Inv
  <2> QED BY <2>1, <2>2
<1> QED
  BY <1>1, InitInv, PTL DEF Spec

(* Live pixels have somebody who wipes them at every moment, whatever fails,   *)
(* is cancelled, released or closed (agent/view.go, observation.go,            *)
(* mcpserver/server.go).                                                       *)
THEOREM PixelsAreOwned == Spec => []Owned
<1>1. Inv => Owned
  BY DEF Inv
<1> QED
  BY <1>1, InvHolds, PTL

(* When Server.Close has returned nothing is left in the session or in a       *)
(* response that a release is not about to wipe.                               *)
THEOREM NothingIsLeft == Spec => []NothingLeft
<1>1. Inv => NothingLeft
  <2> SUFFICES ASSUME Inv, Closed PROVE NothingLeft
    BY DEF NothingLeft
  <2>1. swept /\ imagesClosed
    BY DEF Inv, Closed, Sweeping, Responses, Flags
  <2>2. /\ records = {} /\ tracked = {} /\ pending = {}
        /\ \A c \in Callers : pc[c] \notin Working
    BY <2>1 DEF Inv, Sweeping, Responses, Flags
  <2>3. \A v \in Views : ~Doomed(v, {"views"}) /\ ~Doomed(v, {"contents"})
    BY DEF Closed, Doomed
  <2>4. \A v \in Views : png[v] \in {"view", "content"} => With(v, {"close view"})
    BY <2>2, <2>3 DEF Inv, Owned, ViewsOwned, ResponsesOwned
  <2>5. \A v \in Views : buffer[v] = "live" => With(v, {"wipe"})
    BY <2>2 DEF Inv, Owned, CapturesOwned, With, Working
  <2>6. \A v \in Views : evidence[v] # {} => With(v, {"wipe"})
    BY <2>2 DEF Inv, Extracts
  <2>7. \A c \in Callers : ~crop[c]
    BY <2>2 DEF Inv, Cropped, Working
  <2> QED BY <2>4, <2>5, <2>6, <2>7 DEF NothingLeft
<1> QED
  BY <1>1, InvHolds, PTL

(* Only the serialization of a response sends an image.                        *)
LEMMA OnlySerialize ==
  ASSUME Shape, Next, NEW v \in Views, png'[v] = "sent", png[v] # "sent"
  PROVE  \E c \in Callers : Serialize(c)
<1> USE DEF Shape, PixelShape
<1>1. ASSUME NEW c \in Callers, CallStep(c)
      PROVE  Serialize(c)
  BY <1>1 DEF CallStep, Refuse, BeginView, TakeSlot, Abandon, Receive, Record,
      RecordFails, ViewReturns, Register, Take, Clear, Answer, Reject, Untrack,
      CloseView, Forget, WipeCapture, BeginAnalysis, AnalysisFails, Acquire,
      Copied, TakeWorker, Publish, Unpublished, AnalysisAnswers, images
<1>2. ~\E k \in Closers : Close(k) \/ CloseStep(k)
  BY DEF Close, CloseStep, ClearContent, Clear, CloseAdapter, CloseSession,
      CloseEnters, CloseViews, CloseObservations, CloseEnds, images
<1>3. ~Others
  BY DEF Others, Requests, Background, Ask, AskRelease, Cancel, TimeOut,
      ReadBegins, DropLate, DropBoxes, Native, ReadReturns, AnalysisReturns, images
<1> QED BY <1>1, <1>2, <1>3, Kinds

(* An image leaves through one response, from its content, and none after      *)
(* Server.Close has returned.                                                  *)
THEOREM SentOnTime == Spec => SentInTime
<1>1. Inv /\ [Next]_vars => [\A v \in Views :
         png'[v] = "sent" /\ png[v] # "sent" => png[v] = "content" /\ ~Closed]_vars
  <2> SUFFICES ASSUME Inv, Next, NEW v \in Views, png'[v] = "sent", png[v] # "sent"
               PROVE  png[v] = "content" /\ ~Closed
    OBVIOUS
  <2>1. PICK c \in Callers : Serialize(c)
    BY OnlySerialize DEF Inv
  <2>2. pc[c] = "responding" /\ content[at[c]] = "open" /\ v = at[c]
    BY <2>1 DEF Serialize, Inv, Shape, PixelShape
  <2>3. png[v] = "content"
    BY <2>2 DEF Inv, Responses, Filled
  <2>4. v \in pending \/ Doomed(v, {"contents"})
    BY <2>2 DEF Inv, Responses, Opened
  <2>5. ~Closed
    BY <2>4 DEF Inv, Responses, Flags, Closed, Doomed
  <2> QED BY <2>3, <2>5
<1> QED
  BY <1>1, InvHolds, PTL DEF Spec, SentInTime
-----------------------------------------------------------------------------
(* A call that takes a view has one.                                           *)
LEMMA Viewed ==
  ASSUME Inv, TypeOK, NEW c \in Callers,
         pc[c] \in {"captured", "recorded", "returned", "responding"}
  PROVE  at[c] \in Views
<1>1. at[c] > 0 /\ at[c] \in Nat
  BY DEF Inv, Numbered, Taking, Shape, ControlShape
<1>2. at[c] \in Views \cup {0}
  BY DEF TypeOK, TypeControl
<1> QED BY <1>1, <1>2

(* The points of the calls and the locks keep their types after a step of a    *)
(* call.                                                                       *)
LEMMA TypeControlByCall ==
  ASSUME Inv, TypeOK, NEW c \in Callers, CallStep(c)
  PROVE  TypeControl'
<1> USE AgentViewsAssumption DEF TypeOK, TypeControl, TypeBooks, Procs, Working, Views
<1>1. CASE Refuse(c)
BY <1>1 DEF Refuse, Idle, session, server
<1>2. CASE BeginView(c)
  <2>1. taken + 1 \in Views
    <3>1. taken < MaxViews
      BY <1>2 DEF BeginView
    <3>2. taken \in 0..MaxViews /\ MaxViews \in Nat
      OBVIOUS
    <3> HIDE DEF TypeOK, TypeControl, TypeBooks
    <3> QED BY <3>1, <3>2
  <2> QED BY <1>2, <2>1 DEF BeginView, Go, server
<1>3. CASE TakeSlot(c)
BY <1>3 DEF TakeSlot, Go, session, server, control
<1>4. CASE Abandon(c)
BY <1>4 DEF Abandon, Fail, Idle, server
<1>5. CASE Receive(c)
  <2>1. UNCHANGED closeMu /\ gate' \in {gate, Nobody}
    BY <1>5 DEF Receive, Fail, server
  <2>2. \/ Idle(c)
        \/ UNCHANGED <<call, at>> /\ \E w \in {"image", "captured"} : Go(c, w)
    BY <1>5 DEF Receive, Fail
  <2> QED BY <2>1, <2>2 DEF Idle, Go
<1>6. CASE Record(c)
BY <1>6 DEF Record, Go, session, server, control
<1>7. CASE RecordFails(c)
BY <1>7 DEF RecordFails, Fail, Idle, server
<1>8. CASE ViewReturns(c)
BY <1>8 DEF ViewReturns, Go, Idle, server
<1>9. CASE Register(c)
BY <1>9 DEF Register, Go, session, server, control
<1>10. CASE Take(c)
BY <1>10 DEF Take, Clear, Go, session, server, control
<1>11. CASE Answer(c)
BY <1>11 DEF Answer, Clear, Go, session, server, control
<1>12. CASE Serialize(c)
BY <1>12 DEF Serialize, Idle, session, server
<1>13. CASE Reject(c)
BY <1>13 DEF Reject, Go, session, server, control
<1>14. CASE Untrack(c)
BY <1>14 DEF Untrack, Go, session, server, control
<1>15. CASE CloseView(c)
BY <1>15 DEF CloseView, Go, session, server, control
<1>16. CASE Forget(c)
BY <1>16 DEF Forget, Go, Idle, session, server
<1>17. CASE WipeCapture(c)
BY <1>17 DEF WipeCapture, Idle, session, server
<1>18. CASE BeginAnalysis(c)
BY <1>18 DEF BeginAnalysis, Go, server, control
<1>19. CASE AnalysisFails(c)
BY <1>19 DEF AnalysisFails, EndAnalysis, Idle, server
<1>20. CASE Acquire(c)
BY <1>20 DEF Acquire, Go, session, server, control
<1>21. CASE Copied(c)
BY <1>21 DEF Copied, EndAnalysis, Go, Idle, server
<1>22. CASE TakeWorker(c)
BY <1>22 DEF TakeWorker, Go, session, server, control
<1>23. CASE Publish(c)
BY <1>23 DEF Publish, Results, Go, session, server, control
<1>24. CASE Unpublished(c)
BY <1>24 DEF Unpublished, Idle, server
<1>25. CASE AnalysisAnswers(c)
BY <1>25 DEF AnalysisAnswers, EndAnalysis, Idle, server
<1> QED BY <1>1, <1>2, <1>3, <1>4, <1>5, <1>6, <1>7, <1>8, <1>9, <1>10, <1>11, <1>12,
       <1>13, <1>14, <1>15, <1>16, <1>17, <1>18, <1>19, <1>20, <1>21, <1>22, <1>23,
       <1>24, <1>25 DEF CallStep

(* The points of the calls and the locks keep their types after a step of      *)
(* Server.Close.                                                               *)
LEMMA TypeControlByClose ==
  ASSUME Inv, TypeOK, NEW k \in Closers, Close(k) \/ CloseStep(k)
  PROVE  TypeControl'
<1> USE AgentViewsAssumption DEF TypeOK, TypeControl, TypeBooks, Procs, Working, Views
<1>1. CASE Close(k)
BY <1>1 DEF Close, Go, session, server, control
<1>2. CASE CloseAdapter(k)
BY <1>2 DEF CloseAdapter, Go, session, server, control
<1>3. CASE CloseSession(k)
BY <1>3 DEF CloseSession, Go, session, control
<1>4. CASE CloseEnters(k)
BY <1>4 DEF CloseEnters, Go, server, control
<1>5. CASE CloseObservations(k)
BY <1>5 DEF CloseObservations, Go, server, control
<1>6. CASE CloseEnds(k)
BY <1>6 DEF CloseEnds, Go, session, control
<1>7. CASE ClearContent(k) \/ CloseViews(k)
  <2>1. UNCHANGED <<pc, call, at, gate, closeMu>>
BY <1>7 DEF ClearContent, Clear, CloseViews, session, server, control
  <2> QED BY <2>1
<1> QED BY <1>1, <1>2, <1>3, <1>4, <1>5, <1>6, <1>7 DEF CloseStep

(* The points of the calls and the locks keep their types after a request, the *)
(* end of a context, or a native worker.                                       *)
LEMMA TypeControlByOther ==
  ASSUME Inv, TypeOK, Others
  PROVE  TypeControl'
<1> USE AgentViewsAssumption DEF TypeOK, TypeControl, TypeBooks, Procs, Working, Views
<1>1. ASSUME NEW c \in Callers, Requests(c)
      PROVE  TypeControl'
  <2>1. UNCHANGED <<gate, closeMu>>
    BY <1>1 DEF Requests, Ask, AskRelease, Cancel, TimeOut, session, server
  <2>2. \/ UNCHANGED <<pc, call, at>>
        \/ \E v \in {0} \cup known, kind \in {"view", "ocr", "visual", "release"},
              w \in {"asking", "untrack"} :
             /\ pc' = [pc EXCEPT ![c] = w] /\ call' = [call EXCEPT ![c] = kind]
             /\ at' = [at EXCEPT ![c] = v]
    BY <1>1 DEF Requests, Ask, AskRelease, Cancel, TimeOut, Go, control
  <2>3. c \in Procs /\ {0} \cup known \subseteq Views \cup {0}
    OBVIOUS
  <2>4. CASE UNCHANGED <<pc, call, at>>
    BY <2>1, <2>4
  <2>5. ASSUME NEW v \in {0} \cup known, NEW kind \in {"view", "ocr", "visual", "release"},
               NEW w \in {"asking", "untrack"}, pc' = [pc EXCEPT ![c] = w],
               call' = [call EXCEPT ![c] = kind], at' = [at EXCEPT ![c] = v]
        PROVE  TypeControl'
    <3>1. v \in Views \cup {0}
      BY <2>3
    <3> QED BY <2>1, <2>5, <3>1
  <2> QED BY <2>2, <2>4, <2>5
<1>2. CASE Background
BY <1>2 DEF Background, Native, ReadBegins, DropLate, DropBoxes, ReadReturns,
     AnalysisReturns, session, server, control
<1> QED BY <1>1, <1>2 DEF Others

(* The flags keep their types after a step of a call.                          *)
LEMMA TypeFlagsByCall ==
  ASSUME Inv, TypeOK, NEW c \in Callers, CallStep(c)
  PROVE  TypeFlags'
<1> USE AgentViewsAssumption DEF TypeOK, TypeFlags
<1>1. CASE Refuse(c)
BY <1>1 DEF Refuse, Idle, session, server
<1>2. CASE Abandon(c)
BY <1>2 DEF Abandon, Fail, Idle, session, server
<1>3. CASE Receive(c)
  <2>1. UNCHANGED <<cancelled, swept, adapterClosed, imagesClosed, closeDone, crop>>
    BY <1>3 DEF Receive, server
  <2>2. UNCHANGED <<ended, gone>> \/ Idle(c)
    BY <1>3 DEF Receive, Fail, context
  <2> QED BY <2>1, <2>2 DEF Idle
<1>4. CASE RecordFails(c)
BY <1>4 DEF RecordFails, Fail, Idle, session, server
<1>5. CASE ViewReturns(c)
BY <1>5 DEF ViewReturns, Go, Idle, session, server
<1>6. CASE Serialize(c)
BY <1>6 DEF Serialize, Idle, session, server
<1>7. CASE Forget(c)
  <2>1. UNCHANGED <<cancelled, swept, adapterClosed, imagesClosed, closeDone, crop>>
    BY <1>7 DEF Forget, session, server
  <2>2. UNCHANGED <<ended, gone>> \/ Idle(c)
    BY <1>7 DEF Forget, context
  <2> QED BY <2>1, <2>2 DEF Idle
<1>8. CASE WipeCapture(c)
BY <1>8 DEF WipeCapture, Idle, session, server
<1>9. CASE AnalysisFails(c)
BY <1>9 DEF AnalysisFails, EndAnalysis, Idle, session, server
<1>10. CASE Copied(c)
  <2>1. /\ UNCHANGED <<cancelled, swept, adapterClosed, imagesClosed, closeDone>>
        /\ \E b \in BOOLEAN : crop' = [crop EXCEPT ![c] = b]
    BY <1>10 DEF Copied, EndAnalysis, server
  <2>2. UNCHANGED <<ended, gone>> \/ Idle(c)
    BY <1>10 DEF Copied, EndAnalysis, context
  <2> QED BY <2>1, <2>2 DEF Idle
<1>11. CASE TakeWorker(c)
BY <1>11 DEF TakeWorker, Go, session, server, context
<1>12. CASE Unpublished(c)
BY <1>12 DEF Unpublished, Idle, session, server
<1>13. CASE AnalysisAnswers(c)
BY <1>13 DEF AnalysisAnswers, EndAnalysis, Idle, session, server
<1>14. CASE BeginView(c) \/ TakeSlot(c) \/ Record(c) \/ Register(c) \/ Take(c) \/
       Answer(c) \/ Reject(c) \/ Untrack(c) \/ CloseView(c) \/ BeginAnalysis(c) \/
       Acquire(c) \/ Publish(c)
  <2>1. UNCHANGED <<cancelled, swept, adapterClosed, imagesClosed, closeDone, crop, ended, gone>>
BY <1>14 DEF BeginView, TakeSlot, Record, Register, Take, Clear, Answer, Reject,
       Untrack, CloseView, BeginAnalysis, Acquire, Publish, Results, session, server,
       context
  <2> QED BY <2>1
<1> QED BY <1>1, <1>2, <1>3, <1>4, <1>5, <1>6, <1>7, <1>8, <1>9, <1>10, <1>11, <1>12,
       <1>13, <1>14 DEF CallStep

(* The flags keep their types after a step of Server.Close.                    *)
LEMMA TypeFlagsByClose ==
  ASSUME Inv, TypeOK, NEW k \in Closers, Close(k) \/ CloseStep(k)
  PROVE  TypeFlags'
<1> USE AgentViewsAssumption DEF TypeOK, TypeFlags
<1>1. CASE Close(k)
BY <1>1 DEF Close, Go, session, server, context
<1>2. CASE CloseAdapter(k)
BY <1>2 DEF CloseAdapter, Go, session, server, context
<1>3. CASE CloseSession(k)
BY <1>3 DEF CloseSession, Go, session, server, context
<1>4. CASE CloseObservations(k)
BY <1>4 DEF CloseObservations, Go, session, server, context
<1>5. CASE CloseEnds(k)
BY <1>5 DEF CloseEnds, Go, session, server, context
<1>6. CASE ClearContent(k) \/ CloseEnters(k) \/ CloseViews(k)
  <2>1. UNCHANGED <<cancelled, swept, adapterClosed, imagesClosed, closeDone, crop, ended, gone>>
BY <1>6 DEF ClearContent, Clear, CloseEnters, CloseViews, session, server, context
  <2> QED BY <2>1
<1> QED BY <1>1, <1>2, <1>3, <1>4, <1>5, <1>6 DEF CloseStep

(* The flags keep their types after a request, the end of a context, or a      *)
(* native worker.                                                              *)
LEMMA TypeFlagsByOther ==
  ASSUME Inv, TypeOK, Others
  PROVE  TypeFlags'
<1> USE AgentViewsAssumption DEF TypeOK, TypeFlags
<1>1. ASSUME NEW c \in Callers, Requests(c)
      PROVE  TypeFlags'
BY <1>1 DEF Requests, Ask, AskRelease, Cancel, TimeOut, Go, session, server, context
<1>2. CASE Background
BY <1>2 DEF Background, Native, ReadBegins, DropLate, DropBoxes, ReadReturns,
     AnalysisReturns, session, server, context
<1> QED BY <1>1, <1>2 DEF Others

(* The workers keep their types after a step of a call.                        *)
LEMMA TypeWorkersByCall ==
  ASSUME Inv, TypeOK, NEW c \in Callers, CallStep(c)
  PROVE  TypeWorkers'
<1> USE AgentViewsAssumption DEF TypeOK, TypeWorkers, NoReader, NoAnalyst
<1>1. CASE TakeSlot(c)
BY <1>1 DEF TakeSlot, Go, workers
<1>2. CASE Receive(c)
BY <1>2 DEF Receive, Fail, Idle, Go, workers
<1>3. CASE AnalysisFails(c)
BY <1>3 DEF AnalysisFails, EndAnalysis, Idle, workers
<1>4. CASE Copied(c)
BY <1>4 DEF Copied, EndAnalysis, Go, Idle, workers
<1>5. CASE TakeWorker(c)
BY <1>5 DEF TakeWorker, Go, workers
<1>6. CASE Publish(c)
BY <1>6 DEF Publish, Results, Go, workers
<1>7. CASE Unpublished(c)
BY <1>7 DEF Unpublished, Idle, workers
<1>8. CASE AnalysisAnswers(c)
BY <1>8 DEF AnalysisAnswers, EndAnalysis, Idle, workers
<1>9. CASE Refuse(c) \/ BeginView(c) \/ Abandon(c) \/ Record(c) \/ RecordFails(c) \/
       ViewReturns(c) \/ Register(c) \/ Take(c) \/ Answer(c) \/ Serialize(c) \/
       Reject(c) \/ Untrack(c) \/ CloseView(c) \/ Forget(c) \/ WipeCapture(c) \/
       BeginAnalysis(c) \/ Acquire(c)
  <2>1. UNCHANGED <<reader, analyst>>
BY <1>9 DEF Refuse, Idle, BeginView, Abandon, Fail, Record, RecordFails, ViewReturns,
       Register, Take, Clear, Answer, Serialize, Reject, Untrack, CloseView, Forget,
       WipeCapture, BeginAnalysis, Acquire, workers
  <2> QED BY <2>1
<1> QED BY <1>1, <1>2, <1>3, <1>4, <1>5, <1>6, <1>7, <1>8, <1>9 DEF CallStep

(* The workers keep their types after a step of Server.Close.                  *)
LEMMA TypeWorkersByClose ==
  ASSUME Inv, TypeOK, NEW k \in Closers, Close(k) \/ CloseStep(k)
  PROVE  TypeWorkers'
<1> USE AgentViewsAssumption DEF TypeOK, TypeWorkers, NoReader, NoAnalyst
<1>1. CASE Close(k) \/ ClearContent(k) \/ CloseAdapter(k) \/ CloseSession(k) \/
       CloseEnters(k) \/ CloseViews(k) \/ CloseObservations(k) \/ CloseEnds(k)
  <2>1. UNCHANGED <<reader, analyst>>
BY <1>1 DEF Close, ClearContent, Clear, CloseAdapter, CloseSession, CloseEnters,
       CloseViews, CloseObservations, CloseEnds, workers
  <2> QED BY <2>1
<1> QED BY <1>1 DEF CloseStep

(* The workers keep their types after a request, the end of a context, or a    *)
(* native worker.                                                              *)
LEMMA TypeWorkersByOther ==
  ASSUME Inv, TypeOK, Others
  PROVE  TypeWorkers'
<1> USE AgentViewsAssumption DEF TypeOK, TypeWorkers, NoReader, NoAnalyst
<1>1. ASSUME NEW c \in Callers, Requests(c)
      PROVE  TypeWorkers'
BY <1>1 DEF Requests, Ask, AskRelease, Cancel, TimeOut, Go, workers
<1>2. CASE Background
BY <1>2 DEF Background, Native, ReadBegins, DropLate, DropBoxes, ReadReturns,
     AnalysisReturns, workers
<1> QED BY <1>1, <1>2 DEF Others

(* The pixels keep their types after a step of a call.                         *)
LEMMA TypePixelsByCall ==
  ASSUME Inv, TypeOK, NEW c \in Callers, CallStep(c)
  PROVE  TypePixels'
<1> USE AgentViewsAssumption DEF TypeOK, TypePixels
<1>1. CASE Abandon(c)
BY <1>1 DEF Abandon, Fail, Idle, captures, images
<1>2. CASE Receive(c)
BY <1>2 DEF Receive, Fail, Idle, Go, captures, images
<1>3. CASE Record(c)
BY <1>3 DEF Record, Go, captures, images
<1>4. CASE RecordFails(c)
BY <1>4 DEF RecordFails, Fail, Idle, captures, images
<1>5. CASE Register(c)
BY <1>5 DEF Register, Go, captures, images
<1>6. CASE Take(c)
BY <1>6 DEF Take, Clear, Go, captures
<1>7. CASE Answer(c)
BY <1>7 DEF Answer, Clear, Go, captures
<1>8. CASE Serialize(c)
BY <1>8 DEF Serialize, Idle, captures
<1>9. CASE Reject(c)
BY <1>9 DEF Reject, Go, captures, images
<1>10. CASE CloseView(c)
BY <1>10 DEF CloseView, Go, captures, images
<1>11. CASE WipeCapture(c)
BY <1>11 DEF WipeCapture, Idle, captures, images
<1>12. CASE Acquire(c)
BY <1>12 DEF Acquire, Go, captures, images
<1>13. CASE Copied(c)
BY <1>13 DEF Copied, EndAnalysis, Go, Idle, captures, images
<1>14. CASE Refuse(c) \/ BeginView(c) \/ TakeSlot(c) \/ ViewReturns(c) \/ Untrack(c)
       \/ Forget(c) \/ BeginAnalysis(c) \/ AnalysisFails(c) \/ TakeWorker(c) \/
       Publish(c) \/ Unpublished(c) \/ AnalysisAnswers(c)
  <2>1. UNCHANGED <<buffer, user, png, content>>
BY <1>14 DEF Refuse, Idle, BeginView, TakeSlot, ViewReturns, Untrack, Forget,
       BeginAnalysis, AnalysisFails, EndAnalysis, TakeWorker, Publish, Results,
       Unpublished, AnalysisAnswers, captures, images
  <2> QED BY <2>1
<1> QED BY <1>1, <1>2, <1>3, <1>4, <1>5, <1>6, <1>7, <1>8, <1>9, <1>10, <1>11, <1>12,
       <1>13, <1>14 DEF CallStep

(* The pixels keep their types after a step of Server.Close.                   *)
LEMMA TypePixelsByClose ==
  ASSUME Inv, TypeOK, NEW k \in Closers, Close(k) \/ CloseStep(k)
  PROVE  TypePixels'
<1> USE AgentViewsAssumption DEF TypeOK, TypePixels
<1>1. CASE ClearContent(k)
  <2>1. PICK v \in doomed[k] : Clear(v) /\ UNCHANGED <<buffer, user>>
    BY <1>1 DEF ClearContent, captures
  <2> QED BY <2>1 DEF Clear
<1>2. CASE CloseViews(k)
BY <1>2 DEF CloseViews, captures, images
<1>3. CASE CloseObservations(k)
BY <1>3 DEF CloseObservations, Go, captures, images
<1>4. CASE Close(k) \/ CloseAdapter(k) \/ CloseSession(k) \/ CloseEnters(k) \/
       CloseEnds(k)
  <2>1. UNCHANGED <<buffer, user, png, content>>
BY <1>4 DEF Close, CloseAdapter, CloseSession, CloseEnters, CloseEnds, captures,
       images
  <2> QED BY <2>1
<1> QED BY <1>1, <1>2, <1>3, <1>4 DEF CloseStep

(* The pixels keep their types after a request, the end of a context, or a     *)
(* native worker.                                                              *)
LEMMA TypePixelsByOther ==
  ASSUME Inv, TypeOK, Others
  PROVE  TypePixels'
<1> USE AgentViewsAssumption DEF TypeOK, TypePixels
<1>1. ASSUME NEW c \in Callers, Requests(c)
      PROVE  TypePixels'
BY <1>1 DEF Requests, Ask, AskRelease, Cancel, TimeOut, Go, captures, images
<1>2. CASE Background
BY <1>2 DEF Background, Native, ReadBegins, DropLate, DropBoxes, ReadReturns,
     AnalysisReturns, captures, images
<1> QED BY <1>1, <1>2 DEF Others

(* The books keep their types after a step of a call.                          *)
LEMMA TypeBooksByCall ==
  ASSUME Inv, TypeOK, NEW c \in Callers, CallStep(c)
  PROVE  TypeBooks'
<1> USE AgentViewsAssumption DEF TypeOK, TypeBooks, TypeControl, Views
<1>1. CASE BeginView(c)
  <2>1. /\ UNCHANGED <<tracked, records, pending, known, evidence, doomed, analyses, releases,
                       closes>>
        /\ taken < MaxViews /\ taken' = taken + 1
    BY <1>1 DEF BeginView, captures, images
  <2>2. taken' \in 0..MaxViews
    <3>1. taken \in 0..MaxViews /\ MaxViews \in Nat
      OBVIOUS
    <3> HIDE DEF TypeOK, TypeBooks
    <3> QED BY <2>1, <3>1
  <2> QED BY <2>1, <2>2
<1>2. CASE Record(c)
BY <1>2, Viewed DEF Record, Go, captures, images, bounds
<1>3. CASE ViewReturns(c)
BY <1>3, Viewed DEF ViewReturns, Go, Idle, captures, images, bounds
<1>4. CASE Register(c)
BY <1>4, Viewed DEF Register, Go, captures, images, bounds
<1>5. CASE Take(c)
BY <1>5 DEF Take, Clear, Go, captures, bounds
<1>6. CASE Answer(c)
BY <1>6 DEF Answer, Clear, Go, captures, images, bounds
<1>7. CASE Serialize(c)
BY <1>7, Viewed DEF Serialize, Idle, captures, images, bounds
<1>8. CASE Reject(c)
BY <1>8 DEF Reject, Go, captures, images, bounds
<1>9. CASE Untrack(c)
BY <1>9 DEF Untrack, Go, captures, images, bounds
<1>10. CASE Forget(c)
BY <1>10 DEF Forget, Go, Idle, captures, images, bounds
<1>11. CASE WipeCapture(c)
BY <1>11 DEF WipeCapture, Idle, captures, images, bounds
<1>12. CASE BeginAnalysis(c)
  <2>1. /\ UNCHANGED <<tracked, records, pending, known, evidence, doomed, taken, releases,
                       closes>>
        /\ analyses < MaxAnalyses /\ analyses' = analyses + 1
    BY <1>12 DEF BeginAnalysis, captures, images
  <2>2. analyses' \in 0..MaxAnalyses
    <3>1. analyses \in 0..MaxAnalyses /\ MaxAnalyses \in Nat
      OBVIOUS
    <3> HIDE DEF TypeOK, TypeBooks
    <3> QED BY <2>1, <3>1
  <2> QED BY <2>1, <2>2
<1>13. CASE Publish(c)
BY <1>13 DEF Publish, Results, Go, captures, images, bounds
<1>14. CASE AnalysisAnswers(c)
  <2>1. /\ UNCHANGED <<tracked, records, pending, known, doomed, taken, analyses, releases,
                       closes>>
        /\ \/ UNCHANGED evidence
           \/ evidence' = [evidence EXCEPT ![at[c]] = @ \ {c}]
    BY <1>14 DEF AnalysisAnswers, images, bounds
  <2>2. CASE evidence' = [evidence EXCEPT ![at[c]] = @ \ {c}]
    BY <2>1, <2>2
  <2>3. CASE UNCHANGED evidence
    BY <2>1, <2>3
  <2> QED BY <2>1, <2>2, <2>3
<1>15. CASE Refuse(c) \/ TakeSlot(c) \/ Abandon(c) \/ Receive(c) \/ RecordFails(c) \/
       CloseView(c) \/ AnalysisFails(c) \/ Acquire(c) \/ Copied(c) \/ TakeWorker(c) \/
       Unpublished(c)
  <2>1. UNCHANGED <<tracked, records, pending, known, evidence, doomed, taken, analyses,
                    releases, closes>>
BY <1>15 DEF Refuse, Idle, TakeSlot, Abandon, Fail, Receive, RecordFails, CloseView,
       AnalysisFails, EndAnalysis, Acquire, Copied, TakeWorker, Unpublished, captures,
       images, bounds
  <2> QED BY <2>1
<1> QED BY <1>1, <1>2, <1>3, <1>4, <1>5, <1>6, <1>7, <1>8, <1>9, <1>10, <1>11, <1>12,
       <1>13, <1>14, <1>15 DEF CallStep

(* The books keep their types after a step of Server.Close.                    *)
LEMMA TypeBooksByClose ==
  ASSUME Inv, TypeOK, NEW k \in Closers, Close(k) \/ CloseStep(k)
  PROVE  TypeBooks'
<1> USE AgentViewsAssumption DEF TypeOK, TypeBooks, TypeControl, Views
<1>1. CASE Close(k)
  <2>1. /\ UNCHANGED <<tracked, records, known, evidence, taken, analyses, releases>>
        /\ closes < MaxCloses /\ closes' = closes + 1
        /\ pending' = {} /\ doomed' = [doomed EXCEPT ![k] = pending]
    BY <1>1 DEF Close, captures
  <2>2. closes' \in 0..MaxCloses
    <3>1. closes \in 0..MaxCloses /\ MaxCloses \in Nat
      OBVIOUS
    <3> HIDE DEF TypeOK, TypeBooks
    <3> QED BY <2>1, <3>1
  <2> QED BY <2>1, <2>2
<1>2. CASE ClearContent(k)
  <2>1. /\ UNCHANGED <<tracked, records, known, evidence, taken, analyses, releases, closes>>
        /\ \E v \in doomed[k] : /\ pending' = pending \ {v}
                                /\ doomed' = [doomed EXCEPT ![k] = @ \ {v}]
    BY <1>2 DEF ClearContent, Clear, captures, bounds
  <2> QED BY <2>1
<1>3. CASE CloseEnters(k)
BY <1>3 DEF CloseEnters, Go, captures, images, bounds
<1>4. CASE CloseViews(k)
  <2>1. /\ UNCHANGED <<tracked, records, pending, known, evidence, taken, analyses, releases,
                       closes>>
        /\ \E v \in doomed[k] : doomed' = [doomed EXCEPT ![k] = @ \ {v}]
    BY <1>4 DEF CloseViews, captures, bounds
  <2> QED BY <2>1
<1>5. CASE CloseObservations(k)
BY <1>5 DEF CloseObservations, Go, images, bounds
<1>6. CASE CloseAdapter(k) \/ CloseSession(k) \/ CloseEnds(k)
  <2>1. UNCHANGED <<tracked, records, pending, known, evidence, doomed, taken, analyses,
                    releases, closes>>
BY <1>6 DEF CloseAdapter, CloseSession, CloseEnds, captures, images, bounds
  <2> QED BY <2>1
<1> QED BY <1>1, <1>2, <1>3, <1>4, <1>5, <1>6 DEF CloseStep

(* The books keep their types after a request, the end of a context, or a      *)
(* native worker.                                                              *)
LEMMA TypeBooksByOther ==
  ASSUME Inv, TypeOK, Others
  PROVE  TypeBooks'
<1> USE AgentViewsAssumption DEF TypeOK, TypeBooks, TypeControl, Views
<1>1. ASSUME NEW c \in Callers, Requests(c)
      PROVE  TypeBooks'
  <2>1. /\ UNCHANGED <<tracked, records, pending, known, evidence, doomed, taken, analyses,
                       closes>>
        /\ UNCHANGED releases \/ (releases < MaxReleases /\ releases' = releases + 1)
    BY <1>1 DEF Requests, Ask, AskRelease, Cancel, TimeOut, captures, images, bounds
  <2>2. releases' \in 0..MaxReleases
    <3>1. releases \in 0..MaxReleases /\ MaxReleases \in Nat
      OBVIOUS
    <3> HIDE DEF TypeOK, TypeBooks
    <3> QED BY <2>1, <3>1
  <2> QED BY <2>1, <2>2
<1>2. CASE Background
BY <1>2 DEF Background, Native, ReadBegins, DropLate, DropBoxes, ReadReturns,
     AnalysisReturns, captures, images, bounds
<1> QED BY <1>1, <1>2 DEF Others

(* Every state is well-typed: a view is numbered before anybody deals with it, *)
(* and the books and workers name only views and callers that there are.       *)
THEOREM TypeCorrect == Spec => []TypeOK
<1>1. Init => TypeOK
  <2> SUFFICES ASSUME Init PROVE TypeOK
    OBVIOUS
  <2> USE AgentViewsAssumption DEF Init
  <2>1. TypeControl /\ TypeFlags
    BY DEF TypeControl, TypeFlags
  <2>2. TypeWorkers
    BY DEF TypeWorkers, NoReader, NoAnalyst
  <2>3. TypePixels /\ TypeBooks
    BY DEF TypePixels, TypeBooks
  <2> QED BY <2>1, <2>2, <2>3 DEF TypeOK
<1>2. Inv /\ TypeOK /\ [Next]_vars => TypeOK'
  <2> SUFFICES ASSUME Inv, TypeOK, [Next]_vars PROVE TypeOK'
    OBVIOUS
  <2>1. CASE Next
    <3>1. ASSUME NEW c \in Callers, CallStep(c) PROVE TypeOK'
      BY <3>1, TypeControlByCall, TypeFlagsByCall, TypeWorkersByCall, TypePixelsByCall,
         TypeBooksByCall DEF TypeOK
    <3>2. ASSUME NEW k \in Closers, Close(k) \/ CloseStep(k) PROVE TypeOK'
      BY <3>2, TypeControlByClose, TypeFlagsByClose, TypeWorkersByClose,
         TypePixelsByClose, TypeBooksByClose DEF TypeOK
    <3>3. CASE Others
      BY <3>3, TypeControlByOther, TypeFlagsByOther, TypeWorkersByOther,
         TypePixelsByOther, TypeBooksByOther DEF TypeOK
    <3> QED BY <2>1, <3>1, <3>2, <3>3, Kinds
  <2>2. CASE UNCHANGED vars
    <3>1. TypeControl' /\ TypeFlags'
      BY <2>2 DEF vars, session, server, control, context, TypeOK, TypeControl, TypeFlags
    <3>2. TypePixels' /\ TypeBooks'
      BY <2>2 DEF vars, captures, images, bounds, TypeOK, TypePixels, TypeBooks
    <3>3. UNCHANGED <<reader, analyst>>
      BY <2>2 DEF vars, workers
    <3>4. TypeWorkers'
      BY <3>3 DEF TypeOK, TypeWorkers
    <3> QED BY <3>1, <3>2, <3>4 DEF TypeOK
  <2> QED BY <2>1, <2>2
<1> QED BY <1>1, <1>2, InvHolds, PTL DEF Spec
=============================================================================
