--------------------------- MODULE PortalInputProofs ---------------------------
(* Theorems about PortalInput, for any devices, controllers, inputs and bounds. *)
EXTENDS PortalInput, FiniteSetTheorems, TLAPS

(* Where a goroutine has the operation mutex.                                  *)
Transacting == {"press", "release", "burst", "leave"}
Holding == Transacting \cup {"opening", "replacing", "ending"}

Shape ==
    /\ pc \in [Procs -> Holding \cup {"idle", "starting", "closing", "wiping",
                                      "waiting", "failed"}]
    /\ sess \in [Sessions -> {"none", "open", "closed"}]
    /\ current \in 0..MaxStarts /\ mine \in 0..MaxStarts
    /\ DOMAIN event = Devices

(* Who has the operation mutex is between its acquisition and its release, and *)
(* has a session of its own only to replace or to end one.                     *)
Locked == \A p \in Procs : pc[p] \in Holding <=> op = p
Taken == mine # 0 => \E p \in Procs : op = p /\ pc[p] \in {"replacing", "ending"}

(* An event is under way only inside a transaction.                            *)
Asked == \A d \in Devices : event[d] # Nobody => pc[d] \in {"press", "release", "burst"}

Inv == Shape /\ Locked /\ Taken /\ Asked /\ NoLeak
-----------------------------------------------------------------------------
(* No goroutine is Nobody, and no session is 0.                                *)
LEMMA Names ==
  /\ Nobody \notin Procs /\ 0 \notin Sessions /\ MaxStarts \in Nat
  /\ Devices \subseteq Procs /\ Controllers \subseteq Procs
  /\ Devices \cap Controllers = {} /\ Keyboard \in Devices
BY PortalAssumption DEF Sessions, Procs

(* Before anything is called there is no session.                              *)
LEMMA InitInv == Init => Inv
BY Names DEF Init, Inv, Shape, Locked, Taken, Asked, NoLeak, Holding, Transacting, Open

(* Starting and closing sessions.                                              *)
LEMMA ControlInv ==
  ASSUME Inv, Control
  PROVE  Inv'
<1> USE Names DEF Inv, Shape, Holding, Transacting, Go, Idle, state, portal, pending,
           local
<1>1. ASSUME NEW s \in Sessions, PortalCloses(s) PROVE Inv'
  BY <1>1 DEF PortalCloses, End, Locked, Taken, Asked, NoLeak, Open
<1>2. ASSUME NEW p \in Controllers, Start(p) \/ Wipe(p) PROVE Inv'
  BY <1>2 DEF Start, Wipe, Locked, Taken, Asked, NoLeak, Open
<1>3. ASSUME NEW p \in Controllers, StartEnters(p) PROVE Inv'
  BY <1>3 DEF StartEnters, Locked, Taken, Asked, NoLeak, Open
<1>4. ASSUME NEW p \in Controllers, Consent(p) PROVE Inv'
  <2>1. PICK s \in Sessions : /\ pc[p] = "opening" /\ sess[s] = "none" /\ op' = op
                              /\ sess' = [sess EXCEPT ![s] = "open"] /\ mine' = s
                              /\ pc' = [pc EXCEPT ![p] = "replacing"]
                              /\ current' = current
    BY <1>4 DEF Consent
  <2>2. mine = 0 /\ op = p
    BY <2>1 DEF Locked, Taken
  <2>3. Shape' /\ Locked' /\ Taken' /\ Asked'
    BY <1>4, <2>1, <2>2 DEF Locked, Taken, Asked, Sessions, Consent, local
  <2>4. NoLeak'
    BY <2>1, <2>2 DEF NoLeak, Open
  <2> QED BY <2>3, <2>4
<1>5. ASSUME NEW p \in Controllers, OpenFails(p) PROVE Inv'
  <2>1. mine = 0 /\ op = p
    BY <1>5 DEF OpenFails, Locked, Taken
  <2> QED BY <1>5, <2>1 DEF OpenFails, StartReturns, Locked, Taken, Asked, NoLeak, Open, Live
<1>6. ASSUME NEW p \in Controllers, Replace(p) PROVE Inv'
  BY <1>6 DEF Replace, StartReturns, End, Locked, Taken, Asked, NoLeak, Open
<1>7. ASSUME NEW p \in Procs, Close(p) PROVE Inv'
  BY <1>7 DEF Close, Locked, Taken, Asked, NoLeak, Open
<1>8. ASSUME NEW p \in Procs, CloseEnters(p) PROVE Inv'
  BY <1>8 DEF CloseEnters, Locked, Taken, Asked, NoLeak, Open
<1>9. ASSUME NEW p \in Procs, CloseEnds(p) PROVE Inv'
  BY <1>9 DEF CloseEnds, End, Locked, Taken, Asked, NoLeak, Open
<1> QED
  BY <1>1, <1>2, <1>3, <1>4, <1>5, <1>6, <1>7, <1>8, <1>9 DEF Control

(* Calls of the devices, up to their transaction.                              *)
LEMMA CallsInv ==
  ASSUME Inv, Calls
  PROVE  Inv'
<1> USE Names DEF Inv, Shape, Holding, Transacting, Go, state, portal
<1>1. ASSUME NEW d \in Procs, NEW what, NEW c, NEW g, NEW T, pc[d] = "idle",
             Begin(d, what, c, g, T)
      PROVE  Inv'
  BY <1>1 DEF Begin, Locked, Taken, Asked, NoLeak, Open
<1>2. CASE \E d \in Devices, c \in Chords : Down(d, c) \/ Up(d, c)
  BY <1>1, <1>2 DEF Down, Up
<1>3. CASE (\E c \in Chords : Tap(c)) \/ Text
  BY <1>1, <1>3 DEF Tap, Text
<1>4. CASE \E d \in Devices, i \in Typed : Click(d, i)
  BY <1>1, <1>4 DEF Click
<1> QED
  BY <1>2, <1>3, <1>4 DEF Calls

(* A transaction gets the mutex at its beginning and returns it at its end.    *)
LEMMA BoundaryInv ==
  ASSUME Inv, NEW d \in Devices, Enter(d) \/ Leave(d)
  PROVE  Inv'
<1> USE Names DEF Inv, Shape, Holding, Transacting, Go, Idle, state, portal
<1>1. CASE Enter(d)
  <2>1. op = Nobody /\ pc[d] = "waiting" /\ mine' = mine
        /\ UNCHANGED <<sess, current, event>>
    BY <1>1 DEF Enter
  <2>2. \/ op' = op /\ pc' \in {[pc EXCEPT ![d] = "idle"], [pc EXCEPT ![d] = "failed"]}
        \/ op' = d /\ pc' \in {[pc EXCEPT ![d] = "release"], [pc EXCEPT ![d] = "burst"],
                               [pc EXCEPT ![d] = "press"]}
    BY <1>1 DEF Enter, Unused
  <2> QED BY <2>1, <2>2 DEF Locked, Taken, Asked, NoLeak, Open
<1>2. CASE Leave(d)
  <2>1. /\ pc[d] \in Transacting /\ op' = Nobody
        /\ pc' \in {[pc EXCEPT ![d] = "idle"], [pc EXCEPT ![d] = "failed"]}
        /\ UNCHANGED <<sess, current, mine, event>>
        /\ pc[d] = "leave" \/ event[d] = Nobody
    BY <1>2 DEF Leave
  <2> QED BY <2>1 DEF Locked, Taken, Asked, NoLeak, Open
<1> QED
  BY <1>1, <1>2

(* Inside, it keeps the mutex.                                                 *)
LEMMA InsideInv ==
  ASSUME Inv, NEW d \in Devices, Inside(d)
  PROVE  Inv'
<1> USE Names DEF Inv, Shape, Holding, Transacting, Go, state, portal
<1>1. CASE Send(d)
  <2>1. PICK e \in Wanted(d) :
          /\ event[d] = Nobody
          /\ \/ event' = [event EXCEPT ![d] = e] /\ pc' = pc
             \/ event' = event /\ \E why \in {"other", "closed"} : Fails(d, e, why)
          /\ UNCHANGED <<sess, current, mine, op>>
    BY <1>1 DEF Send
  <2>2. pc[d] \in {"press", "release", "burst"}
    BY <2>1 DEF Wanted, Pressing, Releasing
  <2>3. pc'[d] \in Transacting /\ \A p \in Procs \ {d} : pc'[p] = pc[p]
    BY <2>1, <2>2 DEF Fails
  <2>4. DOMAIN event' = Devices /\ pc' \in [Procs -> Holding \cup {"idle", "starting",
          "closing", "wiping", "waiting", "failed"}]
    BY <2>1, <2>2 DEF Fails
  <2>5. Asked'
    BY <2>1, <2>2, <2>3 DEF Asked
  <2> QED BY <2>1, <2>2, <2>3, <2>4, <2>5 DEF Locked, Taken, NoLeak, Open
<1>2. CASE Deliver(d)
  <2> DEFINE e == event[d]
  <2>1. pc[d] \in {"press", "release", "burst"}
    BY <1>2 DEF Deliver, Asked
  <2>2. \/ Succeeds(d, e)
        \/ \E why \in {"other", "closed"} : Fails(d, e, why)
    BY <1>2 DEF Deliver
  <2>3. pc'[d] \in Transacting /\ (\A p \in Procs \ {d} : pc'[p] = pc[p])
        /\ pc' \in [Procs -> Holding \cup {"idle", "starting", "closing", "wiping",
                                           "waiting", "failed"}]
    BY <2>1, <2>2 DEF Succeeds, Fails
  <2>4. /\ event' = [event EXCEPT ![d] = Nobody]
        /\ UNCHANGED <<current, mine, op>>
        /\ sess' = sess \/ End({current})
    BY <1>2 DEF Deliver
  <2>5. sess' \in [Sessions -> {"none", "open", "closed"}] /\ Open' \subseteq Open
    BY <2>4 DEF End, Open
  <2>6. Asked'
    BY <2>3, <2>4 DEF Asked
  <2> QED BY <2>1, <2>3, <2>4, <2>5, <2>6 DEF Locked, Taken, NoLeak
<1>3. CASE Share(d) \/ Unshare(d)
  BY <1>3 DEF Share, Unshare, Locked, Taken, Asked, NoLeak, Open
<1> QED
  BY <1>1, <1>2, <1>3 DEF Inside

(* The invariant holds whatever is called.                                     *)
LEMMA InvHolds == Spec => []Inv
<1>1. Inv /\ [Next]_vars => Inv'
  <2> SUFFICES ASSUME Inv, [Next]_vars PROVE Inv'
    OBVIOUS
  <2>1. CASE Next
    BY <2>1, ControlInv, CallsInv, BoundaryInv, InsideInv DEF Next
  <2>2. CASE UNCHANGED vars
    BY <2>2 DEF vars, Inv, Shape, Locked, Taken, Asked, NoLeak, Open
  <2> QED BY <2>1, <2>2
<1> QED
  BY <1>1, InitInv, PTL DEF Spec

(* A session that is open is the current one, or in the hands of the Start or  *)
(* the Close that has the operation mutex (remote_desktop_input.go): none is   *)
(* lost, however starts, closes, failures and the portal race.                 *)
THEOREM NoSessionLeaks == Spec => []NoLeak
<1>1. Inv => NoLeak
  BY DEF Inv
<1> QED
  BY <1>1, InvHolds, PTL
-----------------------------------------------------------------------------
(* The ledger: what it is made of.                                             *)
Typing ==
    /\ refs \in [Generations -> [Inputs -> Nat]]
    /\ holds \in [Chords -> Nat] /\ gen \in [Devices -> Nat]
    /\ generation \in Nat /\ starts \in Nat /\ closes \in Nat
    /\ DOMAIN down = Sessions /\ DOMAIN raised = Sessions /\ DOMAIN call = Procs
    /\ DOMAIN chord = Devices /\ DOMAIN todo = Devices
    /\ DOMAIN got = Devices /\ DOMAIN err = Devices

(* What devices and controllers do.                                            *)
Kinds ==
    /\ \A d \in Devices :
         /\ pc[d] \in Transacting \cup {"idle", "waiting", "failed", "closing", "ending"}
         /\ call[d] # "wayland"
    /\ \A p \in Controllers :
         pc[p] \in {"idle", "starting", "opening", "replacing", "closing", "ending", "wiping"}

(* Whoever closes is counted, and a transaction is cancelled only by a close   *)
(* that waits for its end: the session is doomed.                              *)
Closers == {p \in Procs : pc[p] \in {"closing", "ending"}}
Doomed == \E p \in Procs : pc[p] = "closing"
Counted ==
    /\ IsFiniteSet(Closers) /\ closing = Cardinality(Closers)
    /\ token \in {"none", "live", "cancelled"}
    /\ token # "none" <=> op \in Devices /\ pc[op] \in Transacting
    /\ token = "cancelled" => Doomed

(* Generations do not run out.  Each start in the past paid for a generation   *)
(* of its own and for the closes of devices that failed in its session; while  *)
(* there is a session every device may still fail once.                        *)
Starters == {p \in Controllers : pc[p] \in {"starting", "opening", "replacing"}}
Enterers == {p \in Controllers : pc[p] = "closing"}
Fallen == {d \in Devices : pc[d] \in {"failed", "closing"}}
Debt == IF current # 0 THEN Cardinality(Devices) ELSE Cardinality(Fallen)
Bounded ==
    /\ IsFiniteSet(Starters) /\ IsFiniteSet(Enterers)
    /\ Cardinality(Starters) <= starts
    /\ starts <= MaxStarts /\ closes <= MaxCloses
    /\ generation + Debt + Cardinality(Enterers)
         <= (Cardinality(Devices) + 1) * (starts - Cardinality(Starters)) + closes

(* Sessions that are not open hold nothing down, and neither do new ones.      *)
Blank ==
    /\ \A s \in Sessions : sess[s] # "open" => down[s] = {}
    /\ \A p \in Procs : pc[p] = "replacing" /\ mine # 0 => down[mine] = {}
    /\ current # 0 => sess[current] # "none" /\ generation > 0
    /\ mine # 0 => sess[mine] # "none"

(* Nothing is known of generations to come.                                    *)
Future ==
    /\ \A g \in Generations, i \in Inputs : g > generation => refs[g][i] = 0
    /\ \A c \in Chords : holds[c] <= generation
    /\ \A d \in Devices : gen[d] <= generation

Keys(c) == c.mods \cup {c.main}
Of(d) == {c \in Chords : Device[c.main] = d}
Busy(d) == pc[d] \in Transacting
Calling(d) == pc[d] \in Transacting \cup {"waiting"}
Count(i) == refs[generation][i]

(* How far the call of a device has come.                                      *)
Staged(d) ==
    /\ ~Busy(d) => todo[d] = {}
    /\ Calling(d) => call[d] \in {"down", "up", "tap", "burst"}
    /\ Calling(d) /\ call[d] # "burst" => chord[d] \in Of(d)
    /\ pc[d] = "waiting" => err[d] = {} /\ (call[d] \in {"down", "tap"} => got[d] = {})
    /\ pc[d] = "press" => /\ call[d] \in {"down", "tap"} /\ err[d] = {}
                          /\ got[d] \cap todo[d] = {}
                          /\ got[d] \cup todo[d] = chord[d].mods
                          /\ Count(chord[d].main) = 0
    /\ pc[d] = "release" => /\ call[d] \in {"down", "up", "tap"}
                            /\ call[d] = "down" => err[d] # {}
                            /\ todo[d] \subseteq Keys(chord[d])
                            /\ \A i \in todo[d] : Count(i) > 0
    /\ pc[d] = "burst" => /\ call[d] = "burst" /\ err[d] = {} /\ todo[d] \subseteq got[d]
                          /\ \A i, j \in todo[d] : i = j
    /\ pc[d] = "leave" => /\ todo[d] = {}
                          /\ call[d] = "burst" \/ call[d] = "down"
                          /\ call[d] = "down" => err[d] = {}
    /\ Busy(d) => /\ gen[d] = generation /\ current # 0
                  /\ "ownership" \notin err[d]
                  /\ "closed" \in err[d] => ~Live
    /\ pc[d] = "ending" => gen[d] < generation

(* What a call relies on is not changed behind its back.                       *)
Kept(d) ==
    /\ Calling(d) /\ call[d] = "up" => holds[chord[d]] = gen[d]
    /\ Calling(d) /\ call[d] = "down" => holds[chord[d]] = 0
    /\ Calling(d) /\ call[d] = "burst" =>
         \A i \in got[d] : i \in Inputs /\ Device[i] = d

(* The event under way is the one that the references called for.              *)
Due(d) ==
    event[d] # Nobody =>
      /\ pc[d] = "press" => /\ event[d].press = TRUE
                            /\ event[d].input \in Pressing(d)
                            /\ Count(event[d].input) = 0
      /\ pc[d] = "release" => /\ event[d].press = FALSE
                              /\ event[d].input \in todo[d]
                              /\ Count(event[d].input) = 1
      /\ pc[d] = "burst" => /\ event[d].input \in got[d]
                            /\ event[d].press = (todo[d] = {})
                            /\ todo[d] # {} => event[d].input \in todo[d]

(* A device whose failure will end the session is out of the account.          *)
Clean(d) ==
    /\ Busy(d) /\ call[d] # "burst" => err[d] = {}
    /\ pc[d] \in {"failed", "closing"} => gen[d] # generation

(* References of a hold that is not recorded yet, and those that a recorded    *)
(* hold has given up.                                                          *)
Acquired(d) ==
    IF pc[d] = "press" THEN got[d]
    ELSE IF pc[d] = "release" /\ call[d] = "tap" THEN todo[d]
    ELSE IF pc[d] = "leave" /\ call[d] = "down" THEN Keys(chord[d])
    ELSE {}
Released(d) ==
    IF pc[d] = "release" /\ call[d] = "up" THEN Keys(chord[d]) \ todo[d] ELSE {}

One(b) == IF b THEN 1 ELSE 0
Balanced(d) ==
    Clean(d) => \A i \in Inputs : Device[i] = d =>
      Count(i) + One(i \in Released(d)) = Cardinality(Users(i)) + One(i \in Acquired(d))

(* The compositor holds down what has references, but for what texts let go    *)
(* of; a burst's own key as well.                                              *)
Matched(d) ==
    Clean(d) /\ Live /\ ~Doomed => \A i \in Inputs : Device[i] = d =>
      /\ Count(i) > 0 => i \in down[current] \cup raised[current]
      /\ current \notin doubt /\ i \in down[current]
           => Count(i) > 0 \/ (pc[d] = "burst" /\ i \in todo[d])

Account(d) == Staged(d) /\ Kept(d) /\ Due(d) /\ Balanced(d) /\ Matched(d)

(* Only inputs are held down or let go of.                                     *)
Within == down \in [Sessions -> SUBSET Inputs] /\ raised \in [Sessions -> SUBSET Inputs]

(* What every step has to keep besides the leak invariant.                     *)
Rest == /\ Typing /\ Kinds /\ Counted /\ Bounded /\ Blank /\ Future
        /\ \A d \in Devices : Account(d)

LedgerInv == Inv /\ Within /\ Rest
-----------------------------------------------------------------------------
(* There are finitely many devices and chords, and a chord is of one device.   *)
LEMMA Parts ==
  /\ IsFiniteSet(Devices) /\ Cardinality(Devices) \in Nat /\ MaxCloses \in Nat
  /\ Generations \subseteq Nat /\ 0 \in Generations
  /\ \A c \in Chords : /\ c.main \in Inputs /\ c.mods \subseteq Inputs /\ c.main \notin c.mods
                       /\ Device[c.main] \in Devices
                       /\ \A i \in Keys(c) : i \in Inputs /\ Device[i] = Device[c.main]
                       /\ Device[c.main] # Keyboard => c.mods = {}
<1>1. IsFiniteSet(Devices) /\ Cardinality(Devices) \in Nat
  BY PortalAssumption, FS_CardinalityType
<1>2. \A c \in Chords : c.main \in Inputs /\ c.mods \subseteq Inputs
  BY PortalAssumption
<1>3. Generations \subseteq Nat /\ 0 \in Generations
  BY <1>1, PortalAssumption DEF Generations
<1> QED BY <1>1, <1>2, <1>3, PortalAssumption DEF Keys

(* The starts and closes that are paid for make that many generations.         *)
LEMMA PaidFor ==
  ASSUME NEW g \in Nat, NEW debt \in Nat, NEW n \in Nat, NEW m \in Nat, NEW k \in Nat,
         n <= MaxStarts, k <= MaxCloses,
         g + debt + m <= (Cardinality(Devices) + 1) * n + k
  PROVE  g \in Generations
<1> DEFINE D == Cardinality(Devices)
<1>1. D \in Nat /\ MaxStarts \in Nat /\ MaxCloses \in Nat
  BY Parts, Names
<1>2. (D + 1) * n <= (D + 1) * MaxStarts /\ (D + 1) * n \in Nat
  <2> HIDE DEF D
  <2> QED BY <1>1
<1>3. (D + 1) * MaxStarts = MaxStarts * D + MaxStarts /\ MaxStarts * D \in Nat
  <2> HIDE DEF D
  <2> QED BY <1>1
<1>4. g <= MaxStarts + MaxCloses + MaxStarts * D
  <2> HIDE DEF D
  <2>1. g + debt + m <= (D + 1) * n + k
    BY DEF D
  <2> QED BY <2>1, <1>1, <1>2, <1>3
<1> QED BY <1>4 DEF Generations

(* The generation is one for which there are references.                       *)
LEMMA GenerationFits ==
  ASSUME Typing, Bounded
  PROVE  generation \in Generations
<1>1. Cardinality(Starters) \in Nat /\ Cardinality(Enterers) \in Nat
  BY FS_CardinalityType DEF Bounded
<1>2. Debt \in Nat
  <2>1. Fallen \subseteq Devices
    BY DEF Fallen
  <2> QED BY <2>1, Parts, FS_Subset, FS_CardinalityType DEF Debt
<1>3. starts - Cardinality(Starters) \in Nat /\ starts - Cardinality(Starters) <= MaxStarts
  BY <1>1, Names DEF Bounded, Typing
<1> QED BY <1>1, <1>2, <1>3, PaidFor DEF Bounded, Typing

(* So is the next one.                                                         *)
LEMMA NextGenerationFits ==
  ASSUME Typing', Bounded'
  PROVE  generation' \in Generations
<1>1. Cardinality(Starters)' \in Nat /\ Cardinality(Enterers)' \in Nat
  BY FS_CardinalityType DEF Bounded
<1>2. Debt' \in Nat
  <2>1. Fallen' \subseteq Devices
    BY DEF Fallen
  <2> QED BY <2>1, Parts, FS_Subset, FS_CardinalityType DEF Debt
<1>3. /\ (starts - Cardinality(Starters))' \in Nat
      /\ (starts - Cardinality(Starters))' <= MaxStarts
  BY <1>1, Names DEF Bounded, Typing
<1> QED BY <1>1, <1>2, <1>3, PaidFor DEF Bounded, Typing

(* The references of a key are as many as there are chords at most.            *)
LEMMA UsersFinite ==
  ASSUME NEW i
  PROVE  IsFiniteSet(Users(i)) /\ Cardinality(Users(i)) \in Nat
<1>1. Users(i) \subseteq Chords
  BY DEF Users
<1> QED BY <1>1, PortalAssumption, FS_Subset, FS_CardinalityType

(* Nothing is held at the beginning.                                           *)
LEMMA LedgerInit == Init => LedgerInv
<1> SUFFICES ASSUME Init PROVE LedgerInv
  OBVIOUS
<1> USE Names
<1>1. Within /\ Typing /\ Kinds /\ Blank /\ Future
  BY Parts DEF Init, Within, Typing, Kinds, Blank, Future, Procs
<1>2. Cardinality({}) = 0 /\ IsFiniteSet({})
  BY FS_EmptySet
<1>3. Counted
  <2>1. Closers = {}
    BY DEF Init, Closers
  <2> QED BY <2>1, <1>2 DEF Init, Counted
<1>4. Bounded
  <2>1. Starters = {} /\ Enterers = {} /\ Fallen = {}
    BY DEF Init, Starters, Enterers, Fallen
  <2>2. Cardinality(Starters) = 0 /\ Cardinality(Enterers) = 0 /\ Debt = 0
    BY <2>1, <1>2 DEF Debt, Init
  <2> QED BY <2>1, <2>2, <1>2, Parts DEF Init, Bounded
<1>5. ASSUME NEW d \in Devices PROVE Account(d)
  <2>1. pc[d] = "idle" /\ event[d] = Nobody /\ todo[d] = {}
    BY DEF Init
  <2>2. Staged(d) /\ Kept(d) /\ Due(d)
    BY <2>1 DEF Staged, Kept, Due, Busy, Calling, Transacting
  <2>3. ~Live
    BY DEF Init, Live, Open
  <2>4. \A i \in Inputs : Count(i) = 0 /\ Users(i) = {}
    BY Parts DEF Init, Count, Users
  <2>5. Balanced(d) /\ Matched(d)
    BY <2>1, <2>3, <2>4, <1>2 DEF Balanced, Matched, Acquired, Released
  <2> QED BY <2>2, <2>5 DEF Account
<1> QED BY <1>1, <1>3, <1>4, <1>5, InitInv DEF LedgerInv, Rest
-----------------------------------------------------------------------------
(* What a step of a device changes besides the ledger: itself, the operation,  *)
(* and what its own event does to the current session.                         *)
Stays(f, d) == DOMAIN f' = DOMAIN f /\ \A x \in DOMAIN f : x # d => f'[x] = f[x]
Moves(d) ==
    /\ pc[d] \in Transacting \cup {"idle", "waiting"}
    /\ pc'[d] \in Transacting \cup {"idle", "waiting", "failed"}
    /\ pc'[d] = "failed" => current # 0
    /\ call'[d] # "wayland" /\ gen'[d] \in Nat /\ gen'[d] <= generation
    /\ gen' \in [Devices -> Nat]
    /\ Stays(pc, d) /\ Stays(call, d) /\ Stays(gen, d) /\ Stays(chord, d)
    /\ Stays(todo, d) /\ Stays(got, d) /\ Stays(event, d) /\ Stays(err, d)
    /\ UNCHANGED <<current, generation, closing, starts, closes, mine, start>>
    /\ \/ UNCHANGED <<op, token>>
       \/ op' = d /\ token' = "live"
       \/ op' = Nobody /\ token' = "none"
    /\ \/ UNCHANGED portal
       \/ /\ op = d
          /\ DOMAIN down' = Sessions /\ DOMAIN raised' = Sessions
          /\ \A s \in Sessions : s # current => sess'[s] = sess[s]
          /\ \A s \in Sessions : s = current => sess[s] = "open" /\ sess'[s] # "none"
          /\ \A s \in Sessions : s # current => down'[s] = down[s] \/ down'[s] = {}
          /\ \A s \in Sessions : s = current /\ sess'[s] # "open" => down'[s] = {}

(* A call begins.                                                              *)
LEMMA BeginMoves ==
  ASSUME Inv, Typing, Future, NEW d \in Devices, pc[d] = "idle",
         NEW what \in {"down", "up", "tap", "burst"}, NEW c, NEW g \in Nat, NEW S,
         g <= generation, Begin(d, what, c, g, S)
  PROVE  Moves(d)
<1>1. d \in Procs
  BY Names
<1>2. /\ pc' = [pc EXCEPT ![d] = "waiting"] /\ call' = [call EXCEPT ![d] = what]
      /\ chord' = [chord EXCEPT ![d] = c] /\ gen' = [gen EXCEPT ![d] = g]
      /\ got' = [got EXCEPT ![d] = S] /\ err' = [err EXCEPT ![d] = {}]
      /\ UNCHANGED <<todo, event>>
  BY DEF Begin, Go
<1>3. UNCHANGED <<portal, current, generation, op, token, closing, starts, closes, mine,
                  start>>
  BY DEF Begin, state, pending, bounds
<1>4. /\ pc'[d] = "waiting" /\ call'[d] = what /\ gen'[d] = g
      /\ gen' \in [Devices -> Nat]
  BY <1>1, <1>2 DEF Inv, Shape, Holding, Transacting, Typing
<1>5. /\ Stays(pc, d) /\ Stays(call, d) /\ Stays(gen, d) /\ Stays(chord, d)
      /\ Stays(todo, d) /\ Stays(got, d) /\ Stays(event, d) /\ Stays(err, d)
  BY <1>2 DEF Stays
<1> QED BY <1>3, <1>4, <1>5 DEF Moves

(* It has or has not a transaction.                                            *)
LEMMA EnterMoves ==
  ASSUME Inv, Typing, Kinds, Future, NEW d \in Devices, Enter(d)
  PROVE  Moves(d)
<1>1. d \in Procs /\ pc[d] = "waiting" /\ op = Nobody
  BY Names DEF Enter
<1>2. UNCHANGED <<portal, current, generation, closing, starts, closes, mine, start,
                  chord, got, event, err>>
  BY DEF Enter, state, bounds
<1>3. /\ gen' = gen \/ gen' = [gen EXCEPT ![d] = generation]
      /\ UNCHANGED <<op, token>> \/ (op' = d /\ token' = "live")
      /\ todo' = todo \/ \E T : todo' = [todo EXCEPT ![d] = T]
  BY DEF Enter
<1>4. \/ pc' = [pc EXCEPT ![d] = "idle"] /\ call' = [call EXCEPT ![d] = "none"]
      \/ pc' = [pc EXCEPT ![d] = "failed"] /\ call' = call /\ current # 0
      \/ pc' = [pc EXCEPT ![d] = "release"] /\ call' = call
      \/ pc' = [pc EXCEPT ![d] = "burst"] /\ call' = call
      \/ pc' = [pc EXCEPT ![d] = "press"] /\ call' = call
  BY DEF Enter, Unused, Idle, Go
<1>5. /\ gen' \in [Devices -> Nat] /\ gen'[d] <= generation /\ gen'[d] \in Nat
      /\ Stays(gen, d) /\ Stays(todo, d)
  BY <1>3 DEF Typing, Future, Stays
<1>6. /\ Stays(pc, d) /\ Stays(call, d)
      /\ pc'[d] \in Transacting \cup {"idle", "failed"} /\ call'[d] # "wayland"
      /\ pc'[d] = "failed" => current # 0
  BY <1>1, <1>4 DEF Inv, Shape, Holding, Transacting, Typing, Kinds, Stays
<1>7. Stays(chord, d) /\ Stays(got, d) /\ Stays(event, d) /\ Stays(err, d)
  BY <1>2 DEF Stays
<1> QED BY <1>1, <1>2, <1>3, <1>5, <1>6, <1>7 DEF Moves

(* An event succeeds or fails.                                                 *)
LEMMA ResultMoves ==
  ASSUME Inv, Typing, NEW d \in Devices, NEW e,
         pc[d] \in {"press", "release", "burst"},
         Succeeds(d, e) \/ \E why \in {"other", "closed"} : Fails(d, e, why)
  PROVE  /\ pc'[d] \in Transacting
         /\ Stays(pc, d) /\ Stays(todo, d) /\ Stays(got, d) /\ Stays(err, d)
<1>1. d \in Procs
  BY Names
<1>2. \/ pc' = pc
      \/ pc' = [pc EXCEPT ![d] = "leave"]
      \/ pc' = [pc EXCEPT ![d] = "release"]
  BY DEF Succeeds, Fails, Go
<1>3. /\ \E T : todo' = [todo EXCEPT ![d] = T]
      /\ got' = got \/ \E T : got' = [got EXCEPT ![d] = T]
      /\ err' = err \/ \E T : err' = [err EXCEPT ![d] = T]
  BY DEF Succeeds, Fails
<1>4. pc'[d] \in Transacting /\ Stays(pc, d)
  BY <1>1, <1>2 DEF Inv, Shape, Holding, Transacting, Stays
<1>5. Stays(todo, d) /\ Stays(got, d) /\ Stays(err, d)
  BY <1>3 DEF Stays
<1> QED BY <1>4, <1>5

(* Events, and references without one.                                         *)
LEMMA InsideMoves ==
  ASSUME Inv, Typing, Kinds, Future, NEW d \in Devices, Inside(d)
  PROVE  Moves(d) /\ pc[d] \in {"press", "release", "burst"} /\ pc'[d] \in Transacting
         /\ op' = op /\ call' = call /\ chord' = chord /\ gen' = gen
<1>1. pc[d] \in {"press", "release", "burst"}
  BY DEF Inside, Send, Deliver, Share, Unshare, Wanted, Pressing, Releasing, Inv, Asked
<1>2. op = d
  BY <1>1, Names DEF Inv, Locked, Holding, Transacting
<1>3. /\ UNCHANGED <<current, generation, closing, starts, closes, mine, start, op, token,
                     call, chord, gen>>
  BY DEF Inside, Send, Deliver, Share, Unshare, state, bounds, pending
<1>4. Stays(call, d) /\ Stays(chord, d) /\ Stays(gen, d)
  BY <1>3 DEF Stays
<1>5. /\ pc'[d] \in Transacting
      /\ Stays(pc, d) /\ Stays(todo, d) /\ Stays(got, d) /\ Stays(err, d)
  <2>1. CASE UNCHANGED <<pc, todo, got, err>>
    BY <2>1, <1>1 DEF Inv, Shape, Holding, Transacting, Stays
  <2>2. CASE Send(d) /\ ~UNCHANGED <<pc, todo, got, err>>
    BY <2>2, <1>1, ResultMoves DEF Send
  <2>3. CASE Deliver(d)
    BY <2>3, <1>1, ResultMoves DEF Deliver
  <2>4. CASE Share(d) \/ Unshare(d)
    <3>1. /\ pc' = pc /\ \E T : todo' = [todo EXCEPT ![d] = T]
          /\ got' = got \/ \E T : got' = [got EXCEPT ![d] = T]
          /\ err' = err \/ \E T : err' = [err EXCEPT ![d] = T]
      BY <2>4 DEF Share, Unshare
    <3> QED BY <3>1, <1>1 DEF Inv, Shape, Holding, Transacting, Stays
  <2> QED BY <2>1, <2>2, <2>3, <2>4 DEF Inside
<1>6. Stays(event, d)
  <2>1. event' = event \/ \E e : event' = [event EXCEPT ![d] = e]
    BY DEF Inside, Send, Deliver, Share, Unshare
  <2> QED BY <2>1 DEF Stays
<1>7. \/ UNCHANGED portal
      \/ /\ op = d /\ DOMAIN down' = Sessions /\ DOMAIN raised' = Sessions
         /\ \A s \in Sessions : s # current => sess'[s] = sess[s]
         /\ \A s \in Sessions : s = current => sess[s] = "open" /\ sess'[s] # "none"
         /\ \A s \in Sessions : s # current => down'[s] = down[s] \/ down'[s] = {}
         /\ \A s \in Sessions : s = current /\ sess'[s] # "open" => down'[s] = {}
  <2>1. CASE Deliver(d) /\ Live /\ sess' = sess
    <3>1. \E T, U : /\ down' = [down EXCEPT ![current] = T]
                    /\ raised' = [raised EXCEPT ![current] = U]
      <4>1. ~(sess' = [s \in Sessions |-> IF s \in {current} THEN "closed" ELSE sess[s]])
        BY <2>1 DEF Live, Open
      <4> QED BY <2>1, <4>1 DEF Deliver, Apply, End
    <3> QED BY <3>1, <2>1, <1>2 DEF Typing, Live, Open
  <2>2. CASE Deliver(d) /\ Live /\ sess' # sess
    BY <2>2, <1>2 DEF Deliver, Apply, End, Live, Open, Typing
  <2>3. CASE ~(Deliver(d) /\ Live)
    BY <2>3 DEF Inside, Send, Deliver, Share, Unshare, portal
  <2> QED BY <2>1, <2>2, <2>3
<1>8. gen'[d] \in Nat /\ gen'[d] <= generation /\ gen' \in [Devices -> Nat] /\ call'[d] # "wayland"
  BY <1>3 DEF Typing, Future, Kinds
<1> QED BY <1>1, <1>2, <1>3, <1>4, <1>5, <1>6, <1>7, <1>8 DEF Moves, Transacting

(* It ends.                                                                    *)
LEMMA LeaveMoves ==
  ASSUME Inv, Typing, Kinds, Future, NEW d \in Devices, Staged(d), Leave(d)
  PROVE  Moves(d)
<1>1. d \in Procs /\ pc[d] \in Transacting
  BY Names DEF Leave, Transacting
<1>2. UNCHANGED <<portal, current, generation, closing, starts, closes, mine, start,
                  chord, gen, got, event, err>> /\ op' = Nobody /\ token' = "none"
      /\ todo' = [todo EXCEPT ![d] = {}]
  BY DEF Leave, state, bounds
<1>3. \/ pc' = [pc EXCEPT ![d] = "idle"] /\ call' = [call EXCEPT ![d] = "none"]
      \/ pc' = [pc EXCEPT ![d] = "failed"] /\ call' = call
  BY DEF Leave, Idle, Go
<1>4. current # 0
  BY <1>1 DEF Staged, Busy
<1>5. /\ Stays(pc, d) /\ Stays(call, d)
      /\ pc'[d] \in {"idle", "failed"} /\ call'[d] # "wayland"
  BY <1>1, <1>3 DEF Inv, Shape, Holding, Transacting, Typing, Kinds, Stays
<1>6. /\ Stays(chord, d) /\ Stays(gen, d) /\ Stays(got, d) /\ Stays(event, d)
      /\ Stays(err, d) /\ Stays(todo, d)
  BY <1>2 DEF Stays
<1>7. gen'[d] \in Nat /\ gen'[d] <= generation /\ gen' \in [Devices -> Nat]
  BY <1>2 DEF Typing, Future
<1> QED BY <1>1, <1>2, <1>4, <1>5, <1>6, <1>7 DEF Moves
-----------------------------------------------------------------------------
(* Devices keep the account of closes, generations and sessions.               *)
LEMMA MovesKeep ==
  ASSUME Inv, Inv', Typing, Kinds, Counted, Bounded, Blank, NEW d \in Devices, Moves(d)
  PROVE  Kinds' /\ Counted' /\ Bounded' /\ Blank'
<1>1. d \in Procs /\ d \notin Controllers
  BY Names
<1>2. \A p \in Procs : p # d => pc'[p] = pc[p] /\ call'[p] = call[p]
  BY DEF Moves, Stays, Inv, Shape, Typing
<1>3. Kinds'
  BY <1>1, <1>2, Names DEF Kinds, Moves
<1>4. Closers' = Closers /\ Starters' = Starters /\ Enterers' = Enterers
  BY <1>1, <1>2, Names DEF Closers, Starters, Enterers, Moves, Transacting
<1>5. Doomed => Doomed'
  BY <1>2 DEF Doomed, Moves, Transacting
<1>6. Counted'
  <2>1. token' # "none" => op' \in Devices
    BY Names DEF Counted, Moves
  <2>2. ASSUME token' # "none" PROVE pc'[op'] \in Transacting
    <3>1. CASE op' = d
      BY <1>1, <3>1 DEF Inv, Locked, Moves, Holding, Transacting
    <3>2. CASE op' # d
      BY <1>2, <2>1, <2>2, <3>2, Names DEF Counted, Moves
    <3> QED BY <3>1, <3>2
  <2>3. ASSUME op' \in Devices, pc'[op'] \in Transacting PROVE token' # "none"
    <3>1. CASE UNCHANGED <<op, token>>
      <4>1. CASE op = d
        BY <1>1, <3>1, <4>1 DEF Counted, Moves, Inv, Locked, Holding, Transacting
      <4>2. CASE op # d
        BY <1>2, <2>3, <3>1, <4>2, Names DEF Counted
      <4> QED BY <4>1, <4>2
    <3>2. CASE ~UNCHANGED <<op, token>>
      BY <2>3, <3>2, Names DEF Moves
    <3> QED BY <3>1, <3>2
  <2> QED BY <1>4, <1>5, <2>1, <2>2, <2>3 DEF Counted, Moves
<1>7. current = 0 => Fallen' = Fallen
  BY <1>1, <1>2, Names DEF Fallen, Moves, Transacting
<1>8. Debt' = Debt
  BY <1>7 DEF Debt, Moves
<1>9. Bounded'
  BY <1>4, <1>8 DEF Bounded, Moves
<1>10. Blank'
  <2>1. CASE UNCHANGED portal
    BY <2>1, <1>1, <1>2 DEF Blank, Moves, portal, Transacting
  <2>2. CASE op = d /\ ~UNCHANGED portal
    <3>1. \A p \in Procs : pc'[p] # "replacing"
      BY <2>2, <1>1, <1>2, Names DEF Inv, Locked, Moves, Holding, Transacting
    <3>2. \A s \in Sessions : sess[s] # "none" => sess'[s] # "none"
      BY <2>2 DEF Moves
    <3>3. \A s \in Sessions : sess'[s] # "open" => down'[s] = {}
      BY <2>2 DEF Moves, Blank
    <3>4. current \in Sessions \/ current = 0
      BY Names DEF Inv, Shape, Sessions
    <3>5. mine \in Sessions \/ mine = 0
      BY Names DEF Inv, Shape, Sessions
    <3> QED BY <3>1, <3>2, <3>3, <3>4, <3>5 DEF Blank, Moves
  <2> QED BY <2>1, <2>2 DEF Moves
<1> QED BY <1>3, <1>6, <1>9, <1>10

(* Forgetting a generation changes the ledger of one device.                   *)
LEMMA Forgotten ==
  ASSUME Typing, NEW d \in Devices, NEW g, Forget(d, g)
  PROVE  /\ refs' \in [Generations -> [Inputs -> Nat]] /\ holds' \in [Chords -> Nat]
         /\ \A n \in Generations, i \in Inputs :
              refs'[n][i] = IF n = g /\ Device[i] = d THEN 0 ELSE refs[n][i]
         /\ \A c \in Chords :
              holds'[c] = IF c \in Of(d) /\ holds[c] = g THEN 0 ELSE holds[c]
<1>1. refs' = [refs EXCEPT ![g] = [i \in Inputs |-> IF Device[i] = d THEN 0
                                                    ELSE refs[g][i]]]
  BY DEF Forget
<1>2. holds' = [c \in Chords |-> IF Device[c.main] = d /\ holds[c] = g THEN 0
                                 ELSE holds[c]]
  BY DEF Forget
<1>3. /\ refs' \in [Generations -> [Inputs -> Nat]]
      /\ \A n \in Generations, i \in Inputs :
              refs'[n][i] = IF n = g /\ Device[i] = d THEN 0 ELSE refs[n][i]
  BY <1>1 DEF Typing
<1>4. /\ holds' \in [Chords -> Nat]
      /\ \A c \in Chords :
              holds'[c] = IF c \in Of(d) /\ holds[c] = g THEN 0 ELSE holds[c]
  BY <1>2 DEF Typing, Of
<1> QED BY <1>3, <1>4

(* A start takes what it needs of the bound, and nothing else does.            *)
LEMMA BoundedStays ==
  ASSUME Bounded, Typing, Starters' = Starters, Enterers' = Enterers, Fallen' = Fallen,
         UNCHANGED <<current, generation, starts, closes>>
  PROVE  Bounded'
BY DEF Bounded, Debt

(* A session that ends holds nothing down.                                     *)
LEMMA EndBlank ==
  ASSUME NEW S, End(S), Blank
  PROVE  /\ \A s \in Sessions : sess'[s] # "open" => down'[s] = {}
         /\ \A s \in Sessions : sess[s] # "none" => sess'[s] # "none"
         /\ \A s \in Sessions : down[s] = {} => down'[s] = {}
         /\ \A s \in Sessions : s \in S => sess'[s] = "closed" /\ down'[s] = {}
         /\ \A s \in Sessions : s \notin S => /\ sess'[s] = sess[s] /\ down'[s] = down[s]
                                         /\ raised'[s] = raised[s]
         /\ DOMAIN down' = Sessions /\ DOMAIN raised' = Sessions
BY DEF End, Blank
-----------------------------------------------------------------------------
(* A device that nothing happens to keeps its account.                         *)
LEMMA Undisturbed ==
  ASSUME NEW x \in Devices, Account(x),
         pc'[x] = pc[x], call'[x] = call[x], chord'[x] = chord[x], gen'[x] = gen[x],
         todo'[x] = todo[x], got'[x] = got[x], event'[x] = event[x], err'[x] = err[x],
         UNCHANGED <<generation, current>>,
         \A i \in Inputs : Device[i] = x => refs'[generation][i] = refs[generation][i],
         \A c \in Of(x) : holds'[c] = holds[c],
         Live' => Live /\ \A i \in Inputs : Device[i] = x =>
                            /\ i \in down'[current] <=> i \in down[current]
                            /\ i \in raised'[current] <=> i \in raised[current],
         doubt \subseteq doubt', Doomed => Doomed'
  PROVE  Account(x)'
<1>1. Busy(x)' = Busy(x) /\ Calling(x)' = Calling(x) /\ Clean(x)' = Clean(x)
  BY DEF Busy, Calling, Clean
<1>2. \A i \in Inputs : Device[i] = x => Count(i)' = Count(i)
  BY DEF Count
<1>3. \A c \in Of(x) : /\ \A i \in Keys(c) : i \in Inputs /\ Device[i] = x
                       /\ c.main \in Inputs /\ Device[c.main] = x
  BY Parts DEF Of
<1>4. \A i \in Inputs : Device[i] = x => Users(i)' = Users(i)
  <2>1. SUFFICES ASSUME NEW i \in Inputs, Device[i] = x, NEW c \in Chords, i \in Keys(c)
                 PROVE  holds'[c] = holds[c]
    BY DEF Users, Keys
  <2>2. c \in Of(x)
    BY <2>1, Parts DEF Of
  <2> QED BY <2>2
<1>5. Staged(x)'
  BY <1>1, <1>2, <1>3 DEF Account, Staged, Transacting, Calling
<1>6. Kept(x)'
  <2>1. Calling(x) /\ call[x] # "burst" => chord[x] \in Of(x)
    BY DEF Account, Staged
  <2>2. \A i \in Inputs, c \in Chords : Device[i] = x /\ i \in Keys(c) => c \in Of(x)
    BY Parts DEF Of
  <2> QED BY <1>1, <2>1, <2>2 DEF Account, Kept
<1>7. Due(x)'
  <2>1. Pressing(x)' = Pressing(x)
    BY DEF Pressing
  <2>2. pc[x] = "press" => Pressing(x) \subseteq Keys(chord[x]) /\ chord[x] \in Of(x)
    BY DEF Account, Staged, Pressing, Keys, Calling, Transacting
  <2>3. pc[x] = "release" => todo[x] \subseteq Keys(chord[x]) /\ chord[x] \in Of(x)
    BY DEF Account, Staged, Calling, Transacting
  <2> QED BY <1>2, <1>3, <2>1, <2>2, <2>3 DEF Account, Due
<1>8. Balanced(x)'
  BY <1>1, <1>2, <1>4 DEF Account, Balanced, Acquired, Released, One
<1>9. Matched(x)'
  BY <1>1, <1>2 DEF Account, Matched
<1> QED BY <1>5, <1>6, <1>7, <1>8, <1>9 DEF Account

(* A new generation begins with no references and no holds.                    *)
LEMMA Renewed ==
  ASSUME NEW x \in Devices, Account(x), Typing, Future, ~Busy(x), event[x] = Nobody,
         \/ pc'[x] = pc[x]
         \/ pc[x] = "closing" /\ pc'[x] = "ending",
         call'[x] = call[x], chord'[x] = chord[x], gen'[x] = gen[x],
         todo'[x] = todo[x], got'[x] = got[x], event'[x] = event[x], err'[x] = err[x],
         generation' = generation + 1, generation + 1 \in Generations,
         UNCHANGED <<refs, holds>>, Live' => down'[current'] = {}
  PROVE  Account(x)'
<1>1. ~Busy(x)' /\ (Calling(x)' <=> Calling(x)) /\ (Calling(x) => pc[x] = "waiting")
  BY DEF Busy, Calling, Transacting
<1>2. generation + 1 > generation /\ \A n \in Nat : n <= generation => n < generation + 1
  BY DEF Typing
<1>3. \A i \in Inputs : Count(i)' = 0
  BY <1>2 DEF Count, Future
<1>4. \A i : Users(i)' = {}
  BY <1>2 DEF Users, Future, Typing
<1>5. Cardinality({}) = 0
  BY FS_EmptySet
<1>6. Staged(x)'
  BY <1>1, <1>2 DEF Account, Staged, Transacting, Future, Typing, Busy
<1>7. Kept(x)' /\ Due(x)'
  BY <1>1 DEF Account, Kept, Due
<1>8. Acquired(x)' = {} /\ Released(x)' = {}
  BY <1>1 DEF Acquired, Released, Busy, Transacting
<1>9. Balanced(x)'
  <2>1. \A i \in Inputs : One(i \in Released(x))' = 0 /\ One(i \in Acquired(x))' = 0
    BY <1>8 DEF One
  <2>2. \A i \in Inputs : Cardinality(Users(i))' = 0
    BY <1>4, <1>5
  <2> QED BY <1>3, <2>1, <2>2 DEF Balanced
<1>10. Matched(x)'
  <2>1. \A i \in Inputs : ~(Count(i)' > 0)
    BY <1>3
  <2> QED BY <2>1 DEF Matched
<1> QED BY <1>6, <1>7, <1>9, <1>10 DEF Account

(* Who is not in a transaction has no event under way.                         *)
LEMMA Quiet ==
  ASSUME Inv, NEW x \in Devices, op # x
  PROVE  ~Busy(x) /\ event[x] = Nobody
BY Names DEF Inv, Locked, Asked, Holding, Transacting, Busy
-----------------------------------------------------------------------------
(* The portal ends a session, and everything that it holds down.               *)
LEMMA PortalClosesRest ==
  ASSUME Inv, Rest, NEW s \in Sessions, PortalCloses(s)
  PROVE  Rest'
<1>1. UNCHANGED <<state, op, pending, mine, ledger, pc, call, local, bounds, doubt>>
      /\ End({s}) /\ sess[s] = "open"
  BY DEF PortalCloses, Open
<1>2. UNCHANGED <<current, generation, op, start, token, closing, mine, refs, holds, pc,
                  call, chord, gen, todo, got, event, err, starts, closes, doubt>>
  BY <1>1 DEF state, pending, ledger, local, bounds
<1>3. Blank'
  BY <1>1, <1>2, EndBlank, Names DEF Rest, Blank, Inv, Shape, Sessions
<1>4. Typing' /\ Kinds' /\ Future'
  BY <1>1, <1>2, EndBlank DEF Rest, Typing, Kinds, Future
<1>5. Counted' /\ Bounded'
  BY <1>2 DEF Rest, Counted, Closers, Doomed, Bounded, Debt, Starters, Enterers, Fallen
<1>6. Live' => Live /\ down'[current] = down[current] /\ raised'[current] = raised[current]
  BY <1>1, <1>2, EndBlank DEF Rest, Live, Open
<1>7. Doomed' = Doomed
  BY <1>2 DEF Doomed
<1>8. ASSUME NEW d \in Devices PROVE Account(d)'
  BY <1>2, <1>6, <1>7, Undisturbed DEF Rest
<1> QED BY <1>3, <1>4, <1>5, <1>8 DEF Rest

(* A controller that begins a start: one more is paid for.                     *)
LEMMA StartRest ==
  ASSUME Inv, Inv', Rest, NEW p \in Controllers, Start(p)
  PROVE  Rest'
<1>1. /\ pc[p] = "idle" /\ starts < MaxStarts /\ starts' = starts + 1
      /\ pc' = [pc EXCEPT ![p] = "starting"] /\ call' = [call EXCEPT ![p] = "start"]
      /\ UNCHANGED <<sess, down, raised, current, generation, op, start, token, closing,
                     mine, refs, holds, chord, gen, todo, got, event, err, closes, doubt>>
  BY DEF Start, Go, portal, state, pending, ledger, local
<1>2. p \in Procs /\ p \notin Devices
  BY Names
<1>3. \A q \in Procs : q # p => pc'[q] = pc[q] /\ call'[q] = call[q]
  BY <1>1 DEF Inv, Shape, Rest, Typing
<1>4. pc'[p] = "starting" /\ Live' = Live
  BY <1>1, <1>2 DEF Inv, Shape, Live, Open
<1>5. Typing' /\ Kinds' /\ Blank' /\ Future'
  BY <1>1, <1>2, <1>3, <1>4, Names DEF Rest, Typing, Kinds, Blank, Future
<1>6. Closers' = Closers /\ Doomed' = Doomed /\ Enterers' = Enterers /\ Fallen' = Fallen
  BY <1>1, <1>2, <1>3, <1>4, Names DEF Closers, Doomed, Enterers, Fallen
<1>7. Counted'
  BY <1>1, <1>2, <1>3, <1>6, Names DEF Rest, Counted
<1>8. Bounded'
  <2>1. Starters' = Starters \cup {p} /\ p \notin Starters
    BY <1>1, <1>2, <1>3, <1>4, Names DEF Starters
  <2>2. IsFiniteSet(Starters') /\ Cardinality(Starters') = Cardinality(Starters) + 1
        /\ Cardinality(Starters) \in Nat
    BY <2>1, FS_AddElement, FS_CardinalityType DEF Rest, Bounded
  <2>3. Debt' = Debt
    BY <1>1, <1>6 DEF Debt
  <2>4. starts' - Cardinality(Starters') = starts - Cardinality(Starters)
    BY <2>2, <1>1 DEF Rest, Typing
  <2>5. Cardinality(Starters') <= starts' /\ starts' <= MaxStarts
    BY <2>2, <1>1, Names DEF Rest, Typing, Bounded
  <2> QED BY <2>2, <2>3, <2>4, <2>5, <1>1, <1>6 DEF Rest, Bounded
<1>9. ASSUME NEW d \in Devices PROVE Account(d)'
  BY <1>1, <1>2, <1>3, <1>4, <1>6, Names, Undisturbed DEF Rest
<1> QED BY <1>5, <1>7, <1>8, <1>9 DEF Rest

(* A start that is over has done with what it was paid for.                    *)
LEMMA StarterDone ==
  ASSUME Typing, Bounded, NEW p \in Controllers, p \in Starters,
         Starters' = Starters \ {p}, Enterers' = Enterers,
         UNCHANGED <<starts, closes>>, Fallen' = Fallen,
         \/ UNCHANGED <<current, generation>>
         \/ generation' = generation + 1
  PROVE  Bounded'
<1> DEFINE D == Cardinality(Devices)
           n == starts - Cardinality(Starters)
           E == Cardinality(Enterers)
<1>1. IsFiniteSet(Starters') /\ Cardinality(Starters') = Cardinality(Starters) - 1
      /\ Cardinality(Starters) \in Nat /\ Cardinality(Starters') \in Nat
  BY FS_RemoveElement, FS_CardinalityType DEF Bounded
<1>2. Fallen \subseteq Devices
  BY DEF Fallen
<1>3. Cardinality(Fallen) \in Nat /\ Cardinality(Fallen) <= D /\ D \in Nat
  BY <1>2, Parts, FS_Subset, FS_CardinalityType
<1>4. Debt \in Nat /\ Debt' \in Nat /\ Debt' <= D /\ (current' = current => Debt' = Debt)
  BY <1>3 DEF Debt
<1>5. n \in Nat /\ starts' - Cardinality(Starters') = n + 1
  BY <1>1 DEF Bounded, Typing
<1>6. (D + 1) * (n + 1) = (D + 1) * n + D + 1 /\ (D + 1) * n \in Nat
  <2> HIDE DEF D, n
  <2> QED BY <1>3, <1>5
<1>7. generation + Debt + E <= (D + 1) * n + closes
  BY DEF Bounded
<1>8. generation' + Debt' + E <= (D + 1) * (n + 1) + closes
  <2>1. E \in Nat /\ generation \in Nat /\ closes \in Nat
    BY FS_CardinalityType DEF Bounded, Typing
  <2> HIDE DEF D, n, E
  <2> QED BY <2>1, <1>3, <1>4, <1>6, <1>7
<1>9. Cardinality(Starters') <= starts'
  BY <1>1 DEF Bounded, Typing
<1> QED BY <1>1, <1>5, <1>8, <1>9 DEF Bounded

(* A start gets the operation, or is cancelled by a close.                     *)
LEMMA StartEntersRest ==
  ASSUME Inv, Inv', Rest, NEW p \in Controllers, StartEnters(p)
  PROVE  Rest'
<1>1. /\ pc[p] = "starting" /\ op = Nobody
      /\ \/ pc' = [pc EXCEPT ![p] = "idle"] /\ op' = op
            /\ call' = [call EXCEPT ![p] = "none"]
         \/ pc' = [pc EXCEPT ![p] = "opening"] /\ op' = p /\ call' = call
      /\ UNCHANGED <<sess, down, raised, current, generation, token, closing, mine, refs,
                     starts, holds, chord, gen, todo, got, event, err, closes, doubt>>
  BY DEF StartEnters, Idle, Go, portal, state, pending, ledger, local, bounds
<1>2. p \in Procs /\ p \notin Devices /\ Nobody \notin Devices
  BY Names
<1>3. \A q \in Procs : q # p => pc'[q] = pc[q] /\ call'[q] = call[q]
  BY <1>1 DEF Inv, Shape, Rest, Typing
<1>4. pc'[p] \in {"idle", "opening"} /\ Live' = Live
  BY <1>1, <1>2 DEF Inv, Shape, Live, Open
<1>5. Typing' /\ Kinds' /\ Blank' /\ Future'
  BY <1>1, <1>2, <1>3, <1>4, Names DEF Rest, Typing, Kinds, Blank, Future
<1>6. Closers' = Closers /\ Doomed' = Doomed /\ Enterers' = Enterers /\ Fallen' = Fallen
  BY <1>1, <1>2, <1>3, <1>4, Names DEF Closers, Doomed, Enterers, Fallen
<1>7. token = "none"
  BY <1>1, <1>2 DEF Rest, Counted
<1>8. Counted'
  BY <1>1, <1>2, <1>6, <1>7, Names DEF Rest, Counted
<1>9. Bounded'
  <2>1. CASE pc'[p] = "idle"
    <3>1. Starters' = Starters \ {p} /\ p \in Starters
      BY <1>1, <1>2, <1>3, <2>1, Names DEF Starters
    <3> QED BY <3>1, <1>1, <1>6, StarterDone DEF Rest
  <2>2. CASE pc'[p] = "opening"
    <3>1. Starters' = Starters
      BY <1>1, <1>2, <1>3, <2>2, Names DEF Starters
    <3> QED BY <3>1, <1>1, <1>6, BoundedStays DEF Rest
  <2> QED BY <1>4, <2>1, <2>2
<1>10. ASSUME NEW d \in Devices PROVE Account(d)'
  BY <1>1, <1>2, <1>3, <1>4, <1>6, Names, Undisturbed DEF Rest
<1> QED BY <1>5, <1>8, <1>9, <1>10 DEF Rest

(* The user consents: the new session holds nothing.                           *)
LEMMA ConsentRest ==
  ASSUME Inv, Inv', Rest, NEW p \in Controllers, Consent(p)
  PROVE  Rest'
<1>1. PICK s \in Sessions :
      /\ pc[p] = "opening" /\ sess[s] = "none" /\ sess' = [sess EXCEPT ![s] = "open"]
      /\ mine' = s /\ pc' = [pc EXCEPT ![p] = "replacing"]
      /\ UNCHANGED <<down, raised, current, generation, op, token, closing, refs, starts,
                     call, holds, chord, gen, todo, got, event, err, closes, doubt>>
  BY DEF Consent, Go, state, pending, ledger, local, bounds
<1>2. p \in Procs /\ p \notin Devices
  BY Names
<1>3. \A q \in Procs : q # p => pc'[q] = pc[q]
  BY <1>1 DEF Inv, Shape
<1>4. pc'[p] = "replacing" /\ current # s
  BY <1>1, <1>2, Names DEF Inv, Shape, Rest, Blank
<1>5. /\ Live' = Live /\ down[s] = {}
      /\ \A t \in Sessions : sess'[t] = IF t = s THEN "open" ELSE sess[t]
  BY <1>1, <1>4 DEF Inv, Shape, Live, Open, Rest, Blank
<1>6. Blank'
  BY <1>1, <1>3, <1>5, Names DEF Rest, Blank, Inv, Shape, Sessions
<1>7. Typing' /\ Kinds' /\ Future'
  BY <1>1, <1>2, <1>3, <1>4, Names DEF Rest, Typing, Kinds, Future
<1>8. Closers' = Closers /\ Doomed' = Doomed /\ Enterers' = Enterers /\ Fallen' = Fallen
      /\ Starters' = Starters
  BY <1>1, <1>2, <1>3, <1>4, Names DEF Closers, Doomed, Enterers, Fallen, Starters
<1>9. Counted' /\ Bounded'
  BY <1>1, <1>2, <1>3, <1>8, Names, BoundedStays DEF Rest, Counted
<1>10. ASSUME NEW d \in Devices PROVE Account(d)'
  BY <1>1, <1>2, <1>3, <1>5, <1>8, Names, Undisturbed DEF Rest
<1> QED BY <1>6, <1>7, <1>9, <1>10 DEF Rest

(* A start that ends makes a new generation, unless it leaves everything as it *)
(* was.                                                                        *)
LEMMA StartEnds ==
  ASSUME Inv, Inv', Rest, NEW p \in Controllers, pc[p] \in {"opening", "replacing"},
         StartReturns(p), DOMAIN down' = Sessions, DOMAIN raised' = Sessions,
         UNCHANGED <<token, closing, refs, holds, chord, gen, todo, got, event, err,
                     starts, closes, doubt>>,
         Blank',
         \/ /\ UNCHANGED <<sess, down, raised, current, generation>>
         \/ /\ generation' = generation + 1
            /\ Live' => down'[current'] = {}
  PROVE  Rest'
<1>1. /\ pc' = [pc EXCEPT ![p] = "idle"] /\ call' = [call EXCEPT ![p] = "none"]
      /\ op' = Nobody
  BY DEF StartReturns, Idle, Go
<1>2. p \in Procs /\ p \notin Devices /\ op = p
  BY Names DEF Inv, Locked, Holding
<1>3. \A q \in Procs : q # p => pc'[q] = pc[q] /\ call'[q] = call[q]
  BY <1>1 DEF Inv, Shape, Rest, Typing
<1>4. pc'[p] = "idle"
  BY <1>1, <1>2 DEF Inv, Shape
<1>5. Typing' /\ Kinds' /\ Future'
  BY <1>1, <1>2, <1>3, <1>4, Names, Parts DEF Rest, Typing, Kinds, Future
<1>6. Closers' = Closers /\ Doomed' = Doomed /\ Enterers' = Enterers /\ Fallen' = Fallen
      /\ Starters' = Starters \ {p} /\ p \in Starters
  BY <1>1, <1>2, <1>3, <1>4, Names DEF Closers, Doomed, Enterers, Fallen, Starters
<1>7. token = "none"
  BY <1>2 DEF Rest, Counted
<1>8. Counted'
  BY <1>1, <1>2, <1>6, <1>7, Names DEF Rest, Counted
<1>9. Bounded'
  BY <1>6, StarterDone DEF Rest
<1>10. ASSUME NEW d \in Devices PROVE Account(d)'
  <2>1. Account(d) /\ d # p /\ d \in Procs
    BY <1>2, Names DEF Rest
  <2>2. pc'[d] = pc[d] /\ call'[d] = call[d] /\ ~Busy(d) /\ event[d] = Nobody
    BY <1>2, <1>3, <2>1, Quiet
  <2>3. CASE UNCHANGED <<sess, down, raised, current, generation>>
    BY <2>1, <2>2, <2>3, <1>6, Undisturbed DEF Live, Open
  <2>4. CASE generation' = generation + 1 /\ (Live' => down'[current'] = {})
    <3>1. generation + 1 \in Generations
      BY <1>5, <1>9, <2>4, NextGenerationFits
    <3> QED BY <2>1, <2>2, <2>4, <3>1, Renewed DEF Rest
  <2> QED BY <2>3, <2>4
<1> QED BY <1>5, <1>8, <1>9, <1>10 DEF Rest

(* It fails, or the new session takes the place of the old one.                *)
LEMMA OpenReplaceRest ==
  ASSUME Inv, Inv', Rest, NEW p \in Controllers, OpenFails(p) \/ Replace(p)
  PROVE  Rest'
<1>1. p \in Procs
  BY Names
<1>2. CASE OpenFails(p)
  <2>1. pc[p] = "opening" /\ StartReturns(p)
        /\ UNCHANGED <<sess, down, raised, token, closing, mine, refs, holds, chord, gen,
                       todo, got, event, err, starts, closes, doubt>>
    BY <1>2 DEF OpenFails, portal, ledger, local, bounds
  <2>2. \/ UNCHANGED <<current, generation>>
        \/ current' = 0 /\ generation' = generation + 1
    BY <1>2 DEF OpenFails, state
  <2>3. Blank'
    <3>1. \A q \in Procs : pc'[q] = "replacing" => pc[q] = "replacing"
      BY <1>1, <2>1 DEF StartReturns, Idle, Go, Inv, Shape
    <3> QED BY <2>1, <2>2, <3>1 DEF Rest, Blank, Typing
  <2>4. current' = 0 => ~Live'
    BY Names DEF Live, Open
  <2> QED BY <2>1, <2>2, <2>3, <2>4, StartEnds DEF Rest, Typing
<1>3. CASE Replace(p)
  <2>1. pc[p] = "replacing" /\ StartReturns(p) /\ generation' = generation + 1 /\ mine' = 0
        /\ UNCHANGED <<token, closing, refs, holds, chord, gen, todo, got,
                       event, err, starts, closes, doubt>>
    BY <1>3 DEF Replace, portal, ledger, local, bounds
  <2>2. PICK S : End(S) /\ current' \in {mine, 0}
    BY <1>3 DEF Replace
  <2>3. mine # 0 => mine \in Sessions /\ sess[mine] # "none" /\ down[mine] = {}
    BY <1>1, <2>1, Names DEF Rest, Blank, Inv, Shape, Sessions
  <2>4. current' # 0 => current' \in Sessions /\ sess'[current'] # "none" /\ down'[current'] = {}
    BY <2>2, <2>3, EndBlank DEF Rest
  <2>5. generation' > 0
    BY <2>1 DEF Rest, Typing
  <2>6. Blank'
    BY <2>1, <2>2, <2>4, <2>5, EndBlank DEF Rest, Blank
  <2>7. Live' => down'[current'] = {}
    BY <2>4, Names DEF Live, Open
  <2>8. DOMAIN down' = Sessions /\ DOMAIN raised' = Sessions
    BY <2>2, EndBlank DEF Rest
  <2> QED BY <2>1, <2>6, <2>7, <2>8, StartEnds
<1> QED BY <1>2, <1>3

(* A close is announced: the session is doomed.                                *)
LEMMA CloseRest ==
  ASSUME Inv, Inv', Rest, NEW p \in Procs, Close(p)
  PROVE  Rest'
<1>1. /\ pc' = [pc EXCEPT ![p] = "closing"] /\ closing' = closing + 1
      /\ token' = Cancelled(token)
      /\ UNCHANGED <<sess, down, raised, current, generation, op, mine, refs, holds,
                     chord, gen, todo, got, event, err, starts, doubt>>
  BY DEF Close, Cancel, Go, portal, state, ledger, local
<1>2. \/ /\ p \in Controllers /\ pc[p] = "idle" /\ closes < MaxCloses /\ closes' = closes + 1
         /\ \E how \in {"close", "wayland"} : call' = [call EXCEPT ![p] = how]
      \/ p \in Devices /\ pc[p] = "failed" /\ UNCHANGED <<closes, call>>
  BY DEF Close
<1>3. /\ \A q \in Procs : q # p => pc'[q] = pc[q] /\ call'[q] = call[q]
      /\ DOMAIN call' = Procs
  BY <1>1, <1>2 DEF Inv, Shape, Rest, Typing
<1>4. pc'[p] = "closing" /\ Live' = Live /\ Doomed'
  BY <1>1 DEF Inv, Shape, Live, Open, Doomed
<1>5. closes' \in Nat /\ closes' <= MaxCloses
  BY <1>2, Parts DEF Rest, Typing, Bounded
<1>6. Typing' /\ Kinds' /\ Blank' /\ Future'
  BY <1>1, <1>2, <1>3, <1>4, <1>5, Names DEF Rest, Typing, Kinds, Blank, Future
<1>7. Starters' = Starters
  BY <1>1, <1>2, <1>3, <1>4, Names DEF Starters
<1>8. Counted'
  <2>1. Closers' = Closers \cup {p} /\ p \notin Closers
    BY <1>2, <1>3, <1>4 DEF Closers
  <2>2. IsFiniteSet(Closers') /\ closing' = Cardinality(Closers')
    BY <2>1, <1>1, FS_AddElement DEF Rest, Counted
  <2>3. (token' # "none" <=> token # "none") /\ token' \in {"none", "live", "cancelled"}
    BY <1>1 DEF Cancelled, Rest, Counted
  <2>4. pc[p] \notin Transacting /\ pc'[p] \notin Transacting
    BY <1>2, <1>4 DEF Transacting
  <2>5. op \in Devices => (pc'[op] \in Transacting <=> pc[op] \in Transacting)
    BY <2>4, <1>3, Names
  <2> QED BY <2>2, <2>3, <2>5, <1>1, <1>4 DEF Rest, Counted
<1>9. Bounded'
  <2>1. CASE p \in Controllers
    <3>1. Enterers' = Enterers \cup {p} /\ p \notin Enterers /\ Fallen' = Fallen
      BY <1>2, <1>3, <1>4, <2>1, Names DEF Enterers, Fallen
    <3>2. IsFiniteSet(Enterers') /\ Cardinality(Enterers') = Cardinality(Enterers) + 1
          /\ Cardinality(Enterers) \in Nat
      BY <3>1, FS_AddElement, FS_CardinalityType DEF Rest, Bounded
    <3>3. Debt' = Debt /\ closes' = closes + 1
      BY <3>1, <1>1, <1>2, <2>1, Names DEF Debt
    <3> DEFINE X == (Cardinality(Devices) + 1) * (starts - Cardinality(Starters))
               Y == generation + Debt
    <3>4. Y + Cardinality(Enterers) <= X + closes
      BY DEF Rest, Bounded
    <3>5. X \in Int /\ Y \in Int
      <4>1. Cardinality(Starters) \in Nat /\ starts \in Nat /\ generation \in Nat
        BY FS_CardinalityType DEF Rest, Bounded, Typing
      <4>2. Debt \in Nat
        <5>1. Fallen \subseteq Devices
          BY DEF Fallen
        <5> QED BY <5>1, Parts, FS_Subset, FS_CardinalityType DEF Debt
      <4> DEFINE D == Cardinality(Devices)
                 n == starts - Cardinality(Starters)
      <4>3. n \in Int /\ D \in Nat
        BY <4>1, Parts
      <4>4. (D + 1) * n \in Int
        <5> HIDE DEF D, n
        <5> QED BY <4>3
      <4> QED BY <4>1, <4>2, <4>4
    <3>6. Y + Cardinality(Enterers') <= X + closes'
      <4> HIDE DEF X, Y
      <4> QED BY <3>2, <3>3, <3>4, <3>5 DEF Rest, Typing
    <3> QED BY <3>2, <3>3, <3>6, <1>1, <1>5, <1>7 DEF Rest, Bounded
  <2>2. CASE p \in Devices
    <3>1. Enterers' = Enterers /\ Fallen' = Fallen /\ closes' = closes
      BY <1>2, <1>3, <1>4, <2>2, Names DEF Enterers, Fallen
    <3> QED BY <3>1, <1>1, <1>7, BoundedStays DEF Rest
  <2> QED BY <1>2, <2>1, <2>2
<1>10. ASSUME NEW d \in Devices PROVE Account(d)'
  <2>1. CASE d # p
    BY <1>1, <1>3, <1>4, <2>1, Names, Undisturbed DEF Rest
  <2>2. CASE d = p
    <3>1. pc[d] = "failed" /\ call' = call /\ event[d] = Nobody /\ Account(d)
      BY <1>2, <2>2, Names DEF Rest, Inv, Asked
    <3>2. Staged(d)' /\ Kept(d)' /\ Due(d)'
      BY <1>1, <1>4, <2>2, <3>1 DEF Account, Staged, Kept, Due, Busy, Calling, Transacting
    <3>3. \A i : Users(i)' = Users(i) /\ Count(i)' = Count(i)
      BY <1>1 DEF Users, Count
    <3>4. Clean(d)' => Clean(d)
      BY <1>1, <1>4, <2>2, <3>1 DEF Clean, Busy, Transacting
    <3>5. Balanced(d)'
      BY <1>4, <2>2, <3>1, <3>3, <3>4 DEF Account, Balanced, Acquired, Released
    <3>6. Matched(d)'
      BY <1>4 DEF Matched
    <3> QED BY <3>2, <3>5, <3>6 DEF Account
  <2> QED BY <2>1, <2>2
<1> QED BY <1>6, <1>8, <1>9, <1>10 DEF Rest

(* It takes the session out, and a new generation begins.                      *)
LEMMA CloseEntersRest ==
  ASSUME Inv, Inv', Rest, NEW p \in Procs, CloseEnters(p)
  PROVE  Rest'
<1>1. /\ pc[p] = "closing" /\ op = Nobody /\ op' = p /\ mine' = current /\ current' = 0
      /\ generation' = generation + 1 /\ pc' = [pc EXCEPT ![p] = "ending"]
      /\ UNCHANGED <<sess, down, raised, start, token, closing, refs, holds, call, chord,
                     gen, todo, got, event, err, starts, closes, doubt>>
  BY DEF CloseEnters, Go, portal, pending, ledger, local, bounds
<1>2. \A q \in Procs : q # p => pc'[q] = pc[q]
  BY <1>1 DEF Inv, Shape
<1>3. pc'[p] = "ending" /\ ~Live' /\ token = "none"
  BY <1>1, Names DEF Inv, Shape, Live, Open, Rest, Counted
<1>4. Typing' /\ Kinds' /\ Future'
  <2>1. \A n \in Nat : /\ n > generation + 1 => n > generation
                       /\ n <= generation => n <= generation + 1
    BY DEF Rest, Typing
  <2>2. Future'
    BY <1>1, <2>1, Parts DEF Rest, Typing, Future
  <2> QED BY <1>1, <1>2, <1>3, <2>2, Names DEF Rest, Typing, Kinds
<1>5. Blank'
  <2>1. \A q \in Procs : pc'[q] # "replacing"
    BY <1>1, <1>2, <1>3, Names DEF Inv, Locked, Holding
  <2> QED BY <1>1, <2>1 DEF Rest, Blank
<1>6. Starters' = Starters /\ Closers' = Closers
  BY <1>1, <1>2, <1>3, Names DEF Starters, Closers
<1>7. Counted'
  <2>1. pc'[op'] \notin Transacting
    BY <1>1, <1>3 DEF Transacting
  <2> QED BY <2>1, <1>1, <1>3, <1>6 DEF Rest, Counted
<1>8. Bounded'
  <2> DEFINE F == Cardinality(Fallen)
             E == Cardinality(Enterers)
             X == (Cardinality(Devices) + 1) * (starts - Cardinality(Starters)) + closes
  <2>1. Fallen \subseteq Devices /\ IsFiniteSet(Fallen)
    BY Parts, FS_Subset DEF Fallen
  <2>2. F \in Nat /\ F <= Debt /\ Debt \in Nat /\ E \in Nat /\ generation \in Nat
    BY <2>1, Parts, FS_Subset, FS_CardinalityType DEF Rest, Bounded, Debt, Typing
  <2>3. generation + Debt + E <= X
    BY DEF Rest, Bounded
  <2>4. X \in Int
    <3> DEFINE D == Cardinality(Devices)
               n == starts - Cardinality(Starters)
    <3>1. n \in Int /\ D \in Nat /\ closes \in Nat
      BY Parts, FS_CardinalityType DEF Rest, Bounded, Typing
    <3>2. (D + 1) * n \in Int
      <4> HIDE DEF D, n
      <4> QED BY <3>1
    <3> QED BY <3>1, <3>2
  <2>5. Debt' = Cardinality(Fallen')
    BY <1>1 DEF Debt
  <2>6. IsFiniteSet(Enterers') /\ generation + 1 + Cardinality(Fallen') + Cardinality(Enterers') <= X
    <3>1. CASE p \in Controllers
      <4>1. Enterers' = Enterers \ {p} /\ p \in Enterers /\ Fallen' = Fallen
        BY <1>1, <1>2, <1>3, <3>1, Names DEF Enterers, Fallen
      <4>2. IsFiniteSet(Enterers') /\ Cardinality(Enterers') = E - 1
        BY <4>1, FS_RemoveElement DEF Rest, Bounded
      <4> HIDE DEF X
      <4> QED BY <4>1, <4>2, <2>2, <2>3, <2>4
    <3>2. CASE p \in Devices
      <4>1. Fallen' = Fallen \ {p} /\ p \in Fallen /\ Enterers' = Enterers
        BY <1>1, <1>2, <1>3, <3>2, Names DEF Enterers, Fallen
      <4>2. Cardinality(Fallen') = F - 1
        BY <4>1, <2>1, FS_RemoveElement
      <4>3. IsFiniteSet(Enterers')
        BY <4>1 DEF Rest, Bounded
      <4> HIDE DEF X
      <4> QED BY <4>1, <4>2, <4>3, <2>2, <2>3, <2>4
    <3> QED BY <3>1, <3>2 DEF Procs
  <2> QED BY <2>5, <2>6, <1>1, <1>6 DEF Rest, Bounded
<1>9. ASSUME NEW d \in Devices PROVE Account(d)'
  <2>1. Account(d) /\ d \in Procs /\ d # op
    BY <1>1, Names DEF Rest
  <2>2. ~Busy(d) /\ event[d] = Nobody
    BY <2>1, Quiet
  <2>3. pc'[d] = pc[d] \/ (pc[d] = "closing" /\ pc'[d] = "ending")
    BY <1>1, <1>2, <1>3, <2>1
  <2>4. generation + 1 \in Generations
    BY <1>1, <1>4, <1>8, NextGenerationFits
  <2> QED BY <1>1, <1>3, <2>1, <2>2, <2>3, <2>4, Renewed DEF Rest
<1> QED BY <1>4, <1>5, <1>7, <1>8, <1>9 DEF Rest

(* The session ends; a device then forgets the generation it failed in.        *)
LEMMA CloseEndsRest ==
  ASSUME Inv, Inv', Rest, NEW p \in Procs, CloseEnds(p)
  PROVE  Rest'
<1>1. /\ pc[p] = "ending" /\ op = p /\ op' = Nobody /\ End({mine}) /\ mine' = 0
      /\ closing' = closing - 1
      /\ UNCHANGED <<current, generation, token, chord, gen, todo,
                     got, event, err, starts, closes, doubt>>
  BY Names DEF CloseEnds, Inv, Locked, Holding, state, local, bounds
<1>2. /\ \/ pc' = [pc EXCEPT ![p] = "wiping"] /\ call' = call /\ call[p] = "wayland"
         \/ pc' = [pc EXCEPT ![p] = "idle"] /\ call' = [call EXCEPT ![p] = "none"]
      /\ IF p \in Devices THEN Forget(p, gen[p]) ELSE UNCHANGED ledger
  BY DEF CloseEnds, Idle, Go
<1>3. /\ \A q \in Procs : q # p => pc'[q] = pc[q] /\ call'[q] = call[q]
      /\ DOMAIN call' = Procs
  BY <1>2 DEF Inv, Shape, Rest, Typing
<1>4. pc'[p] \in {"idle", "wiping"} /\ (p \in Devices => pc'[p] = "idle" /\ call'[p] = "none")
  BY <1>2 DEF Inv, Shape, Rest, Kinds, Typing
<1>5. /\ refs' \in [Generations -> [Inputs -> Nat]] /\ holds' \in [Chords -> Nat]
      /\ \A n \in Generations, i \in Inputs :
           refs'[n][i] = IF p \in Devices /\ n = gen[p] /\ Device[i] = p THEN 0
                         ELSE refs[n][i]
      /\ \A c \in Chords :
           holds'[c] = IF p \in Devices /\ c \in Of(p) /\ holds[c] = gen[p] THEN 0
                       ELSE holds[c]
  <2>1. CASE p \in Devices
    BY <1>2, <2>1, Forgotten DEF Rest
  <2>2. CASE p \notin Devices
    BY <1>2, <2>2 DEF Rest, Typing, ledger
  <2> QED BY <2>1, <2>2
<1>6. Typing' /\ Kinds'
  BY <1>1, <1>3, <1>4, <1>5, Names, EndBlank DEF Rest, Typing, Kinds
<1>7. Future'
  BY <1>1, <1>5 DEF Rest, Typing, Future
<1>8. Blank'
  <2>1. \A q \in Procs : pc'[q] = "replacing" => pc[q] = "replacing"
    BY <1>3, <1>4
  <2>2. current # 0 => current \in Sessions
    BY Names DEF Inv, Shape, Sessions
  <2> QED BY <1>1, <2>1, <2>2, EndBlank DEF Rest, Blank
<1>9. Live' => Live /\ down'[current] = down[current] /\ raised'[current] = raised[current]
  BY <1>1, EndBlank, Names DEF Rest, Live, Open
<1>10. Doomed' = Doomed /\ Starters' = Starters /\ Enterers' = Enterers /\ Fallen' = Fallen
  BY <1>1, <1>3, <1>4, Names DEF Doomed, Starters, Enterers, Fallen
<1>11. Counted'
  <2>1. Closers' = Closers \ {p} /\ p \in Closers
    BY <1>1, <1>3, <1>4 DEF Closers
  <2>2. IsFiniteSet(Closers') /\ closing' = Cardinality(Closers')
    BY <2>1, <1>1, FS_RemoveElement, FS_CardinalityType DEF Rest, Counted
  <2>3. token = "none"
    BY <1>1 DEF Rest, Counted, Transacting
  <2> QED BY <2>2, <2>3, <1>1, Names DEF Counted
<1>12. Bounded'
  BY <1>1, <1>10, BoundedStays DEF Rest
<1>13. ASSUME NEW d \in Devices PROVE Account(d)'
  <2>1. Account(d) /\ d \in Procs
    BY Names DEF Rest
  <2>2. CASE d # p
    <3>1. /\ \A i \in Inputs : Device[i] = d => refs'[generation][i] = refs[generation][i]
          /\ \A c \in Of(d) : holds'[c] = holds[c]
      <4>1. generation \in Generations
        BY GenerationFits DEF Rest
      <4> QED BY <4>1, <1>5, <2>2 DEF Of
    <3> QED BY <1>1, <1>3, <1>9, <1>10, <2>1, <2>2, <3>1, Undisturbed
  <2>3. CASE d = p
    <3>1. pc'[d] = "idle" /\ event[d] = Nobody /\ gen[d] < generation /\ todo[d] = {}
          /\ gen[d] \in Nat /\ generation \in Generations
      BY <1>1, <1>4, <2>1, <2>3, GenerationFits
         DEF Inv, Asked, Account, Staged, Rest, Typing, Busy, Transacting
    <3>2. generation > 0 /\ gen[d] # generation /\ 0 # generation
      BY <3>1 DEF Rest, Typing
    <3>3. Staged(d)' /\ Kept(d)' /\ Due(d)'
      BY <1>1, <3>1 DEF Staged, Kept, Due, Busy, Calling, Transacting
    <3>4. \A i \in Inputs : Count(i)' = Count(i)
      BY <1>1, <1>5, <2>3, <3>1, <3>2 DEF Count
    <3>5. \A i : Users(i)' = Users(i)
      BY <1>1, <1>5, <2>3, <3>2 DEF Users
    <3>6. Clean(d)
      BY <1>1, <2>3 DEF Clean, Busy, Transacting
    <3>7. Acquired(d) = {} /\ Acquired(d)' = {} /\ Released(d) = {} /\ Released(d)' = {}
      BY <1>1, <2>3, <3>1 DEF Acquired, Released
    <3>8. Balanced(d)'
      BY <2>1, <3>4, <3>5, <3>6, <3>7 DEF Account, Balanced
    <3>9. Matched(d)'
      BY <1>1, <1>9, <1>10, <2>1, <2>3, <3>1, <3>4, <3>6 DEF Account, Matched
    <3> QED BY <3>3, <3>8, <3>9 DEF Account
  <2> QED BY <2>2, <2>3
<1> QED BY <1>6, <1>7, <1>8, <1>11, <1>12, <1>13 DEF Rest

(* CloseWaylandInput forgets every hold of every session.                      *)
LEMMA WipeRest ==
  ASSUME Inv, Inv', Rest, NEW p \in Controllers, Wipe(p)
  PROVE  Rest'
<1>1. /\ pc[p] = "wiping" /\ (\A d \in Devices : pc[d] = "idle")
      /\ refs' = [g \in Generations |-> [i \in Inputs |-> 0]]
      /\ holds' = [c \in Chords |-> 0]
      /\ doubt' = doubt \cup {s \in Open : down[s] # {}}
      /\ pc' = [pc EXCEPT ![p] = "idle"] /\ call' = [call EXCEPT ![p] = "none"]
      /\ UNCHANGED <<sess, down, raised, current, generation, op, start, token, closing,
                     mine, chord, gen, todo, got, event, err, starts, closes>>
  BY DEF Wipe, Idle, Go, portal, state, pending, local, bounds
<1>2. p \in Procs /\ p \notin Devices
  BY Names
<1>3. \A q \in Procs : q # p => pc'[q] = pc[q] /\ call'[q] = call[q]
  BY <1>1 DEF Inv, Shape, Rest, Typing
<1>4. pc'[p] = "idle" /\ Live' = Live
  BY <1>1, <1>2 DEF Inv, Shape, Live, Open
<1>5. Typing' /\ Kinds' /\ Blank' /\ Future'
  BY <1>1, <1>2, <1>3, <1>4, Names, Parts DEF Rest, Typing, Kinds, Blank, Future
<1>6. /\ Closers' = Closers /\ Doomed' = Doomed /\ Enterers' = Enterers /\ Fallen' = Fallen
      /\ Starters' = Starters
  BY <1>1, <1>2, <1>3, <1>4, Names DEF Closers, Doomed, Enterers, Fallen, Starters
<1>7. Counted' /\ Bounded'
  BY <1>1, <1>2, <1>3, <1>6, Names, BoundedStays DEF Rest, Counted
<1>8. ASSUME NEW d \in Devices PROVE Account(d)'
  <2>1. pc[d] = "idle" /\ pc'[d] = "idle" /\ Account(d) /\ event[d] = Nobody
    BY <1>1, <1>2, <1>3, Names DEF Rest, Inv, Asked
  <2>2. Staged(d)' /\ Kept(d)' /\ Due(d)'
    BY <1>1, <2>1 DEF Account, Staged, Kept, Due, Busy, Calling, Transacting
  <2>3. generation \in Generations
    BY GenerationFits DEF Rest
  <2>4. \A i \in Inputs : Count(i)' = 0
    BY <1>1, <2>3 DEF Count
  <2>5. \A i : Users(i)' = {}
    BY <1>1 DEF Users
  <2>6. Cardinality({}) = 0
    BY FS_EmptySet
  <2>7. Balanced(d)'
    BY <2>1, <2>4, <2>5, <2>6 DEF Balanced, Acquired, Released, One
  <2>8. Live /\ current \notin doubt' => down[current] = {}
    BY <1>1 DEF Live
  <2>9. Matched(d)'
    BY <1>1, <1>4, <2>4, <2>8 DEF Matched
  <2> QED BY <2>2, <2>7, <2>9 DEF Account
<1> QED BY <1>5, <1>7, <1>8 DEF Rest

(* Starts and closes keep the account of every device.                         *)
LEMMA ControlRest ==
  ASSUME Inv, Rest, Control
  PROVE  Rest'
<1>1. Inv'
  BY ControlInv
<1> QED
  BY <1>1, PortalClosesRest, StartRest, StartEntersRest, ConsentRest, OpenReplaceRest,
     WipeRest, CloseRest, CloseEntersRest, CloseEndsRest DEF Control
-----------------------------------------------------------------------------
(* A device's step keeps everything if it keeps the account of that device and *)
(* leaves the references, holds and keys of the others alone.                  *)
LEMMA MovesRest ==
  ASSUME Inv, Inv', Rest, NEW d \in Devices, Moves(d), Account(d)',
         refs' \in [Generations -> [Inputs -> Nat]], holds' \in [Chords -> Nat],
         \A g \in Generations, i \in Inputs :
           g > generation \/ (g = generation /\ Device[i] # d) => refs'[g][i] = refs[g][i],
         \A c \in Chords : holds'[c] <= generation,
         \A c \in Chords \ Of(d) : holds'[c] = holds[c],
         \A i \in Inputs : Live' /\ Device[i] # d
                             => /\ i \in down'[current] <=> i \in down[current]
                                /\ i \in raised'[current] <=> i \in raised[current],
         doubt \subseteq doubt'
  PROVE  Rest'
<1>1. d \in Procs /\ UNCHANGED <<generation, current, starts, closes>>
  BY Names DEF Moves
<1>2. Kinds' /\ Counted' /\ Bounded' /\ Blank'
  BY MovesKeep DEF Rest
<1>3. Typing'
  BY <1>1 DEF Rest, Typing, Moves, Stays, portal
<1>4. Future'
  <2>1. \A x \in Devices : gen'[x] <= generation
    BY DEF Moves, Stays, Rest, Future, Typing
  <2> QED BY <1>1, <2>1 DEF Rest, Future
<1>5. Live' => Live
  BY Names, <1>1 DEF Moves, Live, Open, portal
<1>6. Doomed => Doomed'
  BY DEF Doomed, Moves, Stays, Transacting, Inv, Shape
<1>7. generation \in Generations
  BY GenerationFits DEF Rest
<1>8. ASSUME NEW x \in Devices PROVE Account(x)'
  <2>1. CASE x = d
    BY <2>1
  <2>2. CASE x # d
    <3>1. /\ x \in Procs /\ x \in DOMAIN pc /\ x \in DOMAIN call /\ x \in DOMAIN gen
          /\ x \in DOMAIN chord /\ x \in DOMAIN todo /\ x \in DOMAIN got
          /\ x \in DOMAIN event /\ x \in DOMAIN err
      BY Names DEF Inv, Shape, Rest, Typing
    <3>2. /\ pc'[x] = pc[x] /\ call'[x] = call[x] /\ gen'[x] = gen[x]
          /\ chord'[x] = chord[x] /\ todo'[x] = todo[x] /\ got'[x] = got[x]
          /\ event'[x] = event[x] /\ err'[x] = err[x]
      BY <2>2, <3>1 DEF Moves, Stays
    <3>3. \A i \in Inputs : Device[i] = x => refs'[generation][i] = refs[generation][i]
      BY <2>2, <1>7
    <3>4. \A c \in Of(x) : holds'[c] = holds[c]
      BY <2>2 DEF Of
    <3>5. Live' => Live /\ \A i \in Inputs : Device[i] = x =>
                             /\ i \in down'[current] <=> i \in down[current]
                             /\ i \in raised'[current] <=> i \in raised[current]
      BY <1>5, <2>2
    <3> QED BY <1>1, <1>6, <3>2, <3>3, <3>4, <3>5, Undisturbed DEF Rest
  <2> QED BY <2>1, <2>2
<1> QED BY <1>2, <1>3, <1>4, <1>8 DEF Rest

(* A call begins with nothing acquired.                                        *)
LEMMA BeginRest ==
  ASSUME Inv, Inv', Rest, NEW d \in Devices, pc[d] = "idle",
         NEW what \in {"down", "up", "tap", "burst"}, NEW c, NEW g \in Nat, NEW S,
         g <= generation, Begin(d, what, c, g, S),
         refs' \in [Generations -> [Inputs -> Nat]], holds' \in [Chords -> Nat],
         \A n \in Generations, i \in Inputs :
           n >= generation => refs'[n][i] = refs[n][i],
         \A k \in Chords :
           \/ holds'[k] = holds[k]
           \/ k \in Of(d) /\ holds'[k] = 0 /\ holds[k] # generation,
         what # "burst" => c \in Of(d),
         what \in {"down", "tap"} => S = {},
         what = "up" => holds'[c] = g,
         what = "down" => holds'[c] = 0,
         what = "burst" => \A i \in S : i \in Inputs /\ Device[i] = d
  PROVE  Rest'
<1>1. Moves(d)
  BY BeginMoves DEF Rest
<1>2. /\ pc'[d] = "waiting" /\ call'[d] = what /\ chord'[d] = c /\ gen'[d] = g
      /\ got'[d] = S /\ err'[d] = {} /\ UNCHANGED <<todo, event>>
      /\ UNCHANGED <<sess, down, raised, current, generation, doubt>>
  BY Names DEF Begin, Go, Inv, Shape, Rest, Typing, portal, state
<1>3. event[d] = Nobody /\ todo[d] = {} /\ Account(d)
  BY DEF Inv, Asked, Rest, Account, Staged, Busy, Transacting
<1>4. Staged(d)' /\ Kept(d)' /\ Due(d)'
  BY <1>2, <1>3 DEF Staged, Kept, Due, Busy, Calling, Transacting
<1>5. generation \in Generations /\ generation \in Nat
  BY GenerationFits DEF Rest, Typing
<1>6. \A i \in Inputs : Count(i)' = Count(i)
  BY <1>2, <1>5 DEF Count
<1>7. \A i : Users(i)' = Users(i)
  BY <1>2, <1>5 DEF Users
<1>8. Clean(d) /\ Acquired(d) = {} /\ Acquired(d)' = {} /\ Released(d) = {} /\ Released(d)' = {}
  BY <1>2 DEF Clean, Acquired, Released, Busy, Transacting
<1>9. Balanced(d)'
  BY <1>3, <1>6, <1>7, <1>8 DEF Account, Balanced
<1>10. Doomed => Doomed'
  BY <1>1 DEF Doomed, Moves, Stays, Inv, Shape, Transacting
<1>11. Matched(d)'
  BY <1>2, <1>3, <1>6, <1>8, <1>10 DEF Account, Matched, Live, Open
<1>12. \A k \in Chords : holds'[k] <= generation
  BY <1>5 DEF Rest, Future
<1>13. \A n \in Generations : n > generation \/ n = generation => n >= generation
  <2>1. \A n \in Nat : n > generation \/ n = generation => n >= generation
    BY <1>5
  <2> QED BY <2>1, Parts
<1> QED BY <1>1, <1>2, <1>4, <1>9, <1>11, <1>12, <1>13, MovesRest DEF Account

(* Downs, ups, taps, texts and clicks.                                         *)
LEMMA CallsRest ==
  ASSUME Inv, Rest, Calls
  PROVE  Rest'
<1>1. Inv'
  BY CallsInv
<1>2. /\ refs \in [Generations -> [Inputs -> Nat]] /\ holds \in [Chords -> Nat]
      /\ generation \in Nat /\ \A c \in Chords : holds[c] <= generation
  BY DEF Rest, Typing, Future
<1>3. ASSUME NEW d \in Devices, NEW c \in Chords, Down(d, c) PROVE Rest'
  <2>1. pc[d] = "idle" /\ c \in Of(d) /\ Begin(d, "down", c, 0, {})
    BY <1>3 DEF Down, Of
  <2>2. CASE holds[c] = 0
    <3>1. UNCHANGED <<refs, holds>>
      BY <1>3, <2>2 DEF Down, ledger
    <3> QED BY <1>1, <1>2, <2>1, <2>2, <3>1, BeginRest
  <2>3. CASE holds[c] # 0
    <3>1. Forget(d, holds[c]) /\ holds[c] # generation
      BY <1>3, <2>3 DEF Down
    <3>2. holds[c] < generation
      BY <3>1, <1>2
    <3>3. /\ refs' \in [Generations -> [Inputs -> Nat]] /\ holds' \in [Chords -> Nat]
          /\ \A n \in Generations, i \in Inputs : n >= generation => refs'[n][i] = refs[n][i]
          /\ \A k \in Chords : \/ holds'[k] = holds[k]
                               \/ k \in Of(d) /\ holds'[k] = 0 /\ holds[k] # generation
          /\ holds'[c] = 0
      BY <3>1, <3>2, <1>2, <2>1, Forgotten, Parts DEF Rest
    <3>4. 0 \in Nat /\ 0 <= generation /\ c \in Of(d)
      BY <1>2, <2>1
    <3> QED BY <1>1, <2>1, <3>3, <3>4, BeginRest, SMTT(60)
  <2> QED BY <2>2, <2>3
<1>4. ASSUME NEW d \in Devices, NEW c \in Chords, Up(d, c) PROVE Rest'
  <2>1. pc[d] = "idle" /\ c \in Of(d) /\ Begin(d, "up", c, holds[c], {})
        /\ UNCHANGED <<refs, holds>>
    BY <1>4 DEF Up, Of, ledger
  <2> QED BY <1>1, <1>2, <2>1, BeginRest
<1>5. ASSUME NEW c \in Chords, Tap(c) PROVE Rest'
  <2>1. pc[Keyboard] = "idle" /\ c \in Of(Keyboard) /\ Begin(Keyboard, "tap", c, 0, {})
        /\ UNCHANGED <<refs, holds>>
    BY <1>5 DEF Tap, Of, ledger
  <2> QED BY <1>1, <1>2, <2>1, Names, BeginRest
<1>6. ASSUME Text PROVE Rest'
  <2> DEFINE S == {i \in Typed : Device[i] = Keyboard}
  <2>1. pc[Keyboard] = "idle" /\ Begin(Keyboard, "burst", Nobody, 0, S)
        /\ UNCHANGED <<refs, holds>>
    BY <1>6 DEF Text, ledger
  <2>2. \A i \in S : i \in Inputs /\ Device[i] = Keyboard
    BY PortalAssumption
  <2> HIDE DEF S
  <2> QED BY <1>1, <1>2, <2>1, <2>2, Names, BeginRest
<1>7. ASSUME NEW d \in Devices, NEW b \in Typed, Click(d, b) PROVE Rest'
  <2>1. /\ d # Keyboard /\ pc[d] = "idle" /\ Device[b] = d
        /\ Begin(d, "burst", Nobody, 0, {b}) /\ UNCHANGED <<refs, holds>>
    BY <1>7 DEF Click, ledger
  <2>2. \A i \in {b} : i \in Inputs /\ Device[i] = d
    BY <2>1, PortalAssumption
  <2> QED BY <1>1, <1>2, <2>1, <2>2, BeginRest
<1> QED BY <1>3, <1>4, <1>5, <1>6, <1>7 DEF Calls

(* The end of a call without an event changes no count.                        *)
LEMMA IdleRest ==
  ASSUME Inv, Inv', Rest, NEW d \in Devices, Moves(d), pc'[d] = "idle", ~Busy(d),
         event[d] = Nobody, event' = event, todo'[d] = {},
         UNCHANGED <<sess, down, raised, doubt, refs, holds>>
  PROVE  Rest'
<1>1. UNCHANGED <<current, generation>> /\ Account(d) /\ Clean(d)
  BY DEF Moves, Rest, Clean, Busy
<1>2. Staged(d)' /\ Kept(d)' /\ Due(d)'
  BY DEF Staged, Kept, Due, Busy, Calling, Transacting
<1>3. \A i : Users(i)' = Users(i) /\ Count(i)' = Count(i)
  BY <1>1 DEF Users, Count
<1>4. Acquired(d) = {} /\ Acquired(d)' = {} /\ Released(d) = {} /\ Released(d)' = {}
  BY DEF Acquired, Released, Busy, Transacting
<1>5. Balanced(d)'
  BY <1>1, <1>3, <1>4 DEF Account, Balanced
<1>6. Doomed => Doomed'
  BY DEF Doomed, Moves, Stays, Inv, Shape, Transacting
<1>7. Matched(d)'
  BY <1>1, <1>3, <1>6 DEF Account, Matched, Live, Open, Busy, Transacting
<1> QED BY <1>1, <1>2, <1>5, <1>7, MovesRest DEF Account, Rest, Typing, Future

(* A generation that is forgotten has no references and no holds of the device *)
(* any more; while its session lives nobody forgets the current one.           *)
LEMMA ForgetRest ==
  ASSUME Inv, Inv', Rest, NEW d \in Devices, Moves(d), pc'[d] = "idle",
         event[d] = Nobody, event' = event, todo'[d] = {},
         UNCHANGED <<sess, down, raised, doubt>>,
         NEW g, Forget(d, g), g = generation => ~Live, Busy(d) => g = generation
  PROVE  Rest'
<1>1. UNCHANGED <<current, generation>> /\ Account(d) /\ (Live' <=> Live)
  BY DEF Moves, Rest, Live, Open
<1>2. generation \in Generations /\ generation \in Nat
  BY GenerationFits DEF Rest, Typing
<1>3. /\ refs' \in [Generations -> [Inputs -> Nat]] /\ holds' \in [Chords -> Nat]
      /\ \A n \in Generations, i \in Inputs :
           refs'[n][i] = IF n = g /\ Device[i] = d THEN 0 ELSE refs[n][i]
      /\ \A c \in Chords :
           holds'[c] = IF c \in Of(d) /\ holds[c] = g THEN 0 ELSE holds[c]
  BY Forgotten DEF Rest
<1>4. Staged(d)' /\ Kept(d)' /\ Due(d)'
  BY DEF Staged, Kept, Due, Busy, Calling, Transacting
<1>5. Acquired(d)' = {} /\ Released(d)' = {}
  BY DEF Acquired, Released
<1>6. CASE g = generation
  <2>1. \A i \in Inputs : Device[i] = d => Count(i)' = 0
    BY <1>1, <1>2, <1>3, <1>6 DEF Count
  <2>2. \A i \in Inputs : Device[i] = d => Users(i)' = {}
    <3>1. \A c \in Chords, i \in Inputs : Device[i] = d /\ i \in Keys(c) => c \in Of(d)
      BY Parts DEF Of
    <3> QED BY <3>1, <1>1, <1>2, <1>3, <1>6 DEF Users, Keys
  <2>3. Cardinality({}) = 0
    BY FS_EmptySet
  <2>4. Balanced(d)' /\ Matched(d)'
    BY <1>1, <1>5, <1>6, <2>1, <2>2, <2>3 DEF Balanced, Matched, One
  <2>5. \A c \in Chords : holds'[c] <= generation
    BY <1>2, <1>3 DEF Rest, Future
  <2>6. \A n \in Generations, i \in Inputs :
          n > generation \/ (n = generation /\ Device[i] # d) => refs'[n][i] = refs[n][i]
    <3>1. \A n \in Nat : n > generation => n # g
      BY <1>2, <1>6
    <3>2. \A n \in Generations, i \in Inputs : n # g \/ Device[i] # d
                                                => refs'[n][i] = refs[n][i]
      BY <1>3
    <3> QED BY <3>1, <3>2, Parts
  <2> QED BY <1>1, <1>3, <1>4, <2>4, <2>5, <2>6, MovesRest DEF Account
<1>7. CASE g # generation
  <2>1. ~Busy(d) /\ Clean(d)
    BY <1>7 DEF Clean, Busy, Moves
  <2>2. Acquired(d) = {} /\ Released(d) = {}
    BY <2>1 DEF Busy, Acquired, Released, Transacting
  <2>3. \A i \in Inputs : Count(i)' = Count(i)
    BY <1>1, <1>2, <1>3, <1>7 DEF Count
  <2>4. \A i : Users(i)' = Users(i)
    BY <1>1, <1>2, <1>3, <1>7 DEF Users
  <2>5. Doomed => Doomed'
    BY DEF Doomed, Moves, Stays, Inv, Shape, Transacting
  <2>6. Balanced(d)'
    BY <1>1, <1>5, <2>1, <2>2, <2>3, <2>4 DEF Account, Balanced
  <2>7. Matched(d)'
    BY <1>1, <2>1, <2>3, <2>5 DEF Account, Matched, Busy, Transacting
  <2>8. \A c \in Chords : holds'[c] <= generation
    BY <1>2, <1>3 DEF Rest, Future
  <2>9. \A n \in Generations, i \in Inputs :
          n > generation \/ (n = generation /\ Device[i] # d) => refs'[n][i] = refs[n][i]
    BY <1>3, <1>7 DEF Rest, Future
  <2> QED BY <1>1, <1>3, <1>4, <2>6, <2>7, <2>8, <2>9, MovesRest DEF Account
<1> QED BY <1>6, <1>7

(* A call that fails takes the device out of the account.                      *)
LEMMA FailedRest ==
  ASSUME Inv, Inv', Rest, NEW d \in Devices, Moves(d), pc'[d] = "failed",
         event[d] = Nobody, event' = event, todo'[d] = {}, gen'[d] = generation,
         UNCHANGED <<sess, down, raised, doubt, refs, holds>>
  PROVE  Rest'
<1>1. UNCHANGED <<current, generation>>
  BY DEF Moves
<1>2. Staged(d)' /\ Kept(d)' /\ Due(d)'
  BY DEF Staged, Kept, Due, Busy, Calling, Transacting
<1>3. ~Clean(d)'
  BY <1>1 DEF Clean
<1> QED BY <1>1, <1>2, <1>3, MovesRest DEF Account, Balanced, Matched, Rest, Typing, Future

(* A transaction begins with what the references say.                          *)
LEMMA EnterRest ==
  ASSUME Inv, Rest, NEW d \in Devices, Enter(d)
  PROVE  Rest'
<1>1. Inv' /\ Moves(d)
  BY BoundaryInv, EnterMoves DEF Rest
<1>2. /\ pc[d] = "waiting" /\ op = Nobody /\ d \in Procs
      /\ UNCHANGED <<sess, down, raised, current, generation, chord, got, event, err, doubt>>
  BY Names DEF Enter, portal, state
<1>3. /\ Account(d) /\ event[d] = Nobody /\ ~Busy(d) /\ todo[d] = {} /\ err[d] = {}
      /\ call[d] \in {"down", "up", "tap", "burst"}
  BY <1>2 DEF Rest, Inv, Asked, Busy, Transacting, Account, Staged, Calling
<1>4. ~Live <=> ~Live'
  BY <1>2 DEF Live, Open
<1>5. ASSUME Unused(d), todo' = todo, gen[d] = generation => ~Live PROVE Rest'
  <2>1. pc'[d] = "idle" /\ todo'[d] = {}
    BY <1>2, <1>3, <1>5 DEF Unused, Idle, Go, Inv, Shape
  <2>2. CASE call[d] = "up"
    <3>1. Forget(d, gen[d])
      BY <1>5, <2>2 DEF Unused
    <3> QED BY <1>1, <1>2, <1>3, <1>5, <2>1, <3>1, ForgetRest
  <2>3. CASE call[d] # "up"
    <3>1. UNCHANGED <<refs, holds>>
      BY <1>5, <2>3 DEF Unused, ledger
    <3> QED BY <1>1, <1>2, <1>3, <2>1, <3>1, IdleRest
  <2> QED BY <2>2, <2>3
<1>6. ASSUME Go(d, "failed"), todo' = todo, gen' = [gen EXCEPT ![d] = generation],
             UNCHANGED ledger
      PROVE  Rest'
  <2>1. pc'[d] = "failed" /\ todo'[d] = {} /\ gen'[d] = generation
        /\ UNCHANGED <<refs, holds>>
    BY <1>2, <1>3, <1>6 DEF Go, Inv, Shape, Rest, Typing, ledger
  <2> QED BY <1>1, <1>2, <1>3, <2>1, FailedRest
<1>7. ASSUME Idle(d), todo' = todo, UNCHANGED ledger PROVE Rest'
  <2>1. pc'[d] = "idle" /\ todo'[d] = {} /\ UNCHANGED <<refs, holds>>
    BY <1>2, <1>3, <1>7 DEF Idle, Go, Inv, Shape, ledger
  <2> QED BY <1>1, <1>2, <1>3, <2>1, IdleRest
<1>8. ASSUME Live, current # 0, ~Occupied(d), gen' = [gen EXCEPT ![d] = generation],
             call[d] = "up" => gen[d] = generation, UNCHANGED <<call, ledger>>,
             LET c == chord[d] IN
             CASE call[d] = "up" -> /\ todo' = [todo EXCEPT ![d] = {c.main} \cup c.mods]
                                    /\ Go(d, "release")
               [] call[d] = "burst" -> Go(d, "burst") /\ UNCHANGED todo
               [] OTHER -> /\ todo' = [todo EXCEPT ![d] = c.mods]
                           /\ Go(d, "press")
      PROVE  Rest'
  <2> DEFINE c == chord[d]
  <2>1. gen'[d] = generation /\ UNCHANGED <<refs, holds>> /\ call' = call
    BY <1>8 DEF Rest, Typing, ledger
  <2>2. \/ /\ call[d] = "up" /\ gen[d] = generation
           /\ pc'[d] = "release" /\ todo'[d] = Keys(c)
        \/ call[d] = "burst" /\ pc'[d] = "burst" /\ todo'[d] = {}
        \/ call[d] \in {"down", "tap"} /\ pc'[d] = "press" /\ todo'[d] = c.mods /\ got[d] = {}
    BY <1>2, <1>3, <1>8 DEF Go, Inv, Shape, Rest, Typing, Keys, Account, Staged
  <2>3. /\ generation > 0 /\ Clean(d) /\ \A i : Users(i)' = Users(i) /\ Count(i)' = Count(i)
        /\ call[d] # "burst" => c \in Of(d)
    BY <1>2, <1>3, <1>8, <2>1
       DEF Rest, Blank, Clean, Busy, Transacting, Users, Count, Account, Staged, Calling
  <2>4. Acquired(d) = {} /\ Released(d) = {} /\ Acquired(d)' = {} /\ Released(d)' = {}
    BY <1>2, <2>1, <2>2 DEF Acquired, Released
  <2>5. Balanced(d)'
    BY <1>3, <2>3, <2>4 DEF Account, Balanced
  <2>6. Doomed => Doomed'
    BY <1>1 DEF Doomed, Moves, Stays, Inv, Shape, Transacting
  <2>7. Matched(d)'
    BY <1>2, <1>3, <1>4, <2>3, <2>6 DEF Account, Matched
  <2>8. Kept(d)' /\ Due(d)'
    BY <1>2, <1>3, <1>8, <2>1, <2>2 DEF Account, Kept, Due, Calling, Transacting
  <2>9. call[d] = "up" => \A i \in Keys(c) : Count(i) > 0
    <3>1. SUFFICES ASSUME call[d] = "up", NEW i \in Keys(c) PROVE Count(i) > 0
      OBVIOUS
    <3>2. c \in Users(i) /\ i \in Inputs /\ Device[i] = d
      BY <1>2, <1>3, <1>8, <2>3, <3>1, Parts
         DEF Account, Kept, Users, Keys, Of, Calling
    <3>3. Cardinality(Users(i)) # 0
      BY <3>2, UsersFinite, FS_EmptySet
    <3>4. Count(i) = Cardinality(Users(i))
      <4>1. Count(i) + 0 = Cardinality(Users(i)) + 0
        BY <1>3, <2>3, <2>4, <3>2 DEF Account, Balanced, One
      <4>2. Count(i) \in Nat
        BY <3>2, GenerationFits DEF Rest, Typing, Count
      <4> QED BY <4>1, <4>2, UsersFinite
    <3> QED BY <3>3, <3>4, UsersFinite
  <2>10. call[d] \in {"down", "tap"} => Count(c.main) = 0
    <3>1. call[d] \in {"down", "tap"} => c.main \in Inputs
      BY <2>3, Parts DEF Of
    <3>2. call[d] \in {"down", "tap"} => ~(Count(c.main) > 0)
      BY <1>8 DEF Occupied, Count
    <3>3. call[d] \in {"down", "tap"} => Count(c.main) \in Nat
      BY <3>1, GenerationFits DEF Rest, Typing, Count
    <3> QED BY <3>2, <3>3
  <2>11. Staged(d)'
    BY <1>2, <1>3, <1>8, <2>1, <2>2, <2>3, <2>9, <2>10 DEF Staged, Busy, Calling, Transacting
  <2> QED BY <1>1, <1>2, <2>1, <2>5, <2>7, <2>8, <2>11, MovesRest
          DEF Account, Rest, Typing, Future
<1>9. current = 0 => ~Live
  BY Names DEF Live, Open
<1>10. (call[d] = "up" /\ gen[d] # generation) \/ current = 0 => (gen[d] = generation => ~Live)
  BY <1>9
<1> QED
  BY <1>5, <1>6, <1>7, <1>8, <1>9, <1>10 DEF Enter
-----------------------------------------------------------------------------
(* Inside a transaction: one event, or one reference without an event.         *)

(* Setting a reference of the transaction's generation.                        *)
LEMMA RefSet ==
  ASSUME Rest, NEW d \in Devices, gen[d] = generation, NEW i \in Inputs, NEW n \in Nat,
         SetRef(d, i, n), UNCHANGED generation
  PROVE  /\ refs' \in [Generations -> [Inputs -> Nat]]
         /\ Count(i)' = n /\ \A j \in Inputs : j # i => Count(j)' = Count(j)
         /\ \A g \in Generations, j \in Inputs :
              g > generation \/ (g = generation /\ j # i) => refs'[g][j] = refs[g][j]
<1>1. generation \in Generations /\ generation \in Nat
  BY GenerationFits DEF Rest, Typing
<1>2. refs' = [refs EXCEPT ![generation][i] = n]
  BY DEF SetRef
<1>3. /\ refs' \in [Generations -> [Inputs -> Nat]] /\ refs'[generation][i] = n
      /\ \A g \in Generations, j \in Inputs :
           g # generation \/ j # i => refs'[g][j] = refs[g][j]
  BY <1>1, <1>2 DEF Rest, Typing
<1>4. \A g \in Generations : g > generation => g # generation
  BY <1>1, Parts
<1> QED BY <1>1, <1>3, <1>4 DEF Count

(* What is known of a device inside.                                           *)
LEMMA InsideFacts ==
  ASSUME Inv, Rest, NEW d \in Devices, pc[d] \in {"press", "release", "burst"}
  PROVE  /\ Account(d) /\ Busy(d) /\ gen[d] = generation /\ generation \in Generations
         /\ generation \in Nat /\ token \in {"live", "cancelled"} /\ op = d
         /\ call[d] # "burst" => chord[d] \in Of(d) /\ pc[d] \in {"press", "release"}
         /\ call[d] # "burst" => \A i \in Keys(chord[d]) : i \in Inputs /\ Device[i] = d
         /\ call[d] = "burst" => \A i \in got[d] : i \in Inputs /\ Device[i] = d
         /\ pc[d] = "burst" <=> call[d] = "burst"
         /\ \A i \in Inputs : Count(i) \in Nat
         /\ Pressing(d) \subseteq Inputs /\ Releasing(d) \subseteq todo[d]
<1>1. Account(d) /\ Busy(d) /\ gen[d] = generation
  BY DEF Rest, Account, Staged, Busy, Transacting
<1>2. generation \in Generations /\ generation \in Nat
  BY GenerationFits DEF Rest, Typing
<1>3. op = d
  BY Names DEF Inv, Locked, Holding, Transacting
<1>4. token \in {"live", "cancelled"}
  BY <1>1, <1>3 DEF Rest, Counted, Busy
<1>5. call[d] # "burst" => chord[d] \in Of(d) /\ pc[d] \in {"press", "release"}
  BY <1>1 DEF Account, Staged, Calling, Busy
<1>6. call[d] # "burst" => \A i \in Keys(chord[d]) : i \in Inputs /\ Device[i] = d
  BY <1>5, Parts DEF Of
<1>7. pc[d] = "burst" <=> call[d] = "burst"
  BY <1>1, <1>5 DEF Account, Staged
<1>8. \A i \in Inputs : Count(i) \in Nat
  BY <1>2 DEF Rest, Typing, Count
<1>9. Pressing(d) \subseteq Inputs /\ Releasing(d) \subseteq todo[d]
  <2>1. pc[d] = "press" => todo[d] \subseteq Keys(chord[d]) /\ chord[d].main \in Keys(chord[d])
    BY <1>1 DEF Account, Staged, Keys
  <2> QED BY <2>1, <1>6, <1>7 DEF Pressing, Releasing
<1>10. call[d] = "burst" => \A i \in got[d] : i \in Inputs /\ Device[i] = d
  BY <1>1 DEF Account, Kept, Calling, Busy
<1> QED BY <1>1, <1>2, <1>3, <1>4, <1>5, <1>6, <1>7, <1>8, <1>9, <1>10

(* A failure ends the account of a chord, and a burst without having changed   *)
(* it, if what a press that failed may have done is doubted.                   *)
LEMMA FailsAccount ==
  ASSUME Inv, Rest, NEW d \in Devices, pc[d] \in {"press", "release", "burst"},
         NEW e, NEW why \in {"other", "closed"}, Fails(d, e, why),
         Moves(d), call' = call, chord' = chord, gen' = gen,
         event'[d] = Nobody, UNCHANGED <<holds, refs>>, why = "closed" => ~Live',
         Live' => Live, doubt \subseteq doubt',
         pc[d] = "burst" /\ Live' /\ ~Doomed => \A i \in Inputs : Device[i] = d =>
           /\ Count(i) > 0 => i \in down'[current] \cup raised'[current]
           /\ current \notin doubt' /\ i \in down'[current] => Count(i) > 0
  PROVE  Account(d)'
<1> USE InsideFacts
<1>1. UNCHANGED <<current, generation>> /\ Account(d) /\ d \in Procs
  BY Names DEF Moves
<1>2. err'[d] = err[d] \cup {why} /\ err'[d] # {} /\ got'[d] = got[d]
  BY DEF Fails, Rest, Typing
<1>3. \A i : Users(i)' = Users(i) /\ Count(i)' = Count(i)
  BY <1>1 DEF Users, Count
<1>4. Doomed => Doomed'
  BY DEF Doomed, Moves, Stays, Inv, Shape, Transacting
<1>5. Kept(d)'
  BY <1>1, <1>2 DEF Account, Kept, Calling, Transacting
<1>6. Due(d)'
  BY DEF Due
<1>7. CASE pc[d] = "press"
  <2>1. pc'[d] = "release" /\ todo'[d] = got[d]
    BY <1>1, <1>7 DEF Fails, Go, Inv, Shape, Rest, Typing
  <2>2. ~Clean(d)'
    BY <1>1, <1>2, <1>7, <2>1 DEF Clean, Busy, Transacting
  <2>3. \A i \in got[d] : Count(i) > 0
    <3>1. SUFFICES ASSUME NEW i \in got[d] PROVE Count(i) > 0
      OBVIOUS
    <3>2. i \in Inputs /\ Device[i] = d
      BY <1>1, <1>7 DEF Account, Staged, Keys
    <3>3. Count(i) + 0 = Cardinality(Users(i)) + 1
      BY <1>1, <1>7, <3>2 DEF Account, Staged, Balanced, Clean, Acquired, Released, One
    <3> QED BY <3>2, <3>3, UsersFinite
  <2>4. Staged(d)'
    BY <1>1, <1>2, <1>3, <1>7, <2>1, <2>3
       DEF Account, Staged, Busy, Calling, Transacting, Keys, Live, Open
  <2> QED BY <1>5, <1>6, <2>2, <2>4 DEF Account, Balanced, Matched
<1>8. CASE pc[d] = "release"
  <2>1. pc'[d] = "release" /\ todo'[d] = todo[d] \ {e.input}
    BY <1>1, <1>8 DEF Fails, Go, Inv, Shape, Rest, Typing
  <2>2. ~Clean(d)'
    BY <1>1, <1>2, <1>8, <2>1 DEF Clean, Busy, Transacting
  <2>3. Staged(d)'
    BY <1>1, <1>2, <1>3, <1>8, <2>1
       DEF Account, Staged, Busy, Calling, Transacting, Keys, Live, Open
  <2> QED BY <1>5, <1>6, <2>2, <2>3 DEF Account, Balanced, Matched
<1>9. CASE pc[d] = "burst"
  <2>1. pc'[d] = "leave" /\ todo'[d] = {}
    BY <1>1, <1>9 DEF Fails, Go, Inv, Shape, Rest, Typing
  <2>2. Staged(d)'
    BY <1>1, <1>2, <1>3, <1>9, <2>1
       DEF Account, Staged, Busy, Calling, Transacting, Keys, Live, Open
  <2>3. Clean(d) /\ Acquired(d) = {} /\ Released(d) = {} /\ Acquired(d)' = {} /\ Released(d)' = {}
    BY <1>1, <1>9, <2>1 DEF Clean, Acquired, Released
  <2>4. Balanced(d)'
    BY <1>1, <1>3, <2>3 DEF Account, Balanced
  <2>5. Matched(d)'
    BY <1>1, <1>3, <1>4, <1>9 DEF Matched
  <2> QED BY <1>5, <1>6, <2>2, <2>4, <2>5 DEF Account
<1> QED BY <1>7, <1>8, <1>9

(* What the compositor makes of an event of the current session.               *)
Applied(d, e) ==
    \A i \in Inputs :
      /\ i \in down'[current] <=> i \in Press(down[current], e)
      /\ i # e.input => (i \in raised'[current] <=> i \in raised[current])
      /\ i = e.input /\ pc[d] = "burst" /\ ~e.press /\ Count(i) > 0 => i \in raised'[current]

(* An event that was made to happen moves an input and its reference together. *)
LEMMA SucceedsAccount ==
  ASSUME Inv, Rest, NEW d \in Devices, NEW e, e = event[d], NEW k, k = e.input,
         NEW c, c = chord[d], e # Nobody, Succeeds(d, e),
         pc[d] \in {"press", "release", "burst"},
         Moves(d), call' = call, chord' = chord, gen' = gen, holds' = holds,
         event'[d] = Nobody, Live' => Live, doubt \subseteq doubt',
         Live' => Applied(d, e)
  PROVE  /\ Account(d)'
         /\ refs' \in [Generations -> [Inputs -> Nat]]
         /\ \A g \in Generations, j \in Inputs :
              g > generation \/ (g = generation /\ Device[j] # d) => refs'[g][j] = refs[g][j]
<1> USE InsideFacts
<1>1. UNCHANGED <<current, generation>> /\ Account(d) /\ d \in Procs
  BY Names DEF Moves
<1>2. err' = err
  BY DEF Succeeds
<1>3. \A i : Users(i)' = Users(i)
  BY <1>1 DEF Users
<1>4. Doomed => Doomed'
  BY DEF Doomed, Moves, Stays, Inv, Shape, Transacting
<1>5. Due(d)'
  BY DEF Due
<1>6. \A i \in Inputs : Cardinality(Users(i)) \in Nat
  BY UsersFinite
<1>7. CASE pc[d] = "press" /\ k # c.main
  <2>1. /\ SetRef(d, k, 1) /\ todo' = [todo EXCEPT ![d] = @ \ {k}]
        /\ got' = [got EXCEPT ![d] = @ \cup {k}] /\ pc' = pc
    BY <1>7 DEF Succeeds
  <2>2. /\ k \in todo[d] /\ k \notin got[d] /\ Count(k) = 0 /\ e.press = TRUE
        /\ k \in Keys(c) /\ k \in Inputs /\ Device[k] = d
    <3>1. e.press = TRUE /\ k \in Pressing(d) /\ Count(k) = 0
      BY <1>1, <1>7 DEF Account, Due
    <3>2. k \in todo[d]
      BY <1>7, <3>1 DEF Pressing
    <3>3. k \notin got[d] /\ k \in Keys(c)
      BY <1>1, <1>7, <3>2 DEF Account, Staged, Keys
    <3> QED BY <1>7, <3>1, <3>2, <3>3
  <2>3. todo'[d] = todo[d] \ {k} /\ got'[d] = got[d] \cup {k}
    BY <2>1 DEF Rest, Typing
  <2>4. /\ refs' \in [Generations -> [Inputs -> Nat]]
        /\ Count(k)' = 1 /\ \A j \in Inputs : j # k => Count(j)' = Count(j)
        /\ \A g \in Generations, j \in Inputs :
             g > generation \/ (g = generation /\ j # k) => refs'[g][j] = refs[g][j]
    BY <1>1, <2>1, <2>2, RefSet
  <2>5. c.main \in Inputs
    BY Parts, <1>7 DEF Of
  <2>6. Staged(d)' /\ Kept(d)'
    BY <1>1, <1>2, <1>7, <2>1, <2>2, <2>3, <2>4, <2>5
       DEF Account, Staged, Kept, Busy, Calling, Transacting, Live, Open
  <2>7. Clean(d) /\ Acquired(d) = got[d] /\ Acquired(d)' = got[d] \cup {k}
        /\ Released(d) = {} /\ Released(d)' = {}
    BY <1>1, <1>7, <2>1, <2>3 DEF Clean, Acquired, Released, Account, Staged
  <2>8. Balanced(d)'
    BY <1>1, <1>3, <1>6, <2>2, <2>4, <2>7 DEF Account, Balanced, One
  <2>9. Matched(d)'
    BY <1>1, <1>4, <1>7, <2>1, <2>2, <2>4, <2>7 DEF Account, Matched, Press, Applied
  <2> QED BY <1>5, <2>2, <2>4, <2>6, <2>8, <2>9 DEF Account
<1>8. CASE pc[d] = "press" /\ k = c.main
  <2>1. /\ SetRef(d, k, 1) /\ got' = got
        /\ todo' = [todo EXCEPT ![d] = IF call[d] = "tap" THEN got[d] \cup {k} ELSE {}]
        /\ pc' = [pc EXCEPT ![d] = IF call[d] = "tap" THEN "release" ELSE "leave"]
    BY <1>8 DEF Succeeds, Go
  <2>2. /\ c \in Of(d) /\ k \notin c.mods /\ k \in Inputs /\ Device[k] = d
    BY <1>8, Parts DEF Of
  <2>3. /\ todo[d] = {} /\ got[d] = c.mods /\ Count(k) = 0 /\ e.press = TRUE
        /\ call[d] \in {"down", "tap"} /\ err[d] = {}
    <3>1. e.press = TRUE /\ k \in Pressing(d) /\ Count(k) = 0
      BY <1>1, <1>8 DEF Account, Due
    <3>2. call[d] \in {"down", "tap"} /\ err[d] = {} /\ got[d] \cup todo[d] = c.mods
      BY <1>1, <1>8 DEF Account, Staged
    <3>3. todo[d] = {}
      BY <1>8, <2>2, <3>1, <3>2 DEF Pressing
    <3> QED BY <3>1, <3>2, <3>3
  <2>4. /\ todo'[d] = IF call[d] = "tap" THEN Keys(c) ELSE {}
        /\ pc'[d] = IF call[d] = "tap" THEN "release" ELSE "leave"
    BY <1>1, <1>8, <2>1, <2>3 DEF Rest, Typing, Inv, Shape, Keys
  <2>5. /\ refs' \in [Generations -> [Inputs -> Nat]]
        /\ Count(k)' = 1 /\ \A j \in Inputs : j # k => Count(j)' = Count(j)
        /\ \A g \in Generations, j \in Inputs :
             g > generation \/ (g = generation /\ j # k) => refs'[g][j] = refs[g][j]
    BY <1>1, <2>1, <2>2, RefSet
  <2>6. Clean(d) /\ Acquired(d) = got[d] /\ Acquired(d)' = Keys(c)
        /\ Released(d) = {} /\ Released(d)' = {}
    BY <1>1, <1>8, <2>3, <2>4 DEF Clean, Acquired, Released
  <2>7. \A i \in Keys(c) : Count(i)' > 0
    <3>1. SUFFICES ASSUME NEW i \in Keys(c) PROVE Count(i)' > 0
      OBVIOUS
    <3>2. CASE i = k
      BY <2>5, <3>2
    <3>3. CASE i # k
      <4>1. i \in got[d] /\ i \in Inputs /\ Device[i] = d
        BY <1>8, <2>2, <2>3, <3>3, Parts DEF Keys, Of
      <4>2. Count(i) + 0 = Cardinality(Users(i)) + 1
        BY <1>1, <2>6, <4>1 DEF Account, Balanced, One
      <4> QED BY <1>6, <2>5, <3>3, <4>1, <4>2
    <3> QED BY <3>2, <3>3
  <2>8. Staged(d)'
    BY <1>1, <1>2, <1>8, <2>2, <2>3, <2>4, <2>7
       DEF Account, Staged, Busy, Calling, Transacting, Live, Open
  <2>9. Kept(d)'
    BY <1>1, <1>8, <2>3, <2>4 DEF Account, Kept, Calling, Transacting
  <2>10. Balanced(d)'
    <3>1. SUFFICES ASSUME NEW i \in Inputs, Device[i] = d
                   PROVE  Count(i)' + 0 = Cardinality(Users(i)) + One(i \in Keys(c))
      BY <1>3, <2>6 DEF Balanced, One
    <3>2. Count(i) + 0 = Cardinality(Users(i)) + One(i \in got[d])
      BY <1>1, <2>6, <3>1 DEF Account, Balanced, One
    <3>3. CASE i = k
      BY <1>6, <1>8, <2>2, <2>3, <2>5, <3>2, <3>3 DEF One, Keys
    <3>4. CASE i # k
      BY <1>8, <2>3, <2>5, <3>2, <3>4 DEF One, Keys
    <3> QED BY <3>3, <3>4
  <2>11. Matched(d)'
    BY <1>1, <1>4, <1>8, <2>2, <2>3, <2>4, <2>5, <2>6 DEF Account, Matched, Press, Applied
  <2> QED BY <1>5, <2>2, <2>5, <2>8, <2>9, <2>10, <2>11 DEF Account
<1>9. CASE pc[d] = "release"
  <2>1. SetRef(d, k, 0) /\ todo' = [todo EXCEPT ![d] = @ \ {k}] /\ got' = got /\ pc' = pc
    BY <1>9 DEF Succeeds
  <2>2. /\ k \in todo[d] /\ Count(k) = 1 /\ e.press = FALSE
        /\ k \in Keys(c) /\ k \in Inputs /\ Device[k] = d /\ todo[d] \subseteq Keys(c)
    <3>1. k \in todo[d] /\ Count(k) = 1 /\ e.press = FALSE
      BY <1>1, <1>9 DEF Account, Due
    <3>2. todo[d] \subseteq Keys(c)
      BY <1>1, <1>9 DEF Account, Staged
    <3> QED BY <1>9, <3>1, <3>2
  <2>3. todo'[d] = todo[d] \ {k}
    BY <2>1 DEF Rest, Typing
  <2>4. /\ refs' \in [Generations -> [Inputs -> Nat]]
        /\ Count(k)' = 0 /\ \A j \in Inputs : j # k => Count(j)' = Count(j)
        /\ \A g \in Generations, j \in Inputs :
             g > generation \/ (g = generation /\ j # k) => refs'[g][j] = refs[g][j]
    BY <1>1, <2>1, <2>2, RefSet
  <2>5. \A i \in Keys(c) : i \in Inputs
    BY <1>9
  <2>6. Staged(d)' /\ Kept(d)'
    BY <1>1, <1>2, <1>9, <2>1, <2>2, <2>3, <2>4, <2>5
       DEF Account, Staged, Kept, Busy, Calling, Transacting, Live, Open
  <2>7. Clean(d)' <=> Clean(d)
    BY <1>1, <1>2, <2>1 DEF Clean, Busy
  <2>8. Balanced(d)'
    <3>1. SUFFICES ASSUME Clean(d), NEW i \in Inputs, Device[i] = d
                   PROVE  Count(i)' + One(i \in Released(d))'
                            = Cardinality(Users(i)) + One(i \in Acquired(d))'
      BY <1>3, <2>7 DEF Balanced
    <3>2. Count(i) + One(i \in Released(d)) = Cardinality(Users(i)) + One(i \in Acquired(d))
      BY <1>1, <3>1 DEF Account, Balanced
    <3>3. call[d] \in {"up", "tap"}
      BY <1>1, <1>9, <3>1 DEF Account, Staged, Clean, Busy, Transacting
    <3>4. CASE call[d] = "up"
      <4>1. /\ Acquired(d) = {} /\ Acquired(d)' = {} /\ Released(d) = Keys(c) \ todo[d]
            /\ Released(d)' = Keys(c) \ (todo[d] \ {k})
        BY <1>9, <2>1, <2>3, <3>4 DEF Acquired, Released
      <4>2. CASE i = k
        <5>1. One(i \in Released(d)) = 0 /\ One(i \in Released(d)') = 1
          BY <2>2, <4>1, <4>2 DEF One
        <5>2. One(i \in Acquired(d)) = 0 /\ One(i \in Acquired(d)') = 0
          BY <4>1 DEF One
        <5>3. Count(i) = 1 /\ Count(i)' = 0
          BY <2>2, <2>4, <4>2
        <5> QED BY <1>6, <3>2, <5>1, <5>2, <5>3
      <4>3. CASE i # k
        BY <2>4, <3>2, <4>1, <4>3 DEF One
      <4> QED BY <4>2, <4>3
    <3>5. CASE call[d] = "tap"
      <4>1. /\ Acquired(d) = todo[d] /\ Acquired(d)' = todo[d] \ {k} /\ Released(d) = {}
            /\ Released(d)' = {}
        BY <1>9, <2>1, <2>3, <3>5 DEF Acquired, Released
      <4>2. CASE i = k
        <5>1. One(i \in Released(d)) = 0 /\ One(i \in Released(d)') = 0
          BY <4>1 DEF One
        <5>2. One(i \in Acquired(d)) = 1 /\ One(i \in Acquired(d)') = 0
          BY <2>2, <4>1, <4>2 DEF One
        <5>3. Count(i) = 1 /\ Count(i)' = 0
          BY <2>2, <2>4, <4>2
        <5> QED BY <1>6, <3>2, <5>1, <5>2, <5>3
      <4>3. CASE i # k
        BY <2>4, <3>2, <4>1, <4>3 DEF One
      <4> QED BY <4>2, <4>3
    <3> QED BY <3>3, <3>4, <3>5
  <2>9. Matched(d)'
    BY <1>1, <1>4, <1>9, <2>1, <2>2, <2>4, <2>7 DEF Account, Matched, Press, Applied
  <2> QED BY <1>5, <2>2, <2>4, <2>6, <2>8, <2>9 DEF Account
<1>10. CASE pc[d] = "burst"
  <2>1. todo' = [todo EXCEPT ![d] = IF e.press THEN {k} ELSE {}] /\ UNCHANGED <<pc, got, refs>>
    BY <1>10 DEF Succeeds
  <2>2. /\ k \in got[d] /\ e.press = (todo[d] = {}) /\ (todo[d] # {} => k \in todo[d])
        /\ k \in Inputs /\ Device[k] = d
        /\ \A i, j \in todo[d] : i = j
    <3>1. k \in got[d] /\ e.press = (todo[d] = {}) /\ (todo[d] # {} => k \in todo[d])
      BY <1>1, <1>10 DEF Account, Due
    <3>2. \A i, j \in todo[d] : i = j
      BY <1>1, <1>10 DEF Account, Staged
    <3>3. k \in Inputs /\ Device[k] = d
      BY <1>10, <3>1
    <3> QED BY <3>1, <3>2, <3>3
  <2>3. todo'[d] = IF e.press THEN {k} ELSE {}
    BY <2>1 DEF Rest, Typing
  <2>4. \A i : Count(i)' = Count(i)
    BY <1>1, <2>1 DEF Count
  <2>5. Staged(d)' /\ Kept(d)'
    BY <1>1, <1>2, <1>10, <2>1, <2>2, <2>3
       DEF Account, Staged, Kept, Busy, Calling, Transacting, Live, Open
  <2>6. Clean(d) /\ Acquired(d) = {} /\ Acquired(d)' = {} /\ Released(d) = {} /\ Released(d)' = {}
    BY <1>1, <1>10, <2>1 DEF Clean, Acquired, Released
  <2>7. Balanced(d)'
    BY <1>1, <1>3, <2>4, <2>6 DEF Account, Balanced
  <2>8. Matched(d)'
    <3>1. SUFFICES ASSUME Live', ~Doomed', NEW i \in Inputs, Device[i] = d
                   PROVE  /\ Count(i) > 0 => i \in down'[current] \cup raised'[current]
                          /\ current \notin doubt' /\ i \in down'[current]
                               => Count(i) > 0 \/ i \in todo'[d]
      BY <1>1, <1>10, <2>1, <2>4 DEF Matched
    <3>2. /\ Count(i) > 0 => i \in down[current] \cup raised[current]
          /\ current \notin doubt /\ i \in down[current] => Count(i) > 0 \/ i \in todo[d]
      BY <1>1, <1>4, <2>6, <3>1 DEF Account, Matched
    <3>3. /\ i \in down'[current] <=> i \in Press(down[current], e)
          /\ i # k => (i \in raised'[current] <=> i \in raised[current])
          /\ i = k /\ ~e.press /\ Count(i) > 0 => i \in raised'[current]
      BY <1>10, <3>1 DEF Applied
    <3>4. CASE e.press
      <4>1. Press(down[current], e) = down[current] \cup {k} /\ todo'[d] = {k} /\ todo[d] = {}
        BY <2>2, <2>3, <3>4 DEF Press
      <4> QED BY <2>2, <3>2, <3>3, <4>1
    <3>5. CASE ~e.press
      <4>1. Press(down[current], e) = down[current] \ {k}
        BY <3>5 DEF Press
      <4>2. k \in todo[d]
        <5>1. todo[d] # {}
          BY <2>2, <3>5
        <5> QED BY <2>2, <5>1
      <4>3. \A j \in todo[d] : j = k
        BY <2>2, <4>2
      <4> QED BY <3>2, <3>3, <3>5, <4>1, <4>3
    <3> QED BY <3>4, <3>5
  <2>9. refs' = refs /\ refs \in [Generations -> [Inputs -> Nat]]
    BY <2>1 DEF Rest, Typing
  <2> QED BY <1>5, <2>5, <2>7, <2>8, <2>9 DEF Account
<1> QED BY <1>7, <1>8, <1>9, <1>10

(* An event is sent, or it fails because the context is done or the session is *)
(* gone.                                                                       *)
LEMMA SendRest ==
  ASSUME Inv, Rest, NEW d \in Devices, Send(d)
  PROVE  Rest'
<1>1. /\ Inv' /\ Moves(d) /\ pc[d] \in {"press", "release", "burst"}
      /\ call' = call /\ chord' = chord /\ gen' = gen
  BY InsideInv, InsideMoves DEF Inside, Rest
<1>2. PICK e \in Wanted(d) :
      /\ event[d] = Nobody
      /\ \/ /\ token = "live" /\ event' = [event EXCEPT ![d] = e]
            /\ UNCHANGED <<pc, todo, got, err, refs>>
         \/ /\ token = "cancelled" /\ Fails(d, e, "other") /\ event' = event
         \/ /\ ~Live /\ Fails(d, e, "closed") /\ event' = event
      /\ UNCHANGED <<sess, down, raised, doubt, holds, current, generation>>
  BY DEF Send, portal, state
<1>3. Live' = Live /\ Account(d)
  BY <1>1, <1>2, InsideFacts DEF Live, Open
<1>4. /\ refs \in [Generations -> [Inputs -> Nat]] /\ holds \in [Chords -> Nat]
      /\ \A c \in Chords : holds[c] <= generation
  BY DEF Rest, Typing, Future
<1>5. CASE event' = [event EXCEPT ![d] = e] /\ UNCHANGED <<pc, todo, got, err, refs>>
  <2>1. event'[d] = e
    BY <1>5 DEF Inv, Shape
  <2>2. Pressing(d)' = Pressing(d) /\ \A i : Count(i)' = Count(i) /\ Users(i)' = Users(i)
    BY <1>1, <1>2, <1>5 DEF Pressing, Count, Users
  <2>3. gen[d] = generation /\ Releasing(d) \subseteq todo[d]
    BY <1>1, InsideFacts
  <2>4. \/ pc[d] = "press" /\ e.press = TRUE /\ e.input \in Pressing(d) /\ Count(e.input) = 0
        \/ pc[d] = "release" /\ e.press = FALSE /\ e.input \in todo[d] /\ Count(e.input) = 1
        \/ /\ pc[d] = "burst" /\ e.press = (todo[d] = {})
           /\ e.input \in IF todo[d] = {} THEN got[d] ELSE todo[d]
    BY <1>2, <2>3 DEF Wanted, Ref, Count, Pressing, Releasing
  <2>5. pc[d] = "burst" => todo[d] \subseteq got[d]
    BY <1>3 DEF Account, Staged
  <2>6. Due(d)'
    BY <1>5, <2>1, <2>2, <2>4, <2>5 DEF Due
  <2>7. Staged(d)' /\ Kept(d)'
    BY <1>1, <1>2, <1>3, <1>5, <2>2 DEF Account, Staged, Kept, Busy, Calling
  <2>8. Doomed => Doomed'
    BY <1>5 DEF Doomed
  <2>9. Balanced(d)' /\ Matched(d)'
    BY <1>1, <1>2, <1>3, <1>5, <2>2, <2>8
       DEF Account, Balanced, Matched, Clean, Busy, Acquired, Released
  <2> QED BY <1>1, <1>2, <1>4, <1>5, <2>6, <2>7, <2>9, MovesRest DEF Account
<1>6. ASSUME NEW why \in {"other", "closed"}, Fails(d, e, why), event' = event,
             why = "closed" => ~Live, why = "other" => token = "cancelled"
      PROVE  Rest'
  <2>1. UNCHANGED refs /\ event'[d] = Nobody
    BY <1>2, <1>6 DEF Fails
  <2>2. Doomed \/ ~Live
    BY <1>6 DEF Rest, Counted
  <2>3. Account(d)'
    BY <1>1, <1>2, <1>3, <1>6, <2>1, <2>2, FailsAccount
  <2> QED BY <1>1, <1>2, <1>4, <2>1, <2>3, MovesRest
<1> QED
  BY <1>2, <1>5, <1>6

(* The event under way is of an input of the device.                           *)
LEMMA OwnEvent ==
  ASSUME Inv, Rest, NEW d \in Devices, pc[d] \in {"press", "release", "burst"},
         event[d] # Nobody
  PROVE  event[d].input \in Inputs /\ Device[event[d].input] = d
<1>1. /\ Account(d) /\ (call[d] # "burst" => \A i \in Keys(chord[d]) : i \in Inputs /\ Device[i] = d)
      /\ (call[d] = "burst" => \A i \in got[d] : i \in Inputs /\ Device[i] = d)
      /\ pc[d] = "burst" <=> call[d] = "burst"
  BY InsideFacts
<1>2. CASE pc[d] = "press"
  <2>1. event[d].input \in Pressing(d)
    BY <1>1, <1>2 DEF Account, Due
  <2>2. got[d] \cup todo[d] = chord[d].mods
    BY <1>1, <1>2 DEF Account, Staged
  <2>3. event[d].input \in Keys(chord[d])
    BY <1>2, <2>1, <2>2 DEF Pressing, Keys
  <2> QED BY <1>1, <1>2, <2>3
<1>3. CASE pc[d] = "release"
  <2>1. event[d].input \in todo[d]
    BY <1>1, <1>3 DEF Account, Due
  <2>2. todo[d] \subseteq Keys(chord[d])
    BY <1>1, <1>3 DEF Account, Staged
  <2> QED BY <1>1, <1>3, <2>1, <2>2
<1>4. CASE pc[d] = "burst"
  <2>1. event[d].input \in got[d]
    BY <1>1, <1>4 DEF Account, Due
  <2> QED BY <1>1, <1>4, <2>1
<1> QED BY <1>2, <1>3, <1>4

(* The call of an event and its result.                                        *)
LEMMA DeliverRest ==
  ASSUME Inv, Rest, NEW d \in Devices, Deliver(d)
  PROVE  Rest'
<1>1. /\ Inv' /\ Moves(d) /\ pc[d] \in {"press", "release", "burst"}
      /\ call' = call /\ chord' = chord /\ gen' = gen
  BY InsideInv, InsideMoves DEF Inside, Rest
<1>2. PICK e : e = event[d]
  OBVIOUS
<1>3. PICK k : k = e.input
  OBVIOUS
<1>4. PICK c : c = chord[d]
  OBVIOUS
<1>5. /\ e # Nobody /\ event'[d] = Nobody /\ k \in Inputs /\ Device[k] = d
      /\ UNCHANGED <<current, generation, holds>>
  BY <1>1, <1>2, <1>3, OwnEvent DEF Deliver, state, Inv, Shape
<1>6. \/ /\ Live /\ Apply(d, e) /\ sess' = sess
         /\ Succeeds(d, e) /\ doubt' = doubt
      \/ /\ Live /\ Apply(d, e) /\ sess' = sess
         /\ Fails(d, e, "other")
         /\ doubt' = IF pc[d] = "burst" /\ token = "live" /\ e.press
                       THEN doubt \cup {current} ELSE doubt
      \/ /\ ~Live' /\ doubt' = doubt
         /\ \E why \in {"other", "closed"} : Fails(d, e, why)
      \/ ~Live' /\ doubt' = doubt /\ Succeeds(d, e)
  <2>1. Deliver(d) /\ Live /\ End({current}) => ~Live'
    BY <1>5 DEF Live, Open, End
  <2>2. ~Live /\ sess' = sess => ~Live'
    BY <1>5 DEF Live, Open
  <2> QED BY <1>2, <2>1, <2>2 DEF Deliver, portal
<1>7. /\ Live' => Live
      /\ refs \in [Generations -> [Inputs -> Nat]] /\ holds \in [Chords -> Nat]
      /\ \A x \in Chords : holds[x] <= generation
      /\ current \in Sessions \/ ~Live
      /\ DOMAIN down = Sessions /\ DOMAIN raised = Sessions
  BY <1>1, <1>5, Names DEF Rest, Typing, Future, Moves, Live, Open, portal
<1>8. ASSUME Apply(d, e), Live PROVE Applied(d, e)
  <2>1. current \in Sessions /\ gen[d] = generation
    BY <1>1, <1>7, <1>8, InsideFacts
  <2>2. /\ down'[current] = Press(down[current], e)
        /\ raised'[current] = IF pc[d] = "burst" /\ ~e.press /\ Count(k) > 0
                                THEN raised[current] \cup {k} ELSE raised[current] \ {k}
    BY <1>3, <1>7, <1>8, <2>1 DEF Apply, Ref, Count
  <2> QED BY <1>3, <2>2 DEF Applied
<1>9. ASSUME Succeeds(d, e), doubt' = doubt, Live' => Applied(d, e)
      PROVE  Rest'
  <2>2. /\ Account(d)' /\ refs' \in [Generations -> [Inputs -> Nat]]
        /\ \A g \in Generations, j \in Inputs :
             g > generation \/ (g = generation /\ Device[j] # d) => refs'[g][j] = refs[g][j]
    BY <1>1, <1>2, <1>3, <1>4, <1>5, <1>7, <1>9, SucceedsAccount
  <2>3. \A i \in Inputs : Live' /\ Device[i] # d
                           => /\ i \in down'[current] <=> i \in down[current]
                              /\ i \in raised'[current] <=> i \in raised[current]
    BY <1>3, <1>5, <1>9 DEF Press, Applied
  <2> QED BY <1>1, <1>5, <1>7, <1>9, <2>2, <2>3, MovesRest
<1>10. ASSUME NEW why \in {"other", "closed"}, Fails(d, e, why), doubt \subseteq doubt',
             \/ ~Live'
             \/ /\ Live /\ Applied(d, e) /\ why = "other"
                /\ doubt' = IF pc[d] = "burst" /\ token = "live" /\ e.press
                              THEN doubt \cup {current} ELSE doubt
      PROVE  Rest'
  <2>1. refs' = refs /\ Account(d) /\ token \in {"live", "cancelled"}
    BY <1>1, <1>10, InsideFacts DEF Fails
  <2>2. Live' => Applied(d, e)
    BY <1>10
  <2>3. ASSUME pc[d] = "burst", Live', ~Doomed, NEW i \in Inputs, Device[i] = d
        PROVE  /\ Count(i) > 0 => i \in down'[current] \cup raised'[current]
               /\ current \notin doubt' /\ i \in down'[current] => Count(i) > 0
    <3>1. token = "live" /\ Live
      BY <2>1, <2>3, <1>7 DEF Rest, Counted
    <3>2. Clean(d)
      BY <2>3, <1>1, InsideFacts DEF Clean, Busy
    <3>3. /\ Count(i) > 0 => i \in down[current] \cup raised[current]
          /\ current \notin doubt /\ i \in down[current] => Count(i) > 0 \/ i \in todo[d]
      BY <2>1, <2>3, <3>1, <3>2 DEF Account, Matched
    <3>6. /\ i \in down'[current] <=> i \in Press(down[current], e)
          /\ i # k => (i \in raised'[current] <=> i \in raised[current])
          /\ i = k /\ ~e.press /\ Count(i) > 0 => i \in raised'[current]
      BY <1>3, <2>2, <2>3 DEF Applied
    <3>4. CASE e.press
      <4>1. current \in doubt' /\ Press(down[current], e) = down[current] \cup {k}
        BY <1>3, <1>10, <2>3, <3>1, <3>4 DEF Press
      <4> QED BY <3>3, <3>6, <4>1
    <3>5. CASE ~e.press
      <4>1. Press(down[current], e) = down[current] \ {k}
        BY <1>3, <3>5 DEF Press
      <4>2. e.press = (todo[d] = {}) /\ k \in got[d] /\ (todo[d] # {} => k \in todo[d])
        BY <1>2, <1>3, <1>5, <2>1, <2>3 DEF Account, Due
      <4>3. todo[d] # {} /\ k \in todo[d]
        <5>1. todo[d] # {}
          BY <4>2, <3>5
        <5> QED BY <4>2, <5>1
      <4>4. \A j \in todo[d] : j = k
        BY <2>1, <2>3, <4>3 DEF Account, Staged
      <4> QED BY <1>10, <2>3, <3>3, <3>5, <3>6, <4>1, <4>4
    <3> QED BY <3>4, <3>5
  <2>4. why = "closed" => ~Live'
    BY <1>10
  <2>5. Account(d)'
    BY <1>1, <1>5, <1>7, <1>10, <2>1, <2>3, <2>4, FailsAccount
  <2>6. \A i \in Inputs : Live' /\ Device[i] # d
                           => /\ i \in down'[current] <=> i \in down[current]
                              /\ i \in raised'[current] <=> i \in raised[current]
    BY <1>3, <1>5, <2>2 DEF Press, Applied
  <2> QED BY <1>1, <1>5, <1>7, <1>10, <2>1, <2>5, <2>6, MovesRest
<1> QED
  BY <1>6, <1>8, <1>9, <1>10

(* A modifier that is down already gets one more reference.                    *)
LEMMA ShareRest ==
  ASSUME Inv, Rest, NEW d \in Devices, Share(d)
  PROVE  Rest'
<1>1. /\ Inv' /\ Moves(d) /\ pc[d] \in {"press", "release", "burst"}
      /\ call' = call /\ chord' = chord /\ gen' = gen
  BY InsideInv, InsideMoves DEF Inside, Rest
<1>2. PICK m \in Pressing(d) :
      /\ event[d] = Nobody /\ Ref(d, m) > 0 /\ SetRef(d, m, Ref(d, m) + 1)
      /\ todo' = [todo EXCEPT ![d] = @ \ {m}] /\ got' = [got EXCEPT ![d] = @ \cup {m}]
      /\ UNCHANGED <<sess, down, raised, doubt, holds, current, generation, pc, event, err>>
  BY DEF Share, portal, state
<1>3. /\ Account(d) /\ Busy(d) /\ gen[d] = generation /\ pc[d] = "press" /\ m \in Inputs
      /\ Count(m) \in Nat /\ call[d] # "burst"
      /\ \A i \in Keys(chord[d]) : i \in Inputs /\ Device[i] = d
  BY <1>1, <1>2, InsideFacts DEF Pressing
<1>4. Ref(d, m) = Count(m)
  BY <1>3 DEF Ref, Count
<1>5. /\ call[d] \in {"down", "tap"} /\ err[d] = {} /\ Count(chord[d].main) = 0
      /\ got[d] \cap todo[d] = {} /\ got[d] \cup todo[d] = chord[d].mods
  BY <1>3 DEF Account, Staged
<1>6. /\ m \in todo[d] /\ m \notin got[d] /\ m \in Keys(chord[d]) /\ Device[m] = d
      /\ m # chord[d].main /\ chord[d].main \in Inputs
  <2>1. m # chord[d].main /\ m \in todo[d]
    BY <1>2, <1>3, <1>4, <1>5 DEF Pressing
  <2> QED BY <2>1, <1>3, <1>5 DEF Keys
<1>7. todo'[d] = todo[d] \ {m} /\ got'[d] = got[d] \cup {m}
  BY <1>2 DEF Rest, Typing
<1>8. /\ refs' \in [Generations -> [Inputs -> Nat]]
      /\ Count(m)' = Count(m) + 1 /\ \A j \in Inputs : j # m => Count(j)' = Count(j)
      /\ \A g \in Generations, j \in Inputs :
           g > generation \/ (g = generation /\ j # m) => refs'[g][j] = refs[g][j]
  <2>1. Count(m) + 1 \in Nat /\ SetRef(d, m, Count(m) + 1)
    BY <1>2, <1>3, <1>4
  <2>2. PICK n \in Nat : n = Count(m) + 1
    BY <2>1
  <2> QED BY <1>2, <1>3, <2>1, <2>2, RefSet
<1>9. /\ Live' = Live /\ Doomed' = Doomed /\ \A i : Users(i)' = Users(i)
      /\ event'[d] = Nobody
  BY <1>2 DEF Live, Open, Doomed, Users
<1>10. Staged(d)' /\ Kept(d)' /\ Due(d)'
  BY <1>1, <1>2, <1>3, <1>5, <1>6, <1>7, <1>8, <1>9
     DEF Account, Staged, Kept, Due, Busy, Calling, Transacting
<1>11. Clean(d) /\ Acquired(d) = got[d] /\ Acquired(d)' = got[d] \cup {m}
       /\ Released(d) = {} /\ Released(d)' = {}
  BY <1>2, <1>3, <1>5, <1>7 DEF Clean, Acquired, Released
<1>12. Balanced(d)'
  <2>1. SUFFICES ASSUME NEW i \in Inputs, Device[i] = d
                 PROVE  Count(i)' + 0 = Cardinality(Users(i)) + One(i \in got[d] \cup {m})
    BY <1>9, <1>11 DEF Balanced, One
  <2>2. Count(i) + 0 = Cardinality(Users(i)) + One(i \in got[d])
    BY <1>3, <1>11, <2>1 DEF Account, Balanced, One
  <2>3. CASE i = m
    <3>1. One(i \in got[d]) = 0 /\ One(i \in got[d] \cup {m}) = 1
      BY <1>6, <2>3 DEF One
    <3> QED BY <1>3, <1>8, <2>2, <2>3, <3>1, UsersFinite
  <2>4. CASE i # m
    BY <1>8, <2>2, <2>4 DEF One
  <2> QED BY <2>3, <2>4
<1>13. Matched(d)'
  <2>1. \A i \in Inputs : (Count(i)' > 0 <=> Count(i) > 0)
    BY <1>2, <1>3, <1>4, <1>8
  <2> QED BY <1>2, <1>3, <1>9, <1>11, <2>1 DEF Account, Matched
<1>14. holds \in [Chords -> Nat] /\ \A c \in Chords : holds[c] <= generation
  BY DEF Rest, Typing, Future
<1> QED BY <1>1, <1>2, <1>6, <1>8, <1>10, <1>12, <1>13, <1>14, MovesRest DEF Account

(* A key that others hold as well loses one reference.                         *)
LEMMA UnshareRest ==
  ASSUME Inv, Rest, NEW d \in Devices, Unshare(d)
  PROVE  Rest'
<1>1. /\ Inv' /\ Moves(d) /\ pc[d] \in {"press", "release", "burst"}
      /\ call' = call /\ chord' = chord /\ gen' = gen
  BY InsideInv, InsideMoves DEF Inside, Rest
<1>2. PICK m \in Releasing(d) :
      /\ event[d] = Nobody /\ Ref(d, m) # 1
      /\ IF Ref(d, m) > 1 THEN SetRef(d, m, Ref(d, m) - 1) /\ UNCHANGED err
         ELSE err' = [err EXCEPT ![d] = @ \cup {"ownership"}] /\ UNCHANGED refs
      /\ todo' = [todo EXCEPT ![d] = @ \ {m}]
      /\ UNCHANGED <<sess, down, raised, doubt, holds, current, generation, pc, event, got>>
  BY DEF Unshare, portal, state
<1>3. /\ Account(d) /\ Busy(d) /\ gen[d] = generation /\ pc[d] = "release"
      /\ call[d] # "burst" /\ m \in todo[d] /\ \A i \in Inputs : Count(i) \in Nat
      /\ \A i \in Keys(chord[d]) : i \in Inputs /\ Device[i] = d
  BY <1>1, <1>2, InsideFacts DEF Releasing
<1>4. todo[d] \subseteq Keys(chord[d]) /\ Count(m) > 0
  BY <1>3 DEF Account, Staged
<1>5. m \in Keys(chord[d]) /\ m \in Inputs /\ Device[m] = d /\ Count(m) \in Nat
  BY <1>3, <1>4
<1>6. Ref(d, m) = Count(m) /\ Count(m) > 1
  <2>1. Ref(d, m) = Count(m)
    BY <1>3 DEF Ref, Count
  <2> QED BY <2>1, <1>2, <1>4, <1>5
<1>7. todo'[d] = todo[d] \ {m} /\ err' = err
  BY <1>2, <1>6 DEF Rest, Typing
<1>8. /\ refs' \in [Generations -> [Inputs -> Nat]]
      /\ Count(m)' = Count(m) - 1 /\ \A j \in Inputs : j # m => Count(j)' = Count(j)
      /\ \A g \in Generations, j \in Inputs :
           g > generation \/ (g = generation /\ j # m) => refs'[g][j] = refs[g][j]
  <2>1. Count(m) - 1 \in Nat /\ SetRef(d, m, Count(m) - 1)
    BY <1>2, <1>5, <1>6
  <2>2. PICK n \in Nat : n = Count(m) - 1
    BY <2>1
  <2> QED BY <1>2, <1>3, <1>5, <2>1, <2>2, RefSet
<1>9. /\ Live' = Live /\ Doomed' = Doomed /\ \A i : Users(i)' = Users(i)
      /\ event'[d] = Nobody
  BY <1>2 DEF Live, Open, Doomed, Users
<1>10. \A i \in Inputs : Count(i)' > 0 <=> Count(i) > 0
  BY <1>3, <1>5, <1>6, <1>8
<1>11. Staged(d)' /\ Kept(d)' /\ Due(d)'
  BY <1>1, <1>2, <1>3, <1>4, <1>7, <1>9, <1>10
     DEF Account, Staged, Kept, Due, Busy, Calling, Transacting
<1>12. Clean(d)' <=> Clean(d)
  BY <1>1, <1>2, <1>7 DEF Clean, Busy
<1>13. Balanced(d)'
  <2>1. SUFFICES ASSUME Clean(d), NEW i \in Inputs, Device[i] = d
                 PROVE  Count(i)' + One(i \in Released(d))'
                          = Cardinality(Users(i)) + One(i \in Acquired(d))'
    BY <1>9, <1>12 DEF Balanced
  <2>2. Count(i) + One(i \in Released(d)) = Cardinality(Users(i)) + One(i \in Acquired(d))
    BY <1>3, <2>1 DEF Account, Balanced
  <2>3. call[d] \in {"up", "tap"}
    BY <1>3, <2>1 DEF Account, Staged, Clean, Busy, Transacting
  <2>4. CASE call[d] = "up"
    <3>1. /\ Acquired(d) = {} /\ Acquired(d)' = {} /\ Released(d) = Keys(chord[d]) \ todo[d]
          /\ Released(d)' = Keys(chord[d]) \ (todo[d] \ {m})
      BY <1>1, <1>2, <1>3, <1>7, <2>4 DEF Acquired, Released
    <3>2. CASE i = m
      <4>1. One(i \in Released(d)) = 0 /\ One(i \in Released(d))' = 1
            /\ One(i \in Acquired(d)) = 0 /\ One(i \in Acquired(d))' = 0
        BY <1>3, <1>5, <3>1, <3>2 DEF One
      <4> QED BY <1>5, <1>6, <1>8, <2>2, <3>2, <4>1, UsersFinite
    <3>3. CASE i # m
      BY <1>8, <2>2, <3>1, <3>3 DEF One
    <3> QED BY <3>2, <3>3
  <2>5. CASE call[d] = "tap"
    <3>1. /\ Acquired(d) = todo[d] /\ Acquired(d)' = todo[d] \ {m} /\ Released(d) = {}
          /\ Released(d)' = {}
      BY <1>1, <1>2, <1>3, <1>7, <2>5 DEF Acquired, Released
    <3>2. CASE i = m
      <4>1. One(i \in Released(d)) = 0 /\ One(i \in Released(d))' = 0
            /\ One(i \in Acquired(d)) = 1 /\ One(i \in Acquired(d))' = 0
        BY <1>3, <3>1, <3>2 DEF One
      <4> QED BY <1>5, <1>6, <1>8, <2>2, <3>2, <4>1, UsersFinite
    <3>3. CASE i # m
      BY <1>8, <2>2, <3>1, <3>3 DEF One
    <3> QED BY <3>2, <3>3
  <2> QED BY <2>3, <2>4, <2>5
<1>14. Matched(d)'
  BY <1>2, <1>3, <1>9, <1>10, <1>12 DEF Account, Matched
<1>15. holds \in [Chords -> Nat] /\ \A c \in Chords : holds[c] <= generation
  BY DEF Rest, Typing, Future
<1> QED BY <1>1, <1>2, <1>5, <1>8, <1>11, <1>13, <1>14, <1>15, MovesRest DEF Account

(* A transaction that ends records its hold, gives it up, or fails.            *)
LEMMA LeaveRest ==
  ASSUME Inv, Rest, NEW d \in Devices, Leave(d)
  PROVE  Rest'
<1>1. Account(d) /\ Staged(d) /\ d \in Procs
  BY Names DEF Rest, Account
<1>2. Inv' /\ Moves(d)
  BY <1>1, BoundaryInv, LeaveMoves DEF Rest
<1>3. /\ pc[d] \in {"press", "release", "burst", "leave"} /\ pc[d] # "press"
      /\ todo' = [todo EXCEPT ![d] = {}] 
      /\ pc[d] # "leave" => event[d] = Nobody /\ todo[d] = {}
      /\ UNCHANGED <<sess, down, raised, current, generation, chord, gen, got, event, err, doubt>>
  BY DEF Leave, portal, state
<1>4. /\ Busy(d) /\ Calling(d) /\ event[d] = Nobody /\ todo[d] = {} /\ todo'[d] = {}
      /\ gen[d] = generation /\ current # 0 /\ "ownership" \notin err[d]
      /\ "closed" \in err[d] => ~Live
      /\ call[d] \in {"down", "up", "tap", "burst"}
      /\ call[d] # "burst" => chord[d] \in Of(d)
  <2>1. Busy(d) /\ Calling(d)
    BY <1>3 DEF Busy, Calling, Transacting
  <2>2. event[d] = Nobody
    BY <1>3 DEF Inv, Asked
  <2>3. todo[d] = {} /\ todo'[d] = {}
    BY <1>1, <1>3 DEF Staged, Rest, Typing
  <2> QED BY <1>1, <2>1, <2>2, <2>3 DEF Staged
<1>5. /\ generation > 0 /\ generation \in Nat /\ generation \in Generations
      /\ holds \in [Chords -> Nat] /\ \A x \in Chords : holds[x] <= generation
      /\ refs \in [Generations -> [Inputs -> Nat]] /\ \A i \in Inputs : Count(i) \in Nat
  BY <1>4, GenerationFits DEF Rest, Blank, Typing, Future, Count
<1>6. Live' = Live /\ (Doomed => Doomed')
  BY <1>2, <1>3 DEF Live, Open, Doomed, Moves, Stays, Inv, Shape, Transacting
<1>7. /\ pc[d] = "burst" <=> call[d] = "burst" /\ pc[d] # "leave"
      /\ call[d] = "down" /\ err[d] = {} => pc[d] = "leave"
      /\ call[d] \in {"up", "tap"} => pc[d] = "release"
      /\ call[d] = "down" => pc[d] \in {"release", "leave"}
  BY <1>1, <1>3 DEF Staged
<1>8. ASSUME Idle(d), UNCHANGED refs, Clean(d), holds' \in [Chords -> Nat],
             \A x \in Chords : holds'[x] <= generation,
             \A x \in Chords \ Of(d) : holds'[x] = holds[x],
             \A i \in Inputs : Device[i] = d => Count(i) = Cardinality(Users(i))'
      PROVE  Rest'
  <2>1. pc'[d] = "idle"
    BY <1>1, <1>8 DEF Idle, Go, Inv, Shape
  <2>2. Staged(d)' /\ Kept(d)' /\ Due(d)'
    BY <1>3, <1>4, <2>1 DEF Staged, Kept, Due, Busy, Calling, Transacting
  <2>3. \A i \in Inputs : Count(i)' = Count(i)
    BY <1>3, <1>8 DEF Count
  <2>4. Acquired(d)' = {} /\ Released(d)' = {}
    BY <2>1 DEF Acquired, Released
  <2>5. Balanced(d)'
    <3>1. SUFFICES ASSUME NEW i \in Inputs, Device[i] = d
                   PROVE  Count(i)' + 0 = Cardinality(Users(i))' + 0
      BY <2>4 DEF Balanced, One
    <3> QED BY <1>8, <2>3, <3>1
  <2>6. Matched(d)'
    BY <1>1, <1>3, <1>4, <1>6, <1>8, <2>1, <2>3 DEF Account, Matched
  <2> QED BY <1>2, <1>3, <1>5, <1>8, <2>2, <2>5, <2>6, MovesRest DEF Account
<1>9. CASE call[d] = "burst" /\ Idle(d) /\ UNCHANGED ledger
  <2>1. Clean(d) /\ Acquired(d) = {} /\ Released(d) = {} /\ UNCHANGED <<refs, holds>>
    BY <1>3, <1>9 DEF Clean, Acquired, Released, ledger, Transacting
  <2>2. \A i : Users(i)' = Users(i)
    BY <1>3, <2>1 DEF Users
  <2>3. \A i \in Inputs : Device[i] = d => Count(i) + 0 = Cardinality(Users(i)) + 0
    BY <1>1, <2>1 DEF Account, Balanced, One
  <2>4. \A i \in Inputs : Device[i] = d => Count(i) = Cardinality(Users(i))'
    BY <1>5, <2>2, <2>3, UsersFinite
  <2> QED BY <1>5, <1>8, <1>9, <2>1, <2>4
<1>10. ASSUME call[d] # "burst", err[d] = {}, Idle(d), UNCHANGED refs,
              holds' = CASE call[d] = "down" -> [holds EXCEPT ![chord[d]] = gen[d]]
                         [] call[d] = "up" -> [holds EXCEPT ![chord[d]] = 0]
                         [] OTHER -> holds
       PROVE  Rest'
  <2>1. PICK c : c = chord[d]
    OBVIOUS
  <2>2. /\ c \in Of(d) /\ c \in Chords
        /\ \A i \in Keys(c) : i \in Inputs /\ Device[i] = d
    BY <1>4, <1>10, <2>1, Parts DEF Of
  <2>3. Clean(d)
    BY <1>3, <1>10 DEF Clean
  <2>4. \A i \in Inputs : Device[i] = d =>
          Count(i) + One(i \in Released(d)) = Cardinality(Users(i)) + One(i \in Acquired(d))
    BY <1>1, <2>3 DEF Account, Balanced
  <2>5. CASE call[d] = "down"
    <3>1. holds' = [holds EXCEPT ![c] = generation] /\ pc[d] = "leave" /\ holds[c] = 0
      BY <1>1, <1>4, <1>7, <1>10, <2>1, <2>5 DEF Account, Kept
    <3>2. Acquired(d) = Keys(c) /\ Released(d) = {}
      BY <2>1, <2>5, <3>1 DEF Acquired, Released
    <3>3. ASSUME NEW i \in Inputs, Device[i] = d PROVE Count(i) = Cardinality(Users(i))'
      <4>1. CASE i \in Keys(c)
        <5>1. Users(i)' = Users(i) \cup {c} /\ c \notin Users(i)
          BY <1>3, <1>5, <2>2, <3>1, <4>1 DEF Users, Keys
        <5>2. Cardinality(Users(i) \cup {c}) = Cardinality(Users(i)) + 1
          BY <5>1, UsersFinite, FS_AddElement
        <5>3. Count(i) + 0 = Cardinality(Users(i)) + 1
          BY <2>4, <3>2, <3>3, <4>1 DEF One
        <5> QED BY <1>5, <5>1, <5>2, <5>3, UsersFinite
      <4>2. CASE i \notin Keys(c)
        <5>1. Users(i)' = Users(i)
          BY <1>3, <1>5, <2>2, <3>1, <4>2 DEF Users, Keys
        <5>2. Count(i) + 0 = Cardinality(Users(i)) + 0
          BY <2>4, <3>2, <3>3, <4>2 DEF One
        <5> QED BY <1>5, <5>1, <5>2, UsersFinite
      <4> QED BY <4>1, <4>2
    <3>4. /\ holds' \in [Chords -> Nat] /\ \A x \in Chords : holds'[x] <= generation
          /\ \A x \in Chords \ Of(d) : holds'[x] = holds[x]
      BY <1>5, <2>2, <3>1
    <3> QED BY <1>8, <1>10, <2>3, <3>3, <3>4
  <2>6. CASE call[d] = "up"
    <3>1. holds' = [holds EXCEPT ![c] = 0] /\ pc[d] = "release" /\ holds[c] = generation
      BY <1>1, <1>4, <1>7, <1>10, <2>1, <2>6 DEF Account, Kept
    <3>2. Acquired(d) = {} /\ Released(d) = Keys(c)
      BY <1>4, <2>1, <2>6, <3>1 DEF Acquired, Released
    <3>3. ASSUME NEW i \in Inputs, Device[i] = d PROVE Count(i) = Cardinality(Users(i))'
      <4>1. CASE i \in Keys(c)
        <5>1. Users(i)' = Users(i) \ {c} /\ c \in Users(i)
          BY <1>3, <1>5, <2>2, <3>1, <4>1 DEF Users, Keys
        <5>2. Cardinality(Users(i) \ {c}) = Cardinality(Users(i)) - 1
          BY <5>1, UsersFinite, FS_RemoveElement
        <5>3. Count(i) + 1 = Cardinality(Users(i)) + 0
          BY <2>4, <3>2, <3>3, <4>1 DEF One
        <5> QED BY <1>5, <5>1, <5>2, <5>3, UsersFinite
      <4>2. CASE i \notin Keys(c)
        <5>1. Users(i)' = Users(i)
          BY <1>3, <1>5, <2>2, <3>1, <4>2 DEF Users, Keys
        <5>2. Count(i) + 0 = Cardinality(Users(i)) + 0
          BY <2>4, <3>2, <3>3, <4>2 DEF One
        <5> QED BY <1>5, <5>1, <5>2, UsersFinite
      <4> QED BY <4>1, <4>2
    <3>4. /\ holds' \in [Chords -> Nat] /\ \A x \in Chords : holds'[x] <= generation
          /\ \A x \in Chords \ Of(d) : holds'[x] = holds[x]
      BY <1>5, <2>2, <3>1
    <3> QED BY <1>8, <1>10, <2>3, <3>3, <3>4
  <2>7. CASE call[d] = "tap"
    <3>1. holds' = holds /\ Acquired(d) = {} /\ Released(d) = {}
      BY <1>4, <1>7, <1>10, <2>7 DEF Acquired, Released
    <3>2. \A i : Users(i)' = Users(i)
      BY <1>3, <3>1 DEF Users
    <3>3. \A i \in Inputs : Device[i] = d => Count(i) + 0 = Cardinality(Users(i)) + 0
      BY <2>4, <3>1 DEF One
    <3>4. \A i \in Inputs : Device[i] = d => Count(i) = Cardinality(Users(i))'
      BY <1>5, <3>2, <3>3, UsersFinite
    <3> QED BY <1>5, <1>8, <1>10, <2>3, <3>1, <3>4
  <2> QED BY <1>4, <1>10, <2>5, <2>6, <2>7
<1>11. CASE /\ call[d] = "up" /\ err[d] \cap {"closed", "ownership"} # {}
            /\ Forget(d, gen[d]) /\ Idle(d)
  <2>1. pc'[d] = "idle" /\ ~Live
    BY <1>1, <1>4, <1>11 DEF Idle, Go, Inv, Shape
  <2> QED BY <1>2, <1>3, <1>4, <1>11, <2>1, ForgetRest
<1>12. CASE Go(d, "failed") /\ UNCHANGED ledger
  <2>1. pc'[d] = "failed" /\ UNCHANGED <<refs, holds>> /\ gen'[d] = generation
    BY <1>1, <1>3, <1>4, <1>12 DEF Go, Inv, Shape, ledger
  <2> QED BY <1>2, <1>3, <1>4, <2>1, FailedRest
<1> QED
  BY <1>4, <1>9, <1>10, <1>11, <1>12 DEF Leave
-----------------------------------------------------------------------------
(* Sessions hold down what events of the devices press.                        *)
LEMMA WithinNext ==
  ASSUME Inv, Rest, Within, Next
  PROVE  Within'
<1>1. ASSUME NEW S, End(S) PROVE Within'
  BY <1>1 DEF End, Within
<1>2. CASE UNCHANGED <<down, raised>>
  BY <1>2 DEF Within
<1>3. CASE Control
  <2>1. UNCHANGED <<down, raised>> \/ \E S : End(S)
    BY <1>3 DEF Control, PortalCloses, Start, StartEnters, Consent, OpenFails, Replace, Wipe,
                Close, CloseEnters, CloseEnds, portal
  <2> QED BY <1>1, <1>2, <2>1
<1>4. CASE Calls
  BY <1>2, <1>4 DEF Calls, Down, Up, Tap, Text, Click, Begin, portal
<1>5. ASSUME NEW d \in Devices, Enter(d) \/ Leave(d) \/ Send(d) \/ Share(d) \/ Unshare(d)
      PROVE  Within'
  BY <1>2, <1>5 DEF Enter, Leave, Send, Share, Unshare, portal
<1>6. ASSUME NEW d \in Devices, Deliver(d) PROVE Within'
  <2>1. pc[d] \in {"press", "release", "burst"} /\ event[d] # Nobody
    BY <1>6 DEF Deliver, Inv, Asked
  <2>2. event[d].input \in Inputs
    BY <2>1, OwnEvent
  <2>3. \/ UNCHANGED <<down, raised>>
        \/ End({current})
        \/ Apply(d, event[d]) /\ Live
    BY <1>6 DEF Deliver, portal
  <2>4. CASE Apply(d, event[d]) /\ Live
    <3>1. current \in Sessions
      BY <2>4 DEF Live, Open
    <3> QED BY <2>2, <2>4, <3>1 DEF Within, Apply, Press
  <2> QED BY <1>1, <1>2, <2>3, <2>4
<1> QED BY <1>3, <1>4, <1>5, <1>6 DEF Next, Inside

(* A state that stays as it is keeps the account.                              *)
LEMMA StutterRest ==
  ASSUME Rest, UNCHANGED vars
  PROVE  Rest'
<1>1. /\ UNCHANGED <<sess, down, raised, current, generation, op, start, token, closing, mine>>
      /\ UNCHANGED <<refs, holds, pc, call, chord, gen, todo, got, event, err>>
      /\ UNCHANGED <<starts, closes, doubt>>
  BY DEF vars
<1>2. Typing' /\ Kinds' /\ Blank' /\ Future'
  BY <1>1 DEF Rest, Typing, Kinds, Blank, Future
<1>3. /\ Closers' = Closers /\ Doomed' = Doomed /\ Live' = Live
      /\ Starters' = Starters /\ Enterers' = Enterers /\ Fallen' = Fallen
  BY <1>1 DEF Closers, Doomed, Live, Open, Starters, Enterers, Fallen
<1>4. Counted' /\ Bounded'
  BY <1>1, <1>3, BoundedStays DEF Rest, Counted
<1>5. ASSUME NEW d \in Devices PROVE Account(d)'
  BY <1>1, <1>3, Undisturbed DEF Rest
<1> QED BY <1>2, <1>4, <1>5 DEF Rest

(* Whatever is called, the account is kept.                                    *)
LEMMA LedgerNext ==
  ASSUME LedgerInv, [Next]_vars
  PROVE  LedgerInv'
<1>1. Inv /\ Rest /\ Within
  BY DEF LedgerInv
<1>2. CASE Next
  <2>1. Inv'
    BY <1>1, <1>2, ControlInv, CallsInv, BoundaryInv, InsideInv DEF Next
  <2>2. Rest'
    BY <1>1, <1>2, ControlRest, CallsRest, EnterRest, SendRest, DeliverRest, ShareRest,
       UnshareRest, LeaveRest DEF Next, Inside
  <2>3. Within'
    BY <1>1, <1>2, WithinNext
  <2> QED BY <2>1, <2>2, <2>3 DEF LedgerInv
<1>3. CASE UNCHANGED vars
  <2>1. Inv' /\ Within'
    BY <1>1, <1>3 DEF vars, Inv, Shape, Locked, Taken, Asked, NoLeak, Open, Within
  <2>2. Rest'
    BY <1>1, <1>3, StutterRest
  <2> QED BY <2>1, <2>2 DEF LedgerInv
<1> QED BY <1>2, <1>3

(* The invariant holds whatever is called.                                     *)
LEMMA LedgerInvHolds == Spec => []LedgerInv
<1>1. LedgerInv /\ [Next]_vars => LedgerInv'
  BY LedgerNext
<1> QED
  BY <1>1, LedgerInit, PTL DEF Spec

(* When nobody is inside a transaction and no session is about to be closed,   *)
(* every device is clean and has nothing acquired or released.                 *)
LEMMA SettledClean ==
  ASSUME LedgerInv, Settled, NEW d \in Devices
  PROVE  /\ Account(d) /\ Clean(d) /\ Acquired(d) = {} /\ Released(d) = {}
         /\ pc[d] # "burst" /\ ~Doomed
<1>1. IsFiniteSet(Closers) /\ Cardinality(Closers) = 0
  BY DEF LedgerInv, Rest, Counted, Settled
<1>2. Closers = {}
  BY <1>1, FS_EmptySet
<1>3. d \in Procs /\ op # d
  BY Names DEF Settled
<1>4. ~Doomed /\ pc[d] # "closing"
  BY <1>2, <1>3 DEF Closers, Doomed
<1>5. ~Busy(d)
  BY <1>3, Quiet DEF LedgerInv
<1>6. Clean(d)
  BY <1>4, <1>5 DEF Clean, Settled
<1> QED BY <1>4, <1>5, <1>6 DEF LedgerInv, Rest, Busy, Transacting, Acquired, Released

(* A key has as many references as there are recorded holds that use it.       *)
LEMMA SettledCounts ==
  ASSUME LedgerInv, Settled, NEW i \in Inputs
  PROVE  refs[generation][i] = Cardinality(Users(i))
<1>1. Device[i] \in Devices
  BY PortalAssumption
<1>2. Count(i) + 0 = Cardinality(Users(i)) + 0
  BY <1>1, SettledClean DEF Account, Balanced, One
<1>3. Count(i) \in Nat
  BY GenerationFits DEF LedgerInv, Rest, Typing, Count
<1> QED BY <1>2, <1>3, UsersFinite DEF Count

(* Between transactions the references are what the compositor holds down.     *)
LEMMA SettledExact ==
  ASSUME LedgerInv, Settled
  PROVE  LedgerExact
<1>1. ASSUME Live, NEW i \in Inputs
      PROVE  /\ i \in Recorded => i \in down[current] \cup raised[current]
             /\ current \notin doubt /\ i \in down[current] => i \in Recorded
  <2>1. Device[i] \in Devices
    BY PortalAssumption
  <2> QED BY <1>1, <2>1, SettledClean DEF Account, Matched, Count, Recorded
<1>2. Live => down[current] \subseteq Inputs
  BY DEF LedgerInv, Within, Live, Open
<1> QED BY <1>1, <1>2, SettledCounts DEF LedgerExact, Recorded

(* Between transactions a key or button has one reference for each recorded    *)
(* hold that uses it (portalKeyboardKeyRefs, portalKeyboardHolds and           *)
(* portalMouseHolds), whatever calls, failures, cancellations and session ends *)
(* have come before: releasing one chord leaves the others their modifiers.    *)
THEOREM HoldsAreCounted ==
  Spec => [](Settled => \A i \in Inputs : refs[generation][i] = Cardinality(Users(i)))
<1>1. LedgerInv => (Settled => \A i \in Inputs :
                                 refs[generation][i] = Cardinality(Users(i)))
  BY SettledCounts
<1> QED BY <1>1, LedgerInvHolds, PTL

(* And what the references say is down is what the compositor holds down for   *)
(* the current session, whatever is called and however it fails, but for the   *)
(* keys that a text typed over a hold.                                         *)
THEOREM LedgerIsExact == Spec => []LedgerExact
<1>1. LedgerInv => LedgerExact
  <2>1. ~Settled => LedgerExact
    BY DEF LedgerExact
  <2> QED BY <2>1, SettledExact
<1> QED
  BY <1>1, LedgerInvHolds, PTL
-----------------------------------------------------------------------------
(* The types.                                                                  *)
Ranges ==
    /\ op \in Procs \cup {Nobody} /\ start \in {"none", "live", "cancelled"}
    /\ call \in [Procs -> {"none", "start", "close", "wayland", "down", "up", "tap",
                           "burst"}]
    /\ chord \in [Devices -> Chords \cup {Nobody}]
    /\ todo \in [Devices -> SUBSET Inputs] /\ got \in [Devices -> SUBSET Inputs]
    /\ event \in [Devices -> [input : Inputs, press : BOOLEAN] \cup {Nobody}]
    /\ err \in [Devices -> SUBSET {"other", "closed", "ownership"}]
    /\ doubt \subseteq Sessions

(* A key has no more references than there are chords.                         *)
Few == \A g \in Generations, i \in Inputs : refs[g][i] <= Cardinality(Chords)

(* Starts and closes say what they do, and a close of Wayland may doubt what   *)
(* open sessions hold.                                                         *)
LEMMA ControlRanges ==
  ASSUME Inv, Ranges, Control
  PROVE  Ranges'
<1> USE Names DEF Ranges, Go, Idle, StartReturns, Cancel, Cancelled, portal, state, pending,
                  local
<1>1. CASE \E s \in Sessions : PortalCloses(s)
  BY <1>1 DEF PortalCloses
<1>2. ASSUME NEW p \in Controllers, Start(p) \/ StartEnters(p) PROVE Ranges'
  BY <1>2 DEF Start, StartEnters
<1>3. ASSUME NEW p \in Controllers, Consent(p) \/ OpenFails(p) \/ Replace(p) PROVE Ranges'
  BY <1>3 DEF Consent, OpenFails, Replace
<1>4. ASSUME NEW p \in Controllers, Wipe(p) PROVE Ranges'
  BY <1>4 DEF Wipe, Open
<1>5. ASSUME NEW p \in Procs, Close(p) PROVE Ranges'
  BY <1>5 DEF Close
<1>6. ASSUME NEW p \in Procs, CloseEnters(p) \/ CloseEnds(p) PROVE Ranges'
  BY <1>6 DEF CloseEnters, CloseEnds
<1> QED BY <1>1, <1>2, <1>3, <1>4, <1>5, <1>6 DEF Control

(* A call takes a chord, or the inputs that it types.                          *)
LEMMA CallsRanges ==
  ASSUME Ranges, Calls
  PROVE  Ranges'
<1> USE Names
<1>1. ASSUME NEW d \in Devices, NEW what \in {"down", "up", "tap", "burst"},
             NEW c \in Chords \cup {Nobody}, NEW g, NEW S \in SUBSET Inputs,
             Begin(d, what, c, g, S)
      PROVE  Ranges'
  BY <1>1 DEF Begin, Ranges, pending
<1>2. Typed \subseteq Inputs
  BY PortalAssumption
<1>3. ASSUME NEW d \in Devices, NEW c \in Chords, Down(d, c) PROVE Ranges'
  BY <1>1, <1>3 DEF Down
<1>4. ASSUME NEW d \in Devices, NEW c \in Chords, Up(d, c) PROVE Ranges'
  BY <1>1, <1>4 DEF Up
<1>5. ASSUME NEW c \in Chords, Tap(c) PROVE Ranges'
  BY <1>1, <1>5 DEF Tap
<1>6. CASE Text
  BY <1>1, <1>2, <1>6 DEF Text
<1>7. ASSUME NEW d \in Devices, NEW i \in Typed, Click(d, i) PROVE Ranges'
  BY <1>1, <1>2, <1>7 DEF Click
<1> QED BY <1>3, <1>4, <1>5, <1>6, <1>7 DEF Calls

(* A transaction begins with the inputs of its chord, and ends with none.      *)
LEMMA BoundaryRanges ==
  ASSUME Inv, Rest, Ranges, NEW d \in Devices, Enter(d) \/ Leave(d)
  PROVE  Ranges'
<1> USE Names DEF Ranges, Go, Idle, Unused
<1>1. CASE Enter(d)
  <2>1. /\ UNCHANGED <<start, chord, got, event, err, doubt>> /\ op' \in {op, d}
        /\ call' \in {call, [call EXCEPT ![d] = "none"]}
    BY <1>1 DEF Enter
  <2>2. pc[d] = "waiting" /\ Account(d)
    BY <1>1 DEF Enter, Rest
  <2>3. call[d] # "burst" => Keys(chord[d]) \subseteq Inputs
    <3>1. call[d] # "burst" => chord[d] \in Of(d)
      BY <2>2 DEF Account, Staged, Calling
    <3> QED BY <3>1, Parts DEF Of
  <2>4. todo' \in [Devices -> SUBSET Inputs]
    <3>1. \/ todo' = todo
          \/ call[d] # "burst" /\ todo' = [todo EXCEPT ![d] = Keys(chord[d])]
          \/ call[d] # "burst" /\ todo' = [todo EXCEPT ![d] = chord[d].mods]
      BY <1>1 DEF Enter, Keys
    <3> QED BY <2>3, <3>1 DEF Keys
  <2> QED BY <2>1, <2>4
<1>2. CASE Leave(d)
  <2>1. /\ UNCHANGED <<start, chord, got, event, err, doubt>> /\ op' = Nobody
        /\ call' \in {call, [call EXCEPT ![d] = "none"]} /\ todo' = [todo EXCEPT ![d] = {}]
    BY <1>2 DEF Leave
  <2> QED BY <2>1
<1> QED BY <1>1, <1>2

(* What remains to do inside is a part of what the call is about.              *)
LEMMA InsideRanges ==
  ASSUME Inv, Rest, Ranges, NEW d \in Devices, Inside(d)
  PROVE  Ranges'
<1>1. /\ UNCHANGED <<op, start, call, chord>> /\ pc[d] \in {"press", "release", "burst"}
  BY InsideMoves DEF Inside, Send, Deliver, Share, Unshare, Moves, pending, Rest
<1>2. /\ Pressing(d) \subseteq Inputs /\ Releasing(d) \subseteq Inputs
      /\ todo[d] \subseteq Inputs /\ got[d] \subseteq Inputs
  BY <1>1, InsideFacts DEF Ranges
<1>3. ASSUME NEW e, e.input \in Inputs, NEW why \in {"other", "closed"}, Fails(d, e, why)
      PROVE  /\ todo' \in [Devices -> SUBSET Inputs] /\ got' = got
             /\ err' \in [Devices -> SUBSET {"other", "closed", "ownership"}]
  BY <1>1, <1>2, <1>3 DEF Fails, Ranges
<1>4. CASE Send(d)
  <2>1. PICK e \in Wanted(d) :
          /\ \/ event' = [event EXCEPT ![d] = e] /\ UNCHANGED <<todo, got, err>>
             \/ event' = event /\ \E why \in {"other", "closed"} : Fails(d, e, why)
          /\ doubt' = doubt
    BY <1>4 DEF Send
  <2>2. e \in [input : Inputs, press : BOOLEAN]
    <3>1. \/ \E i \in Pressing(d) : e = [input |-> i, press |-> TRUE]
          \/ \E i \in Releasing(d) : e = [input |-> i, press |-> FALSE]
          \/ todo[d] = {} /\ \E i \in got[d] : e = [input |-> i, press |-> todo[d] = {}]
          \/ todo[d] # {} /\ \E i \in todo[d] : e = [input |-> i, press |-> todo[d] = {}]
      BY <2>1 DEF Wanted
    <3>2. PICK i \in Inputs : \/ e = [input |-> i, press |-> TRUE]
                             \/ e = [input |-> i, press |-> FALSE]
      BY <1>2, <3>1
    <3>3. \A b \in BOOLEAN : [input |-> i, press |-> b] \in [input : Inputs, press : BOOLEAN]
      OBVIOUS
    <3> QED BY <3>2, <3>3, Zenon
  <2> QED BY <1>1, <1>3, <2>1, <2>2 DEF Ranges
<1>5. CASE Deliver(d)
  <2>1. PICK e : e = event[d]
    OBVIOUS
  <2>2. e # Nobody /\ e.input \in Inputs /\ event' = [event EXCEPT ![d] = Nobody]
    BY <1>5, <2>1 DEF Deliver, Ranges
  <2>3. Succeeds(d, e) \/ \E why \in {"other", "closed"} : Fails(d, e, why)
    BY <1>5, <2>1 DEF Deliver
  <2>4. Succeeds(d, e) => /\ todo' \in [Devices -> SUBSET Inputs] /\ err' = err
                          /\ got' \in [Devices -> SUBSET Inputs]
    BY <1>2, <2>2 DEF Succeeds, Ranges
  <2>5. doubt' \subseteq Sessions
    BY <1>5 DEF Deliver, Ranges, Live, Open
  <2> QED BY <1>1, <1>3, <2>2, <2>3, <2>4, <2>5 DEF Ranges
<1>6. CASE Share(d) \/ Unshare(d)
  <2>1. /\ UNCHANGED <<event, doubt>>
        /\ \E m \in Pressing(d) \cup Releasing(d) :
             /\ todo' = [todo EXCEPT ![d] = @ \ {m}]
             /\ got' \in {got, [got EXCEPT ![d] = @ \cup {m}]}
        /\ err' \in {err, [err EXCEPT ![d] = @ \cup {"ownership"}]}
    BY <1>6 DEF Share, Unshare
  <2> QED BY <1>1, <1>2, <2>1 DEF Ranges
<1> QED BY <1>4, <1>5, <1>6 DEF Inside

(* The chord that a device presses is not held: there is room for one more     *)
(* reference to each of its keys.                                              *)
LEMMA RoomForOne ==
  ASSUME Inv, Rest, NEW d \in Devices, pc[d] = "press", NEW m \in Pressing(d),
         m \notin got[d]
  PROVE  Count(m) + 1 <= Cardinality(Chords)
<1>1. PICK c : c = chord[d]
  OBVIOUS
<1>2. /\ Account(d) /\ call[d] # "burst" /\ c \in Of(d) /\ generation \in Nat
      /\ m \in Inputs /\ (\A i \in Keys(c) : i \in Inputs /\ Device[i] = d)
      /\ \A i \in Inputs : Count(i) \in Nat
  BY <1>1, InsideFacts
<1>3. /\ call[d] \in {"down", "tap"} /\ err[d] = {} /\ got[d] \cup todo[d] = c.mods
      /\ Count(c.main) = 0
  BY <1>1, <1>2 DEF Account, Staged
<1>4. Clean(d) /\ Acquired(d) = got[d] /\ Released(d) = {}
  BY <1>2, <1>3 DEF Clean, Acquired, Released
<1>5. \A i \in Keys(c) : Count(i) + 0 = Cardinality(Users(i)) + One(i \in got[d])
  BY <1>2, <1>4 DEF Account, Balanced, One
<1>6. c \notin Users(m)
  <2>1. CASE call[d] = "down"
    <3>1. holds[c] = 0
      BY <1>1, <2>1 DEF Account, Kept, Calling, Transacting, Rest
    <3> QED BY <3>1 DEF Users
  <2>2. CASE call[d] = "tap"
    <3>1. c.main \in Keys(c) /\ c.main \notin got[d]
      BY <1>2, <1>3, Parts DEF Of, Keys
    <3>2. Cardinality(Users(c.main)) = 0
      BY <1>3, <1>5, <3>1, UsersFinite DEF One
    <3>3. Users(c.main) = {}
      BY <3>2, UsersFinite, FS_EmptySet
    <3> QED BY <3>3 DEF Users
  <2> QED BY <1>3, <2>1, <2>2
<1>7. m \in Keys(c)
  BY <1>1, <1>3 DEF Pressing, Keys
<1>8. Count(m) = Cardinality(Users(m))
  BY <1>2, <1>5, <1>7, UsersFinite DEF One
<1>9. Cardinality(Users(m)) <= Cardinality(Chords) - 1
  <2>1. IsFiniteSet(Chords) /\ c \in Chords
    BY <1>2, PortalAssumption DEF Of
  <2>2. IsFiniteSet(Chords \ {c}) /\ Cardinality(Chords \ {c}) = Cardinality(Chords) - 1
    BY <2>1, FS_RemoveElement
  <2>3. Users(m) \subseteq Chords \ {c}
    BY <1>6 DEF Users
  <2> QED BY <2>2, <2>3, FS_Subset
<1> QED BY <1>8, <1>9, UsersFinite, PortalAssumption, FS_CardinalityType

(* References are acquired only where there is room.                           *)
LEMMA FewNext ==
  ASSUME Inv, Rest, Few, Next
  PROVE  Few'
<1>1. Cardinality(Chords) \in Nat
  BY PortalAssumption, FS_CardinalityType
<1>2. CASE UNCHANGED refs
  BY <1>2 DEF Few
<1>3. ASSUME NEW d \in Devices, NEW g, Forget(d, g) PROVE Few'
  BY <1>1, <1>3, Forgotten DEF Few, Rest
<1>4. ASSUME NEW d \in Devices, NEW i \in Inputs, NEW n \in Nat, SetRef(d, i, n),
             gen[d] = generation, n <= Cardinality(Chords), UNCHANGED generation
      PROVE  Few'
  <2>1. refs' = [refs EXCEPT ![generation][i] = n]
    BY <1>4 DEF SetRef
  <2> QED BY <1>4, <2>1 DEF Few, Rest, Typing
<1>5. CASE Control
  <2>1. ASSUME NEW p \in Controllers, Wipe(p) PROVE Few'
    BY <1>1, <2>1 DEF Wipe, Few
  <2>2. \/ UNCHANGED refs
        \/ \E p \in Controllers : Wipe(p)
        \/ \E d \in Devices : Forget(d, gen[d])
    BY <1>5 DEF Control, PortalCloses, Start, StartEnters, Consent, OpenFails, Replace, Close,
                CloseEnters, CloseEnds, ledger
  <2> QED BY <1>2, <1>3, <2>1, <2>2
<1>6. CASE Calls
  <2>1. Keyboard \in Devices
    BY Names
  <2>2. UNCHANGED refs \/ \E d \in Devices : \E g : Forget(d, g)
    BY <1>6, <2>1 DEF Calls, Down, Up, Tap, Text, Click, ledger
  <2> QED BY <1>2, <1>3, <2>2
<1>7. ASSUME NEW d \in Devices, Enter(d) \/ Leave(d) PROVE Few'
  <2>1. UNCHANGED refs \/ Forget(d, gen[d])
    BY <1>7 DEF Enter, Leave, Unused, ledger
  <2> QED BY <1>2, <1>3, <2>1
<1>8. ASSUME NEW d \in Devices, Inside(d) PROVE Few'
  <2>1. /\ pc[d] \in {"press", "release", "burst"} /\ UNCHANGED generation
        /\ gen[d] = generation /\ Pressing(d) \subseteq Inputs
        /\ Releasing(d) \subseteq Inputs /\ (\A i \in Inputs : Count(i) \in Nat)
    <3>1. pc[d] \in {"press", "release", "burst"} /\ UNCHANGED generation
      BY <1>8, InsideMoves DEF Rest, Moves
    <3>2. Pressing(d) \subseteq Inputs /\ Releasing(d) \subseteq Inputs
      <4>1. pc[d] = "release" => call[d] # "burst" /\ todo[d] \subseteq Keys(chord[d])
        BY <3>1, InsideFacts DEF Account, Staged
      <4> QED BY <3>1, <4>1, InsideFacts DEF Releasing
    <3> QED BY <3>1, <3>2, InsideFacts
  <2>2. Cardinality(Chords) >= 1 \/ pc[d] # "press"
    <3>1. pc[d] = "press" => Chords # {}
      BY InsideFacts DEF Of
    <3> QED BY <1>1, <3>1, PortalAssumption, FS_EmptySet
  <2>3. CASE Send(d)
    BY <1>2, <2>3 DEF Send, Fails
  <2>4. CASE Deliver(d)
    <3>1. PICK k : k = event[d].input
      OBVIOUS
    <3>2. k \in Inputs
      BY <2>1, <2>4, <3>1, OwnEvent DEF Deliver
    <3>3. \/ UNCHANGED refs
          \/ pc[d] = "press" /\ SetRef(d, k, 1)
          \/ SetRef(d, k, 0)
      BY <2>4, <3>1 DEF Deliver, Succeeds, Fails
    <3> QED BY <1>1, <1>2, <1>4, <2>1, <2>2, <3>2, <3>3
  <2>5. CASE Share(d)
    <3>1. PICK m \in Pressing(d) : Ref(d, m) > 0 /\ SetRef(d, m, Ref(d, m) + 1)
      BY <2>5 DEF Share
    <3>2. Ref(d, m) = Count(m) /\ pc[d] = "press" /\ m \in Inputs
      BY <2>1 DEF Ref, Count, Pressing
    <3>3. m \notin got[d]
      BY <2>1, <3>1, <3>2, InsideFacts DEF Account, Staged, Pressing
    <3>4. Count(m) + 1 <= Cardinality(Chords)
      BY <3>2, <3>3, RoomForOne
    <3> QED BY <1>4, <2>1, <3>1, <3>2, <3>4
  <2>6. CASE Unshare(d)
    <3>1. PICK m \in Releasing(d) :
            UNCHANGED refs \/ (Ref(d, m) > 1 /\ SetRef(d, m, Ref(d, m) - 1))
      BY <2>6 DEF Unshare
    <3>2. m \in Inputs /\ generation \in Generations
      BY <2>1, GenerationFits DEF Rest
    <3>3. Ref(d, m) = Count(m) /\ Count(m) <= Cardinality(Chords)
      BY <2>1, <3>2 DEF Ref, Count, Few
    <3> QED BY <1>1, <1>2, <1>4, <2>1, <3>1, <3>2, <3>3
  <2> QED BY <1>8, <2>3, <2>4, <2>5, <2>6 DEF Inside
<1> QED BY <1>5, <1>6, <1>7, <1>8 DEF Next

(* All of it together is kept.                                                 *)
LEMMA TypedNext ==
  ASSUME LedgerInv, Ranges, Few, [Next]_vars
  PROVE  Ranges' /\ Few'
<1>1. Inv /\ Rest
  BY DEF LedgerInv
<1>2. CASE Next
  BY <1>1, <1>2, FewNext, ControlRanges, CallsRanges, BoundaryRanges, InsideRanges DEF Next
<1>3. CASE UNCHANGED vars
  BY <1>3 DEF vars, Ranges, Few
<1> QED BY <1>2, <1>3

(* Every state is well-typed: generations do not run out, and an input has no  *)
(* more references than there are chords.                                      *)
THEOREM TypeCorrect == Spec => []TypeOK
<1>1. Init => Ranges /\ Few
  <2>1. Cardinality(Chords) \in Nat
    BY PortalAssumption, FS_CardinalityType
  <2> QED BY <2>1, Names DEF Init, Ranges, Few, Procs
<1>2. LedgerInv /\ Ranges /\ Few /\ [Next]_vars => Ranges' /\ Few'
  BY TypedNext
<1>3. LedgerInv /\ Ranges /\ Few => TypeOK
  <2> SUFFICES ASSUME LedgerInv, Ranges, Few PROVE TypeOK
    OBVIOUS
  <2>1. generation \in Generations /\ generation \in Nat
    BY GenerationFits DEF LedgerInv, Rest, Typing
  <2>2. \A n \in Nat : n <= generation => n \in Generations
    <3>1. PICK n \in Int : Generations = 0..n
      BY Parts, Names DEF Generations
    <3> QED BY <2>1, <3>1
  <2>3. holds \in [Chords -> Generations] /\ gen \in [Devices -> Generations]
    BY <2>2 DEF LedgerInv, Rest, Typing, Future
  <2>4. refs \in [Generations -> [Inputs -> 0..Cardinality(Chords)]]
    <3>1. Cardinality(Chords) \in Nat
      BY PortalAssumption, FS_CardinalityType
    <3>2. \A g \in Generations, i \in Inputs : refs[g][i] \in 0..Cardinality(Chords)
      BY <3>1 DEF Few, LedgerInv, Rest, Typing
    <3> QED BY <3>2 DEF LedgerInv, Rest, Typing
  <2>5. closing \in Nat
    BY FS_CardinalityType DEF LedgerInv, Rest, Counted
  <2>6. starts \in 0..MaxStarts /\ closes \in 0..MaxCloses
    BY Names, Parts DEF LedgerInv, Rest, Typing, Bounded
  <2>7. pc \in [Procs -> {"idle", "starting", "opening", "replacing", "closing", "ending",
                          "wiping", "waiting", "press", "release", "burst", "leave", "failed"}]
    BY DEF LedgerInv, Inv, Shape, Holding, Transacting
  <2>8. token \in {"none", "live", "cancelled"}
    BY DEF LedgerInv, Rest, Counted
  <2>9. /\ sess \in [Sessions -> {"none", "open", "closed"}]
        /\ current \in 0..MaxStarts /\ mine \in 0..MaxStarts
    BY DEF LedgerInv, Inv, Shape
  <2> QED BY <2>1, <2>3, <2>4, <2>5, <2>6, <2>7, <2>8, <2>9
         DEF TypeOK, Ranges, LedgerInv, Within
<1> QED BY <1>1, <1>2, <1>3, LedgerInvHolds, PTL DEF Spec
=============================================================================
