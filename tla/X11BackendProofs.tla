-------------------------- MODULE X11BackendProofs --------------------------
(* Theorems about X11Backend, for any keycodes, keymap, modifiers and texts:   *)
(* the ledger of what is held is right, every key types its symbol, nothing of *)
(* another client is released or rewritten, and a clean close leaves nothing.  *)
EXTENDS X11Backend, FiniteSetTheorems, TLAPS

(* A doubt lasts until the connection ends, and a connection whose cleanup is  *)
(* put off is only closed again.  A text that goes on has a symbol left.       *)
Phased ==
    /\ doubt => pending \/ pc \in {"release", "restore"}
    /\ pending => pc \in {"idle", "release", "restore"}
    /\ pc = "text" => rest # <<>>

(* What is held is counted, and nothing is once it has all been released.      *)
Counted ==
    /\ IsFiniteSet(held)
    /\ pc = "restore" /\ lost # "cleanup" => refs = NoRefs /\ held = {}

(* Only slots of the pool are bound.                                           *)
Slotted == \A c \in Codes : bound[c] # {} => ready /\ c \in pool

(* A rewritten keycode is one connection's; unless an answer was lost, those   *)
(* of this connection carry what it bound them to.                             *)
Accounted ==
    /\ wrote \cap stray = {}
    /\ ~doubt => \A c \in wrote : bound[c] # {} /\ map[c] = bound[c]

(* The inductive invariant.                                                    *)
Inv ==
    /\ TypeOK
    /\ Ledger /\ TypesItsSymbol
    /\ Phased /\ Counted /\ Slotted /\ Accounted

(* What a step of the backend does to other clients, and how it may close.     *)
ForeignStep ==
    /\ \A i \in Inputs : holder[i] = "other" /\ holder'[i] # "other"
                          => pc = "release" /\ doubt
    /\ \A c \in Codes : map'[c] # map[c] => map[c] = {} \/ map[c] = bound[c]
CleanStep ==
    Connected /\ conn' = "closed" /\ ~doubt
    => /\ \A i \in Inputs : holder[i] # "us"
       /\ stray' = stray

(* Nothing is held or bound before the first call.                             *)
LEMMA InitInv == Init => Inv
<1> SUFFICES ASSUME Init PROVE Inv
  OBVIOUS
<1> USE BackendAssumption DEF Init, NoRefs, NoBinding
<1>1. TypeOK
  <2>1. rest \in Seq(Keysyms)
    OBVIOUS
  <2> QED BY <2>1 DEF TypeOK, Holders
<1>2. Ledger
  <2>1. \A c \in Codes : Uses(c) = {}
    BY DEF Uses
  <2>2. Cardinality({}) = 0
    BY FS_EmptySet
  <2>3. \A i \in Inputs : refs[i] = 0 /\ holder[i] = "none"
    OBVIOUS
  <2>4. Codes \subseteq Inputs
    BY DEF Inputs
  <2> HIDE DEF Init, NoRefs
  <2>5. \A c \in Codes : refs[c] = Cardinality(Uses(c))
    BY <2>1, <2>2, <2>3, <2>4
  <2> QED BY <2>3, <2>5 DEF Ledger
<1>3. TypesItsSymbol /\ Phased /\ Counted /\ Slotted /\ Accounted
  BY FS_EmptySet DEF TypesItsSymbol, Phased, Counted, Slotted, Accounted
<1> QED BY <1>1, <1>2, <1>3 DEF Inv

-----------------------------------------------------------------------------
(* Other clients keep the invariant: what they press was free, and what they   *)
(* write into a keycode is no longer taken for the backend's.                  *)
LEMMA OthersInv ==
  ASSUME Inv, Others
  PROVE  Inv' /\ CleanStep
<1> USE DEF Inv, TypeOK, Holders
<1>1. UNCHANGED <<conn, refs, held, ready, pool, bound, pending, pc, rest, lost,
                  doubt, mistyped>>
  BY DEF Others, scratch, call, history
<1>2. CleanStep
  BY <1>1 DEF CleanStep, Connected
<1>3. TypesItsSymbol' /\ Phased' /\ Counted' /\ Slotted'
  BY <1>1 DEF TypesItsSymbol, Phased, Counted, Slotted
<1>4. \A c \in Codes : Uses(c)' = Uses(c)
  BY <1>1 DEF Uses
<1>5. ASSUME NEW i \in Contested, OtherPresses(i) \/ OtherReleases(i)
      PROVE  TypeOK' /\ Ledger' /\ Accounted'
  <2>1. /\ i \in Inputs /\ holder[i] \in {"none", "other"}
        /\ holder' \in {[holder EXCEPT ![i] = "other"], [holder EXCEPT ![i] = "none"]}
        /\ UNCHANGED <<map, mods, wrote, stray>>
    BY <1>5, BackendAssumption DEF OtherPresses, OtherReleases, Free
  <2>2. TypeOK' /\ Accounted'
    BY <1>1, <2>1 DEF Accounted
  <2>3. Ledger'
    BY <1>1, <1>4, <2>1 DEF Ledger
  <2> QED BY <2>2, <2>3
<1>6. ASSUME NEW c \in Codes, NEW image \in Images, OtherRemaps(c, image)
      PROVE  TypeOK' /\ Ledger' /\ Accounted'
  BY <1>1, <1>4, <1>6, BackendAssumption DEF OtherRemaps, Ledger, Accounted, Slotted
<1>7. ASSUME NEW c \in Codes, OtherModifier(c)
      PROVE  TypeOK' /\ Ledger' /\ Accounted'
  BY <1>1, <1>4, <1>7 DEF OtherModifier, Ledger, Accounted
<1>8. CASE GuardianSettles
  <2>1. TypeOK' /\ Accounted'
    BY <1>1, <1>8 DEF GuardianSettles, Accounted
  <2>2. Ledger'
    BY <1>1, <1>4, <1>8 DEF GuardianSettles, Ledger
  <2> QED BY <1>1, <1>2, <1>3, <2>1, <2>2
<1> QED BY <1>1, <1>2, <1>3, <1>5, <1>6, <1>7, <1>8 DEF Others
-----------------------------------------------------------------------------
(* The bindings f are for empty slots of the pool that a call leaves.          *)
Fits(f) ==
    /\ pool' \subseteq Codes /\ ready' \in BOOLEAN
    /\ \A c \in Codes : bound[c] # {} => ready' /\ c \in pool'
    /\ \A c \in DOMAIN f :
         /\ c \in pool' /\ ready' /\ map[c] = {} /\ bound[c] = {}
         /\ f[c] \subseteq Keysyms /\ f[c] # {}

(* A call that goes past loading the keymap finds every bound slot as the      *)
(* backend left it, and an available one empty.                                *)
LEMMA Loaded ==
  ASSUME Inv, NEW P, Load(P)
  PROVE  /\ P \subseteq Codes /\ pool' = P /\ ready'
         /\ \A c \in Codes : bound[c] # {} => c \in P /\ map[c] = bound[c]
         /\ \A c \in Available(P) : c \in Codes /\ map[c] = {} /\ bound[c] = {}
<1> USE DEF Inv, TypeOK, Slotted, Load, Conflict
<1>1. P \in Pools /\ ~Conflict
  OBVIOUS
<1>2. CASE ~ready
  <2>1. P = Vacant
    BY <1>1, <1>2 DEF Pools
  <2> QED BY <1>2, <2>1 DEF Vacant, Available
<1>3. CASE ready /\ P = Vacant /\ bound = NoBinding
  BY <1>3 DEF Vacant, Available, NoBinding
<1>4. CASE /\ ready
           /\ P = {c \in pool : c \notin mods /\ (bound[c] # {} \/ map[c] = {})}
  BY <1>1, <1>4 DEF Available
<1> QED BY <1>1, <1>2, <1>3, <1>4 DEF Pools

(* Such a call fits when it binds available slots, or nothing.                 *)
LEMMA Fitting ==
  ASSUME Inv, NEW P, Load(P), NEW f, DOMAIN f \subseteq Available(P),
         \A c \in DOMAIN f : f[c] \subseteq Keysyms /\ f[c] # {}
  PROVE  Fits(f)
BY Loaded DEF Fits, Available

LEMMA FitsNothing ==
  ASSUME Inv, NEW f, DOMAIN f = {}, UNCHANGED <<ready, pool>>
  PROVE  Fits(f)
BY DEF Inv, TypeOK, Slotted, Fits

(* A symbol is resolved to a keycode that carries it, or to a new binding.     *)
LEMMA Resolved ==
  ASSUME Inv, NEW P, Load(P), NEW k \in Keysyms, NEW allow, NEW force,
         NEW r \in Resolutions(P, k, allow, force)
  PROVE  /\ r.code \in Codes
         /\ (r.new = {} /\ map[r.code] = {k}) \/ r.new = {r.code}
         /\ Fits([c \in r.new |-> {k}])
<1>1. /\ r.code \in Codes
      /\ \/ r.new = {} /\ map[r.code] = {k}
         \/ r.new = {r.code} /\ r.code \in Available(P)
  <2>1. CASE r \in {[code |-> c, new |-> {}] : c \in Plain(k)}
    BY <2>1 DEF Plain
  <2>2. CASE r \in {[code |-> c, new |-> {}] : c \in SlotOf(P, k)}
    BY <2>2, Loaded DEF SlotOf
  <2>3. CASE r \in {[code |-> c, new |-> {c}] : c \in Available(P)}
    BY <2>3, Loaded DEF Available
  <2> QED BY <2>1, <2>2, <2>3 DEF Resolutions
<1>2. Fits([c \in r.new |-> {k}])
  BY <1>1, Fitting
<1> QED BY <1>1, <1>2

(* A modifier in the modifier map is a keycode.                                *)
LEMMA ModifiersAreCodes ==
  ASSUME Inv, NEW M, NEW C \in ModifierCodes(M)
  PROVE  C \subseteq Codes
BY DEF ModifierCodes, Inv, TypeOK

(* A text reserves available slots, each for one of its symbols.               *)
LEMMA Reserved ==
  ASSUME Inv, NEW P, Load(P), NEW t \in Texts, NEW f \in Reservations(P, t)
  PROVE  Fits(f)
<1>1. t \in Seq(Keysyms)
  BY BackendAssumption
<1>2. Missing(P, t) \subseteq Keysyms
  BY <1>1 DEF Missing
<1>3. PICK D \in SUBSET Available(P) : f \in [D -> {{k} : k \in Missing(P, t)}]
  BY DEF Reservations
<1>4. /\ DOMAIN f \subseteq Available(P)
      /\ \A c \in DOMAIN f : \E k \in Missing(P, t) : f[c] = {k}
  BY <1>3
<1> QED BY <1>2, <1>4, Fitting

-----------------------------------------------------------------------------
(* Binding slots under the grab, and nothing else.                             *)
LEMMA BindKeeps ==
  ASSUME Inv, NEW f, Fits(f), Bind(f), UNCHANGED doubt
  PROVE  /\ Slotted' /\ Accounted'
         /\ map' \in [Codes -> SUBSET Keysyms] /\ bound' \in [Codes -> SUBSET Keysyms]
         /\ mods' \subseteq Codes /\ wrote' \subseteq Codes /\ stray' \subseteq Codes
         /\ pool' \subseteq Codes /\ ready' \in BOOLEAN
         /\ \A c \in Codes : map'[c] # map[c] => map[c] = {}
<1> USE DEF Inv, TypeOK, Fits, Bind
<1>1. DOMAIN f \subseteq Codes
  OBVIOUS
<1>2. map' \in [Codes -> SUBSET Keysyms] /\ bound' \in [Codes -> SUBSET Keysyms]
  BY <1>1
<1>3. Slotted'
  BY <1>1 DEF Slotted
<1>4. Accounted'
  BY <1>1 DEF Accounted
<1> QED BY <1>1, <1>2, <1>3, <1>4

(* Binding nothing.                                                            *)
LEMMA NothingBound ==
  ASSUME Inv, NEW f, DOMAIN f = {}, Fits(f), UNCHANGED <<map, mods, wrote, stray, bound>>
  PROVE  Bind(f)
BY DEF Inv, TypeOK, Bind

(* A lost connection keeps the invariant: what the backend does not know of is *)
(* a doubt, and a key it held stays in the ledger until it has gone up.        *)
LEMMA BreaksInv ==
  ASSUME Inv, ~doubt, pc \in {"idle", "text", "drag"}, ~pending,
         NEW S \in SUBSET Inputs, \A i \in S : Free(i) \/ refs[i] > 0,
         NEW f, Fits(f), Breaks(S, f)
  PROVE  Inv' /\ ForeignStep /\ CleanStep
<1>1. PICK down \in SUBSET S, believed \in SUBSET S, written \in SUBSET DOMAIN f :
        \E unknown \in SUBSET written :
         /\ \A i \in down : refs[i] > 0 => i \in believed
         /\ holder' = [i \in Inputs |-> IF i \in down THEN "us"
                                        ELSE IF i \in S THEN "none" ELSE holder[i]]
         /\ refs' = [i \in Inputs |-> IF i \in believed THEN 1
                                      ELSE IF i \in S THEN 0 ELSE refs[i]]
         /\ map' = [c \in Codes |-> IF c \in written THEN f[c] ELSE map[c]]
         /\ bound' = [c \in Codes |-> IF c \in written \ unknown THEN f[c] ELSE bound[c]]
         /\ wrote' = wrote \cup written
         /\ stray' = stray \ written
         /\ doubt' = (down # believed \/ unknown # {})
  BY DEF Breaks
<1>2. PICK unknown \in SUBSET written :
         doubt' = (down # believed \/ unknown # {})
         /\ bound' = [c \in Codes |-> IF c \in written \ unknown THEN f[c] ELSE bound[c]]
  BY <1>1
<1>3. /\ pc' = "release" /\ lost' = "call" /\ rest' = <<>>
      /\ UNCHANGED <<mods, conn, held, pending, mistyped>>
  BY DEF Breaks
<1>4. rest' \in Seq(Keysyms)
  BY <1>3
<1>5. /\ DOMAIN f \subseteq Codes
      /\ \A c \in DOMAIN f :
           map[c] = {} /\ bound[c] = {} /\ f[c] # {} /\ f[c] \subseteq Keysyms
  BY DEF Fits
<1> USE DEF Inv, TypeOK, Holders
<1>6. /\ holder' \in [Inputs -> Holders] /\ refs' \in [Inputs -> Nat]
  BY <1>1
<1>7. /\ map' \in [Codes -> SUBSET Keysyms] /\ bound' \in [Codes -> SUBSET Keysyms]
      /\ wrote' \subseteq Codes /\ stray' \subseteq Codes /\ mods' \subseteq Codes
      /\ doubt' \in BOOLEAN
  BY <1>1, <1>2, <1>3, <1>5
<1>8. TypeOK'
  BY <1>3, <1>4, <1>6, <1>7 DEF Fits
<1>9. Ledger'
  <2>1. ASSUME ~doubt', NEW i \in Inputs
        PROVE  (refs'[i] > 0) <=> (holder'[i] = "us")
    <3>1. down = believed
      BY <1>2, <2>1
    <3> QED BY <1>1, <3>1 DEF Ledger
  <2> QED BY <1>3, <2>1 DEF Ledger
<1>10. TypesItsSymbol' /\ Phased' /\ Counted'
  BY <1>3 DEF TypesItsSymbol, Phased, Counted
<1>11. Slotted'
  BY <1>2, <1>5 DEF Slotted, Fits
<1>12. Accounted'
  <2>1. wrote' \cap stray' = {}
    BY <1>1 DEF Accounted
  <2>2. ASSUME ~doubt', NEW c \in wrote'
        PROVE  bound'[c] # {} /\ map'[c] = bound'[c]
    BY <1>1, <1>2, <1>5, <2>2 DEF Accounted
  <2> QED BY <2>1, <2>2 DEF Accounted
<1>13. ForeignStep
  <2>1. ASSUME NEW i \in Inputs, holder[i] = "other"
        PROVE  holder'[i] = "other"
    <3>1. i \notin S
      BY <2>1 DEF Free, Ledger
    <3> QED BY <1>1, <2>1, <3>1
  <2>2. ASSUME NEW c \in Codes, map'[c] # map[c]
        PROVE  map[c] = {}
    BY <1>1, <1>5, <2>2
  <2> QED BY <2>1, <2>2 DEF ForeignStep
<1>14. CleanStep
  BY <1>3 DEF CleanStep, Connected
<1> QED BY <1>8, <1>9, <1>10, <1>11, <1>12, <1>13, <1>14
-----------------------------------------------------------------------------
(* A transaction that holds and releases nothing in the end, and binds f.      *)
LEMMA BindingInv ==
  ASSUME Inv, NEW f, Fits(f), Bind(f),
         UNCHANGED <<holder, refs, held, doubt, conn, pending>>,
         pc \in {"idle", "text", "drag"}, pc' \in {"idle", "text", "drag"},
         pending => pc' = "idle", rest' \in Seq(Keysyms), pc' = "text" => rest' # <<>>,
         lost' \in {"no", "call", "cleanup"}, mistyped' = FALSE
  PROVE  Inv' /\ ForeignStep /\ CleanStep
<1> USE DEF Inv, Holders
<1>1. Slotted' /\ Accounted' /\ \A c \in Codes : map'[c] # map[c] => map[c] = {}
  BY BindKeeps
<1>2. TypeOK'
  BY BindKeeps DEF TypeOK
<1>3. \A c \in Codes : Uses(c)' = Uses(c)
  BY DEF Uses
<1>4. Ledger'
  BY <1>3 DEF Ledger
<1>5. TypesItsSymbol' /\ Phased' /\ Counted'
  BY DEF TypesItsSymbol, Phased, Counted
<1>6. ForeignStep /\ CleanStep
  BY <1>1 DEF ForeignStep, CleanStep, Connected
<1> QED BY <1>1, <1>2, <1>4, <1>5, <1>6

(* Queries and refusals leave everything but the pool.                         *)
LEMMA LoadingInv ==
  ASSUME Inv, NEW P, Load(P), Usable,
         UNCHANGED <<server, conn, refs, held, bound, pending, call, history>>
  PROVE  Inv' /\ ForeignStep /\ CleanStep
<1>1. Fits(<<>>)
  BY Fitting
<1>2. Bind(<<>>)
  BY <1>1, NothingBound DEF server
<1> QED
  BY <1>1, <1>2, BindingInv DEF Usable, server, call, history, Inv, TypeOK, Phased,
     TypesItsSymbol

LEMMA IdleInv ==
  ASSUME Inv, Usable,
         UNCHANGED <<server, conn, refs, held, scratch, pending, call, history>>
  PROVE  Inv' /\ ForeignStep /\ CleanStep
<1>1. Fits(<<>>)
  BY FitsNothing DEF scratch
<1>2. Bind(<<>>)
  BY <1>1, NothingBound DEF server, scratch
<1> QED
  BY <1>1, <1>2, BindingInv DEF Usable, server, call, history, Inv, TypeOK, Phased,
     TypesItsSymbol

(* A call may only begin, and a lost answer is possible, when nothing is in    *)
(* doubt.                                                                      *)
LEMMA Certain ==
  ASSUME Inv, Usable \/ pc \in {"text", "drag"}
  PROVE  ~doubt /\ ~pending /\ pc \in {"idle", "text", "drag"}
BY DEF Inv, Phased, Usable, TypeOK

(* A tap types its symbol, on a keycode that carries it or is bound to it.     *)
LEMMA TapInv ==
  ASSUME Inv, NEW k \in Keysyms, NEW M, NEW allow, NEW force,
         Usable \/ pc = "text", TapKeysym(k, M, allow, force),
         rest' \in Seq(Keysyms), pc' = "idle" \/ (pc' = "text" /\ rest' # <<>>),
         lost' = lost
  PROVE  Inv' /\ ForeignStep /\ CleanStep
<1>1. PICK P \in Pools, C \in ModifierCodes(M) :
        \E r \in Resolutions(P, k, allow, force) :
           /\ Resolve(P, k, r)
           /\ mistyped' = (mistyped \/ map'[r.code] # {k})
           /\ UNCHANGED <<holder, conn, refs, held, pending, doubt>>
  BY DEF TapKeysym
<1>2. PICK r \in Resolutions(P, k, allow, force) :
        /\ Resolve(P, k, r)
        /\ mistyped' = (mistyped \/ map'[r.code] # {k})
        /\ UNCHANGED <<holder, conn, refs, held, pending, doubt>>
  BY <1>1
<1> DEFINE f == [c \in r.new |-> {k}]
<1>3. Load(P) /\ Bind(f)
  BY <1>2 DEF Resolve
<1>4. /\ r.code \in Codes /\ Fits(f)
      /\ (r.new = {} /\ map[r.code] = {k}) \/ r.new = {r.code}
  BY <1>3, Resolved
<1>5. map'[r.code] = {k}
  BY <1>3, <1>4 DEF Bind
<1>6. mistyped' = FALSE
  BY <1>2, <1>5 DEF Inv, TypesItsSymbol
<1>7. lost' \in {"no", "call", "cleanup"}
  BY DEF Inv, TypeOK
<1> HIDE DEF f
<1> QED BY <1>2, <1>3, <1>4, <1>6, <1>7, BindingInv, Certain

(* A tap that is refused, or finds no keycode, leaves what it bound.           *)
LEMMA TapFailsInv ==
  ASSUME Inv, NEW k \in Keysyms, NEW M, NEW allow, NEW force,
         Usable \/ pc = "text", TapFails(k, M, allow, force),
         rest' \in Seq(Keysyms), pc' = "idle", lost' = lost
  PROVE  Inv' /\ ForeignStep /\ CleanStep
<1>1. /\ UNCHANGED <<holder, conn, refs, held, pending, doubt, mistyped>>
      /\ \E P, f : Load(P) /\ Fits(f) /\ Bind(f)
  <2>1. CASE TapRefused(k, M, allow, force)
    <3>1. PICK P \in Pools, C \in ModifierCodes(M) :
            \E r \in Resolutions(P, k, allow, force) : Resolve(P, k, r)
      BY <2>1 DEF TapRefused
    <3>2. PICK r \in Resolutions(P, k, allow, force) : Resolve(P, k, r)
      BY <3>1
    <3>3. Load(P) /\ Bind([c \in r.new |-> {k}])
      BY <3>2 DEF Resolve
    <3>4. Fits([c \in r.new |-> {k}])
      BY <3>3, Resolved
    <3> QED BY <2>1, <3>3, <3>4 DEF TapRefused, history
  <2>2. CASE Unsupported(k, M, allow, force)
    <3>1. PICK P \in Pools : Load(P)
      BY <2>2 DEF Unsupported
    <3>2. UNCHANGED <<map, mods, wrote, stray, bound, holder, conn, refs, held,
                      pending, doubt, mistyped>>
      BY <2>2 DEF Unsupported, server, history
    <3>3. Fits(<<>>)
      BY <3>1, Fitting
    <3>4. Bind(<<>>)
      BY <3>2, <3>3, NothingBound
    <3> QED BY <3>1, <3>2, <3>3, <3>4
  <2> QED BY <2>1, <2>2 DEF TapFails
<1>2. lost' \in {"no", "call", "cleanup"} /\ mistyped' = FALSE
  BY <1>1 DEF Inv, TypeOK, TypesItsSymbol
<1> QED BY <1>1, <1>2, BindingInv, Certain

(* A tap that loses the connection.                                            *)
LEMMA TapBreaksInv ==
  ASSUME Inv, NEW k \in Keysyms, NEW M, NEW allow, NEW force,
         Usable \/ pc = "text", TapBreaks(k, M, allow, force)
  PROVE  Inv' /\ ForeignStep /\ CleanStep
<1>1. PICK P \in Pools, C \in ModifierCodes(M) :
        \E r \in Resolutions(P, k, allow, force) :
           /\ Load(P)
           /\ Breaks({c \in C \cup {r.code} : Free(c)}, [c \in r.new |-> {k}])
  BY DEF TapBreaks
<1>2. PICK r \in Resolutions(P, k, allow, force) :
        Load(P) /\ Breaks({c \in C \cup {r.code} : Free(c)}, [c \in r.new |-> {k}])
  BY <1>1
<1>3. r.code \in Codes /\ Fits([c \in r.new |-> {k}])
  BY <1>2, Resolved
<1>4. {c \in C \cup {r.code} : Free(c)} \in SUBSET Inputs
  BY <1>3, ModifiersAreCodes DEF Inputs
<1> QED BY <1>2, <1>3, <1>4, BreaksInv, Certain
-----------------------------------------------------------------------------
(* Holds change under the grab, the keymap does not.                           *)
LEMMA HoldingInv ==
  ASSUME Inv,
         UNCHANGED <<map, mods, wrote, stray, conn, bound, pending, rest, lost,
                     doubt>>,
         Fits(<<>>), ~doubt, pc' \in {"idle", "text", "drag"}, pending => pc' = "idle",
         pc' = "text" => rest # <<>>, mistyped' = FALSE,
         holder' \in [Inputs -> Holders], refs' \in [Inputs -> Nat],
         held' \subseteq [key : Keysyms, code : Codes, mods : SUBSET Codes],
         IsFiniteSet(held)', Ledger',
         \A i \in Inputs : holder[i] = "other" => holder'[i] = "other"
  PROVE  Inv' /\ ForeignStep /\ CleanStep
<1>1. Bind(<<>>)
  BY NothingBound
<1>2. Slotted' /\ Accounted'
  BY <1>1, BindKeeps
<1>3. TypeOK'
  BY <1>1, BindKeeps DEF Inv, TypeOK
<1>4. TypesItsSymbol' /\ Phased' /\ Counted'
  BY DEF Inv, TypesItsSymbol, Phased, Counted
<1>5. ForeignStep /\ CleanStep
  BY DEF ForeignStep, CleanStep, Connected
<1> QED BY <1>2, <1>3, <1>4, <1>5 DEF Inv

(* A key that is not held goes down, with the modifiers nobody else holds: it  *)
(* had no references, and each modifier has one more.                          *)
LEMMA KeyGoesDown ==
  ASSUME Inv, Usable, NEW k \in Keysyms, NEW C \in SUBSET Codes,
         NEW c \in Codes, MayPress(c, C),
         \A h \in held : h.key # k, Fits(<<>>),
         holder' = [i \in Inputs |-> IF i = c \/ i \in Acquired(C) THEN "us" ELSE holder[i]],
         refs' = [i \in Inputs |-> IF i = c THEN 1
                                   ELSE IF i \in Acquired(C) THEN refs[i] + 1 ELSE refs[i]],
         held' = held \cup {[key |-> k, code |-> c, mods |-> Acquired(C)]},
         mistyped' = FALSE,
         UNCHANGED <<map, mods, wrote, stray, conn, bound, pending, pc, rest,
                     lost, doubt>>
  PROVE  Inv' /\ ForeignStep /\ CleanStep
<1> DEFINE h == [key |-> k, code |-> c, mods |-> Acquired(C)]
<1>1. ~doubt /\ pc = "idle" /\ ~pending
  BY Certain DEF Usable
<1>2. Acquired(C) \subseteq C /\ c \notin C /\ holder[c] = "none"
      /\ \A i \in Acquired(C) : holder[i] = "none" \/ refs[i] > 0
  BY DEF Acquired, MayPress, Free
<1>3. /\ Codes \subseteq Inputs
      /\ refs \in [Inputs -> Nat] /\ holder \in [Inputs -> Holders]
      /\ IsFiniteSet(held)
      /\ \A i \in Inputs : (refs[i] > 0) <=> (holder[i] = "us")
      /\ \A i \in Codes : refs[i] = Cardinality(Uses(i))
  BY <1>1 DEF Inv, TypeOK, Ledger, Counted, Inputs
<1>4. holder' \in [Inputs -> Holders] /\ refs' \in [Inputs -> Nat]
  BY <1>2, <1>3 DEF Holders
<1>5. held' \subseteq [key : Keysyms, code : Codes, mods : SUBSET Codes]
  BY <1>2 DEF Inv, TypeOK
<1>6. h \notin held /\ h.code = c /\ h.mods = Acquired(C)
  OBVIOUS
<1>7. IsFiniteSet(held)'
  BY <1>3, FS_AddElement
<1>8. ASSUME NEW i \in Codes
      PROVE  refs'[i] = Cardinality(Uses(i)')
  <2>1. IsFiniteSet(Uses(i))
    BY <1>3, FS_Subset DEF Uses
  <2>2. h \notin Uses(i)
    BY <1>6 DEF Uses
  <2>3. CASE i = c \/ i \in Acquired(C)
    <3>1. Uses(i)' = Uses(i) \cup {h}
      BY <1>6, <2>3 DEF Uses
    <3>2. Cardinality(Uses(i)') = Cardinality(Uses(i)) + 1
      BY <2>1, <2>2, <3>1, FS_AddElement
    <3>3. refs'[i] = refs[i] + 1
      <4>1. CASE i = c
        BY <1>2, <1>3, <4>1
      <4>2. CASE i # c
        BY <1>3, <2>3, <4>2
      <4> QED BY <4>1, <4>2
    <3> QED BY <1>3, <3>2, <3>3
  <2>4. CASE ~(i = c \/ i \in Acquired(C))
    <3>1. Uses(i)' = Uses(i)
      BY <1>6, <2>4 DEF Uses
    <3> QED BY <1>3, <2>4, <3>1
  <2> QED BY <2>3, <2>4
<1>9. \A i \in Inputs : (refs'[i] > 0) <=> (holder'[i] = "us")
  BY <1>2, <1>3
<1>10. Ledger'
  BY <1>8, <1>9 DEF Ledger
<1>11. \A i \in Inputs : holder[i] = "other" => holder'[i] = "other"
  BY <1>2, <1>3
<1> QED BY <1>1, <1>4, <1>5, <1>7, <1>10, <1>11, HoldingInv

(* KeyToggle down.                                                             *)
LEMMA ToggleDownInv ==
  ASSUME Inv, NEW k \in Keysyms, NEW M, ToggleDown(k, M)
  PROVE  Inv' /\ ForeignStep /\ CleanStep
<1>1. PICK P \in Pools, C \in ModifierCodes(M), c \in Plain(k) :
        /\ Load(P)
        /\ IF \E h \in held : h.key = k
           THEN UNCHANGED <<holder, refs, held, mistyped>>
           ELSE IF MayPress(c, C)
           THEN /\ holder' = [i \in Inputs |-> IF i = c \/ i \in Acquired(C)
                                               THEN "us" ELSE holder[i]]
                /\ refs' = [i \in Inputs |-> IF i = c THEN 1
                                             ELSE IF i \in Acquired(C) THEN refs[i] + 1
                                             ELSE refs[i]]
                /\ held' = held \cup {[key |-> k, code |-> c, mods |-> Acquired(C)]}
                /\ mistyped' = (mistyped \/ map[c] # {k})
           ELSE UNCHANGED <<holder, refs, held, mistyped>>
        /\ UNCHANGED <<map, mods, wrote, stray, conn, bound, pending, call, doubt>>
  BY DEF ToggleDown
<1>2. Usable /\ c \in Codes /\ map[c] = {k} /\ C \subseteq Codes
  BY ModifiersAreCodes DEF ToggleDown, Plain
<1>3. Fits(<<>>)
  BY <1>1, Fitting
<1>4. CASE UNCHANGED <<holder, refs, held, mistyped>>
  BY <1>1, <1>2, <1>4, LoadingInv DEF server, history
<1>5. CASE MayPress(c, C) /\ \A h \in held : h.key # k
  <2>1. mistyped' = FALSE
    BY <1>1, <1>2, <1>5 DEF Inv, TypesItsSymbol
  <2> QED BY <1>1, <1>2, <1>3, <1>5, <2>1, KeyGoesDown DEF call
<1> QED BY <1>1, <1>4, <1>5

(* A held key goes up, with the modifiers that no other hold needs.            *)
LEMMA ToggleUpInv ==
  ASSUME Inv, NEW k, ToggleUp(k)
  PROVE  Inv' /\ ForeignStep /\ CleanStep
<1>1. PICK h \in held : Drop({h.code} \cup h.mods) /\ held' = held \ {h}
  BY DEF ToggleUp
<1> DEFINE released == {h.code} \cup h.mods
<1>2. /\ Usable
      /\ UNCHANGED <<map, mods, wrote, stray, conn, ready, pool, bound, pending,
                     pc, rest, lost, doubt, mistyped>>
  BY DEF ToggleUp, scratch, call, history
<1>3. ~doubt /\ pc = "idle" /\ ~pending
  BY <1>2, Certain DEF Usable
<1>4. /\ Codes \subseteq Inputs
      /\ refs \in [Inputs -> Nat] /\ holder \in [Inputs -> Holders]
      /\ IsFiniteSet(held) /\ released \subseteq Codes
      /\ \A i \in Inputs : (refs[i] > 0) <=> (holder[i] = "us")
      /\ \A i \in Codes : refs[i] = Cardinality(Uses(i))
  BY <1>3 DEF Inv, TypeOK, Ledger, Counted, Inputs
<1>5. /\ refs' = [i \in Inputs |-> IF i \in released THEN refs[i] - 1 ELSE refs[i]]
      /\ holder' = [i \in Inputs |-> IF i \in released /\ refs[i] = 1
                                     THEN "none" ELSE holder[i]]
  BY <1>1 DEF Drop
<1>6. \A i \in Codes : IsFiniteSet(Uses(i))
  BY <1>4, FS_Subset DEF Uses
<1>7. \A i \in released : h \in Uses(i)
  BY DEF Uses
<1>8. \A i \in released : refs[i] > 0
  BY <1>4, <1>6, <1>7, FS_EmptySet
<1> HIDE DEF released
<1>9. holder' \in [Inputs -> Holders] /\ refs' \in [Inputs -> Nat]
  BY <1>4, <1>5, <1>8 DEF Holders
<1>10. ASSUME NEW i \in Codes
       PROVE  refs'[i] = Cardinality(Uses(i)')
  <2>1. CASE i \in released
    <3>1. Uses(i)' = Uses(i) \ {h}
      BY <1>1 DEF Uses
    <3>2. Cardinality(Uses(i)') = Cardinality(Uses(i)) - 1
      BY <1>6, <1>7, <2>1, <3>1, FS_RemoveElement
    <3> QED BY <1>4, <1>5, <2>1, <3>2
  <2>2. CASE i \notin released
    <3>1. Uses(i)' = Uses(i)
      BY <1>1, <2>2 DEF Uses, released
    <3> QED BY <1>4, <1>5, <2>2, <3>1
  <2> QED BY <2>1, <2>2
<1>11. \A i \in Inputs : (refs'[i] > 0) <=> (holder'[i] = "us")
  BY <1>4, <1>5, <1>8
<1>12. Ledger'
  BY <1>10, <1>11 DEF Ledger
<1>13. IsFiniteSet(held)' /\ held' \subseteq held
  BY <1>1, <1>4, FS_RemoveElement
<1>14. \A i \in Inputs : holder[i] = "other" => holder'[i] = "other"
  BY <1>4, <1>5, <1>8
<1>15. Fits(<<>>)
  BY <1>2, FitsNothing
<1>16. /\ mistyped' = FALSE
       /\ held' \subseteq [key : Keysyms, code : Codes, mods : SUBSET Codes]
  BY <1>2, <1>13 DEF Inv, TypeOK, TypesItsSymbol
<1> QED BY <1>2, <1>3, <1>9, <1>12, <1>13, <1>14, <1>15, <1>16, HoldingInv
(* Buttons: a free one is acquired, a held one is released.                    *)
LEMMA ButtonInv ==
  ASSUME Inv, NEW b \in Buttons,
         (Usable /\ AcquireButton(b)) \/ ((Usable \/ pc = "drag") /\ ReleaseButton(b)),
         pc' \in {"idle", "drag"}, pending => pc' = "idle"
  PROVE  Inv' /\ ForeignStep /\ CleanStep
<1>1. ~doubt /\ pc \in {"idle", "drag"}
  BY Certain DEF Usable
<1>2. /\ UNCHANGED <<map, mods, wrote, stray, conn, held, ready, pool, bound,
                     pending, rest, lost, doubt, mistyped>>
      /\ \/ /\ holder[b] = "none"
            /\ holder' = [holder EXCEPT ![b] = "us"] /\ refs' = [refs EXCEPT ![b] = 1]
         \/ /\ refs[b] > 0
            /\ holder' = [holder EXCEPT ![b] = "none"] /\ refs' = [refs EXCEPT ![b] = 0]
  BY DEF AcquireButton, ReleaseButton, Free, scratch, history
<1>3. /\ Codes \subseteq Inputs
      /\ refs \in [Inputs -> Nat] /\ holder \in [Inputs -> Holders]
      /\ b \in Inputs /\ b \notin Codes /\ IsFiniteSet(held)
      /\ \A i \in Inputs : (refs[i] > 0) <=> (holder[i] = "us")
      /\ \A i \in Codes : refs[i] = Cardinality(Uses(i))
  BY <1>1, BackendAssumption DEF Inv, TypeOK, Ledger, Counted, Inputs
<1>4. \A i \in Codes : Uses(i)' = Uses(i)
  BY <1>2 DEF Uses
<1>5. holder' \in [Inputs -> Holders] /\ refs' \in [Inputs -> Nat]
  BY <1>2, <1>3 DEF Holders
<1>6. \A i \in Inputs : (refs'[i] > 0) <=> (holder'[i] = "us")
  BY <1>2, <1>3
<1>7. \A i \in Codes : refs'[i] = refs[i]
  BY <1>2, <1>3
<1>8. Ledger'
  BY <1>3, <1>4, <1>6, <1>7 DEF Ledger
<1>9. \A i \in Inputs : holder[i] = "other" => holder'[i] = "other"
  BY <1>2, <1>3
<1>10. Fits(<<>>)
  BY <1>2, FitsNothing
<1>11. /\ mistyped' = FALSE
       /\ held' \subseteq [key : Keysyms, code : Codes, mods : SUBSET Codes]
       /\ IsFiniteSet(held)'
  BY <1>2, <1>3 DEF Inv, TypeOK, TypesItsSymbol
<1> QED BY <1>1, <1>2, <1>5, <1>8, <1>9, <1>10, <1>11, HoldingInv

(* Every call of the pointer.                                                  *)
LEMMA PointerInv ==
  ASSUME Inv, Pointer
  PROVE  Inv' /\ ForeignStep /\ CleanStep
<1>1. PICK b \in Buttons :
        \/ ButtonDown(b) \/ ButtonRefused(b) \/ ButtonUp(b) \/ Click(b)
        \/ DragDown(b) \/ DragUp(b) \/ ButtonBreaks(b)
  BY DEF Pointer
<1>2. CASE ButtonDown(b) \/ ButtonUp(b) \/ DragDown(b)
  <2>1. Usable /\ (AcquireButton(b) \/ ReleaseButton(b))
    BY <1>2 DEF ButtonDown, ButtonUp, DragDown, AcquireButton
  <2>2. pc' \in {"idle", "drag"} /\ ~pending
    BY <1>2, <2>1, Certain DEF ButtonDown, ButtonUp, DragDown, Usable
  <2> QED BY <2>1, <2>2, ButtonInv
<1>3. CASE DragUp(b)
  BY <1>3, ButtonInv DEF DragUp
<1>4. CASE ButtonRefused(b) \/ Click(b)
  BY <1>4, IdleInv DEF ButtonRefused, Click
<1>5. CASE ButtonBreaks(b)
  <2>1. {b} \in SUBSET Inputs /\ \A i \in {b} : Free(i) \/ refs[i] > 0
    BY <1>5 DEF ButtonBreaks, Inputs
  <2>2. Fits(<<>>)
    BY <1>5, FitsNothing DEF ButtonBreaks
  <2> QED BY <1>5, <2>1, <2>2, BreaksInv, Certain DEF ButtonBreaks
<1> QED BY <1>1, <1>2, <1>3, <1>4, <1>5

(* Text: its reservation binds all it needs, and its taps go on one by one.    *)
LEMMA TextInv ==
  ASSUME Inv, (\E t \in Texts : ReserveText(t) \/ ReserveBreaks(t)) \/ TextTap
  PROVE  Inv' /\ ForeignStep /\ CleanStep
<1>1. ASSUME NEW t \in Texts, ReserveText(t) PROVE Inv' /\ ForeignStep /\ CleanStep
  <2>1. PICK P \in Pools :
          /\ Load(P)
          /\ \/ \E f \in Reservations(P, t) :
                  /\ Bind(f)
                  /\ pc' = IF t = <<>> THEN "idle" ELSE "text"
                  /\ rest' = t
             \/ UNCHANGED <<map, mods, wrote, stray, bound, pc, rest>>
    BY <1>1 DEF ReserveText
  <2>2. /\ Usable /\ UNCHANGED <<holder, conn, refs, held, pending, lost, doubt, mistyped>>
        /\ ~doubt /\ ~pending /\ pc = "idle"
    BY <1>1, Certain DEF ReserveText, history, Usable
  <2>3. lost' \in {"no", "call", "cleanup"} /\ mistyped' = FALSE
    BY <2>2 DEF Inv, TypeOK, TypesItsSymbol
  <2>4. ASSUME NEW f \in Reservations(P, t), Bind(f),
               pc' = IF t = <<>> THEN "idle" ELSE "text", rest' = t
        PROVE  Inv' /\ ForeignStep /\ CleanStep
    <3>1. Fits(f)
      BY <2>1, Reserved
    <3>2. rest' \in Seq(Keysyms)
      BY <2>4, BackendAssumption
    <3> QED BY <2>2, <2>3, <2>4, <3>1, <3>2, BindingInv
  <2>5. CASE UNCHANGED <<map, mods, wrote, stray, bound, pc, rest>>
    BY <2>1, <2>2, <2>5, LoadingInv DEF server, call, history
  <2> QED BY <2>1, <2>4, <2>5
<1>2. ASSUME NEW t \in Texts, ReserveBreaks(t) PROVE Inv' /\ ForeignStep /\ CleanStep
  <2>1. PICK P \in Pools : Load(P) /\ \E f \in Reservations(P, t) : Breaks({}, f)
    BY <1>2 DEF ReserveBreaks
  <2>2. PICK f \in Reservations(P, t) : Breaks({}, f)
    BY <2>1
  <2>3. Fits(f) /\ Usable
    BY <1>2, <2>1, Reserved DEF ReserveBreaks
  <2> QED BY <2>2, <2>3, BreaksInv, Certain
<1>3. CASE TextTap
  <2>1. /\ pc = "text" /\ rest \in Seq(Keysyms) /\ rest # <<>>
        /\ Head(rest) \in Keysyms /\ Tail(rest) \in Seq(Keysyms)
    BY <1>3 DEF TextTap, Inv, TypeOK, Phased
  <2>5. Len(rest) = 1 \/ Tail(rest) # <<>>
    <3>1. Len(rest) \in Nat \ {0} /\ Len(Tail(rest)) = Len(rest) - 1 /\ Len(<<>>) = 0
      BY <2>1
    <3> QED BY <3>1
  <2>2. CASE /\ TapKeysym(Head(rest), {}, TRUE, TRUE)
             /\ rest' = Tail(rest)
             /\ pc' = IF Len(rest) = 1 THEN "idle" ELSE "text"
             /\ UNCHANGED lost
    <3>1. rest' \in Seq(Keysyms) /\ (pc' = "idle" \/ (pc' = "text" /\ rest' # <<>>))
      BY <2>1, <2>2, <2>5
    <3> QED BY <2>1, <2>2, <3>1, TapInv
  <2>3. CASE /\ TapFails(Head(rest), {}, TRUE, TRUE)
             /\ rest' = <<>>
             /\ pc' = "idle"
             /\ UNCHANGED lost
    <3>1. rest' \in Seq(Keysyms)
      BY <2>3
    <3> QED BY <2>1, <2>3, <3>1, TapFailsInv
  <2>4. CASE TapBreaks(Head(rest), {}, TRUE, TRUE)
    BY <2>1, <2>4, TapBreaksInv
  <2> QED BY <1>3, <2>2, <2>3, <2>4 DEF TextTap
<1> QED BY <1>1, <1>2, <1>3

(* Every call of the keyboard.                                                 *)
LEMMA KeyboardInv ==
  ASSUME Inv, Keyboard
  PROVE  Inv' /\ ForeignStep /\ CleanStep
<1>1. CASE KeyboardReady
  BY <1>1, LoadingInv DEF KeyboardReady
<1>2. ASSUME NEW k \in Keysyms, NEW M \in Modifiers, NEW allow \in BOOLEAN,
             NEW force \in BOOLEAN, Tap(k, M, allow, force)
      PROVE  Inv' /\ ForeignStep /\ CleanStep
  <2>1. CASE UNCHANGED call
    <3>1. Usable /\ pc' = "idle" /\ rest' \in Seq(Keysyms) /\ lost' = lost
      BY <1>2, <2>1 DEF Tap, Usable, call, Inv, TypeOK
    <3>2. CASE TapKeysym(k, M, allow, force)
      BY <3>1, <3>2, TapInv
    <3>3. CASE TapFails(k, M, allow, force)
      BY <3>1, <3>3, TapFailsInv
    <3> QED BY <1>2, <3>1, <3>2, <3>3, TapBreaksInv DEF Tap
  <2> QED BY <1>2, <2>1, TapBreaksInv DEF Tap
<1>3. ASSUME NEW k \in Keysyms, NEW M \in Modifiers,
             ToggleDown(k, M) \/ ToggleDownRefused(k, M) \/ ToggleDownBreaks(k, M)
      PROVE  Inv' /\ ForeignStep /\ CleanStep
  <2>1. CASE ToggleDownRefused(k, M)
    BY <2>1, LoadingInv DEF ToggleDownRefused, Unsupported
  <2> QED BY <1>3, <2>1, ToggleDownInv, TapBreaksInv DEF ToggleDownBreaks
<1>4. ASSUME NEW k \in Keysyms,
             ToggleUp(k) \/ ToggleUpRefused(k) \/ ToggleUpBreaks(k)
      PROVE  Inv' /\ ForeignStep /\ CleanStep
  <2>1. CASE ToggleUpRefused(k)
    BY <2>1, IdleInv DEF ToggleUpRefused
  <2>2. CASE ToggleUpBreaks(k)
    <3>1. PICK h \in held : Breaks({c \in {h.code} \cup h.mods : refs[c] = 1}, <<>>)
      BY <2>2 DEF ToggleUpBreaks
    <3>2. {c \in {h.code} \cup h.mods : refs[c] = 1} \in SUBSET Inputs
      BY DEF Inv, TypeOK, Inputs
    <3>3. Fits(<<>>) /\ Usable
      BY <2>2, FitsNothing DEF ToggleUpBreaks
    <3> QED BY <3>1, <3>2, <3>3, BreaksInv, Certain
  <2> QED BY <1>4, <2>1, <2>2, ToggleUpInv
<1> QED BY <1>1, <1>2, <1>3, <1>4, TextInv DEF Keyboard

-----------------------------------------------------------------------------
(* closeLocked, first half: what the ledger has goes up.                       *)
LEMMA ReleaseInv ==
  ASSUME Inv, ReleaseOwned
  PROVE  Inv' /\ ForeignStep /\ CleanStep
<1>1. PICK released \in SUBSET Believed :
        /\ Released(released)
        /\ (released = Believed /\ UNCHANGED lost) \/ lost' = "cleanup"
  BY DEF ReleaseOwned
<1>2. /\ pc = "release" /\ pc' = "restore"
      /\ UNCHANGED <<map, mods, wrote, stray, conn, ready, pool, bound, pending,
                     rest, doubt, mistyped>>
      /\ holder' = [i \in Inputs |-> IF i \in released THEN "none" ELSE holder[i]]
      /\ refs' = [i \in Inputs |-> IF i \in released THEN 0 ELSE refs[i]]
      /\ held' = {h \in held : refs'[h.code] > 0}
  BY <1>1 DEF ReleaseOwned, Released, scratch, history
<1> USE DEF Inv
<1>3. holder' \in [Inputs -> Holders] /\ refs' \in [Inputs -> Nat]
  BY <1>2 DEF TypeOK, Holders
<1>4. lost' \in {"no", "call", "cleanup"}
  BY <1>1 DEF TypeOK
<1>5. TypeOK'
  BY <1>2, <1>3, <1>4 DEF TypeOK
<1>6. Ledger'
  BY <1>2 DEF Ledger, TypeOK
<1>7. Counted'
  <2>1. IsFiniteSet(held)'
    BY <1>2, FS_Subset DEF Counted
  <2>2. ASSUME lost' # "cleanup"
        PROVE  refs' = NoRefs /\ held' = {}
    <3>1. \A i \in Inputs : refs'[i] = 0
      BY <1>1, <1>2, <2>2 DEF Believed, TypeOK
    <3>2. refs' = NoRefs
      BY <1>2, <3>1 DEF NoRefs
    <3>3. \A h \in held : h.code \in Inputs
      BY DEF TypeOK, Inputs
    <3> QED BY <1>2, <3>1, <3>2, <3>3
  <2> QED BY <2>1, <2>2 DEF Counted
<1>8. TypesItsSymbol' /\ Phased' /\ Slotted' /\ Accounted'
  BY <1>2 DEF TypesItsSymbol, Phased, Slotted, Accounted
<1>9. ForeignStep /\ CleanStep
  BY <1>2 DEF ForeignStep, CleanStep, Connected, Ledger, Believed
<1> QED BY <1>5, <1>6, <1>7, <1>8, <1>9

(* Second half, with the end of the connection: nothing of it is left with the *)
(* backend.                                                                    *)
LEMMA EndInv ==
  ASSUME Inv, pc = "restore", NEW restored \in SUBSET (Kept \ Blocked),
         EndConnection(restored),
         conn' \in {"closed", "failed"},
         conn' = "closed" => restored = Kept /\ lost # "cleanup",
         pc' = "idle", lost' = "no", rest' = <<>>, UNCHANGED <<mods, mistyped>>
  PROVE  Inv' /\ ForeignStep /\ CleanStep
<1> USE DEF Inv
<1>1. /\ map' = [c \in Codes |-> IF c \in restored THEN {} ELSE map[c]]
      /\ holder' = [i \in Inputs |-> IF holder[i] = "us" THEN "orphan" ELSE holder[i]]
      /\ stray' = stray \cup (wrote \ restored)
      /\ wrote' = {} /\ refs' = NoRefs /\ held' = {}
      /\ ready' = FALSE /\ pool' = {} /\ bound' = NoBinding
      /\ pending' = FALSE /\ doubt' = FALSE
  BY DEF EndConnection
<1>2. rest' \in Seq(Keysyms)
  OBVIOUS
<1>3. restored \subseteq Codes /\ \A c \in restored : map[c] = bound[c]
  BY DEF Kept, Bound, TypeOK
<1>4. holder' \in [Inputs -> Holders] /\ refs' \in [Inputs -> Nat]
      /\ map' \in [Codes -> SUBSET Keysyms] /\ bound' \in [Codes -> SUBSET Keysyms]
  BY <1>1, <1>3 DEF TypeOK, Holders, NoRefs, NoBinding
<1>5. TypeOK'
  BY <1>1, <1>2, <1>4 DEF TypeOK
<1>6. Ledger'
  <2>1. \A c \in Codes : Uses(c)' = {}
    BY <1>1 DEF Uses
  <2>2. Cardinality({}) = 0
    BY FS_EmptySet
  <2>3. \A i \in Inputs : refs'[i] = 0 /\ holder'[i] # "us"
    BY <1>1 DEF NoRefs
  <2>4. Codes \subseteq Inputs
    BY DEF Inputs
  <2>5. \A c \in Codes : refs'[c] = Cardinality(Uses(c)')
    BY <2>1, <2>2, <2>3, <2>4
  <2> QED BY <2>3, <2>5 DEF Ledger
<1>7. TypesItsSymbol' /\ Phased' /\ Counted'
  BY <1>1, FS_EmptySet DEF TypesItsSymbol, Phased, Counted
<1>8. Slotted' /\ Accounted'
  BY <1>1 DEF Slotted, Accounted, NoBinding
<1>9. ForeignStep
  BY <1>1, <1>3 DEF ForeignStep
<1>10. CleanStep
  <2> SUFFICES ASSUME conn' = "closed", ~doubt
               PROVE  (\A i \in Inputs : holder[i] # "us") /\ stray' = stray
    BY DEF CleanStep
  <2>1. \A i \in Inputs : holder[i] # "us"
    BY DEF Counted, Ledger, NoRefs
  <2>2. wrote \subseteq Kept
    BY DEF Accounted, Slotted, Kept, Bound, TypeOK
  <2> QED BY <1>1, <2>1, <2>2
<1> QED BY <1>5, <1>6, <1>7, <1>8, <1>9, <1>10

(* ... or with the connection kept, for the keycodes that are in use.          *)
LEMMA PostponeInv ==
  ASSUME Inv, pc = "restore", lost # "cleanup", Postpone,
         pc' = "idle", lost' = "no", rest' = <<>>, UNCHANGED <<mods, mistyped>>
  PROVE  Inv' /\ ForeignStep /\ CleanStep
<1> USE DEF Inv
<1>1. /\ map' = [c \in Codes |-> IF c \in Kept \ Blocked THEN {} ELSE map[c]]
      /\ bound' = [c \in Codes |-> IF c \in Blocked THEN bound[c] ELSE {}]
      /\ wrote' = wrote \ (Kept \ Blocked)
      /\ pending' = TRUE
      /\ UNCHANGED <<holder, stray, conn, refs, held, ready, pool, doubt>>
  BY DEF Postpone
<1>2. rest' \in Seq(Keysyms)
  OBVIOUS
<1>3. map' \in [Codes -> SUBSET Keysyms] /\ bound' \in [Codes -> SUBSET Keysyms]
  BY <1>1 DEF TypeOK
<1>4. TypeOK'
  BY <1>1, <1>2, <1>3 DEF TypeOK
<1>5. Ledger'
  <2>1. refs = NoRefs /\ held = {}
    BY DEF Counted
  <2>2. \A c \in Codes : Uses(c)' = {}
    BY <1>1, <2>1 DEF Uses
  <2>3. Cardinality({}) = 0
    BY FS_EmptySet
  <2>4. \A c \in Codes : refs'[c] = 0
    BY <1>1, <2>1 DEF NoRefs, Inputs
  <2>5. \A c \in Codes : refs'[c] = Cardinality(Uses(c)')
    BY <2>2, <2>3, <2>4
  <2> QED BY <1>1, <2>5 DEF Ledger
<1>6. TypesItsSymbol' /\ Phased' /\ Counted' /\ Slotted'
  BY <1>1 DEF TypesItsSymbol, Phased, Counted, Slotted
<1>7. \A c \in Kept : c \in Codes /\ map[c] = bound[c]
  BY DEF Kept, Bound, TypeOK
<1>8. Accounted'
  <2>1. ASSUME ~doubt, NEW c \in wrote, c \notin Kept \ Blocked
        PROVE  c \in Codes /\ c \in Blocked /\ bound[c] # {} /\ map[c] = bound[c]
    BY <2>1 DEF Accounted, Slotted, Kept, Bound, TypeOK
  <2> QED BY <1>1, <2>1 DEF Accounted
<1>9. ForeignStep /\ CleanStep
  BY <1>1, <1>7 DEF ForeignStep, CleanStep, Connected
<1> QED BY <1>4, <1>5, <1>6, <1>8, <1>9

(* restoreScratchMappingsLocked and what follows it.                           *)
LEMMA RestoreInv ==
  ASSUME Inv, Restore
  PROVE  Inv' /\ ForeignStep /\ CleanStep
<1>1. /\ pc = "restore" /\ pc' = "idle" /\ lost' = "no" /\ rest' = <<>>
      /\ UNCHANGED <<mods, mistyped>>
  BY DEF Restore
<1>2. CASE lost # "cleanup" /\ Postpone
  BY <1>1, <1>2, PostponeInv
<1>3. CASE /\ Blocked = {} \/ lost = "cleanup"
           /\ EndConnection(Kept \ Blocked)
           /\ conn' = IF lost = "cleanup" THEN "failed" ELSE "closed"
  BY <1>1, <1>3, EndInv
<1>4. CASE \E restored \in SUBSET (Kept \ Blocked) :
             EndConnection(restored) /\ conn' = "failed"
  BY <1>1, <1>4, EndInv
<1> QED BY <1>2, <1>3, <1>4 DEF Restore

-----------------------------------------------------------------------------
(* Every step of the backend keeps the invariant, touches nothing of another   *)
(* client and closes cleanly.                                                  *)
LEMMA BackendInv ==
  ASSUME Inv, Backend
  PROVE  Inv' /\ ForeignStep /\ CleanStep
<1>1. CASE Dial \/ Close
  <2>1. /\ UNCHANGED <<holder, map, mods, wrote, stray, refs, held, ready, pool, bound,
                       pending, rest, lost, doubt, mistyped>>
        /\ pc = "idle" /\ pc' \in {"idle", "release"}
        /\ (conn' = "open" /\ pc' = "idle") \/ (conn' = conn /\ pc' = "release")
    <3>1. CASE Dial
      BY <3>1 DEF Dial, server, scratch, call, history
    <3>2. CASE Close
      BY <3>2 DEF Close, server, scratch, history
    <3> QED BY <1>1, <3>1, <3>2
  <2>2. \A c \in Codes : Uses(c)' = Uses(c)
    BY <2>1 DEF Uses
  <2>3. TypeOK' /\ Ledger'
    BY <2>1, <2>2 DEF Inv, TypeOK, Ledger
  <2>4. TypesItsSymbol' /\ Phased' /\ Counted' /\ Slotted' /\ Accounted'
    BY <2>1 DEF Inv, TypesItsSymbol, Phased, Counted, Slotted, Accounted
  <2>5. ForeignStep /\ CleanStep
    BY <2>1 DEF ForeignStep, CleanStep, Connected
  <2> QED BY <2>3, <2>4, <2>5 DEF Inv
<1>2. CASE QueryFails
  <2>1. Fits(<<>>)
    BY <1>2, FitsNothing DEF QueryFails
  <2> QED BY <1>2, <2>1, BreaksInv, Certain DEF QueryFails
<1> QED BY <1>1, <1>2, KeyboardInv, PointerInv, ReleaseInv, RestoreInv DEF Backend

(* The invariant holds whatever is called and whatever other clients do.       *)
LEMMA InvHolds == Spec => []Inv
<1>1. Inv /\ [Next]_vars => Inv'
  <2> SUFFICES ASSUME Inv, [Next]_vars PROVE Inv'
    OBVIOUS
  <2>1. CASE UNCHANGED vars
    BY <2>1 DEF vars, Inv, TypeOK, Ledger, Uses, TypesItsSymbol, Phased, Counted, Slotted,
                Accounted
  <2> QED BY <2>1, OthersInv, BackendInv DEF Next
<1> QED
  BY <1>1, InitInv, PTL DEF Spec

(* The state of the backend is well formed.                                    *)
THEOREM TypeCorrect == Spec => []TypeOK
<1>1. Inv => TypeOK
  BY DEF Inv
<1> QED BY <1>1, InvHolds, PTL

(* Exactly the inputs the backend counts as held are down because of it, in    *)
(* the middle of a cleanup too, unless it lost an answer; and keyRefs counts   *)
(* the holds that use a keycode (keyboard_linux.go), so that a modifier goes   *)
(* up with the last of them.                                                   *)
THEOREM LedgerIsRight == Spec => []Ledger
<1>1. Inv => Ledger
  BY DEF Inv
<1> QED BY <1>1, InvHolds, PTL

(* Whatever other clients do to the keymap, a key that goes down carries the   *)
(* symbol it was meant to type (loadKeyboardMapLocked checks every slot).      *)
THEOREM EveryKeyTypesItsSymbol == Spec => []TypesItsSymbol
<1>1. Inv => TypesItsSymbol
  BY DEF Inv
<1> QED BY <1>1, InvHolds, PTL

(* The backend never releases an input somebody else holds, unless it lost the *)
(* answer to its own release of it, and it rewrites only keycodes that are     *)
(* empty or still carry what it wrote.                                         *)
THEOREM NothingForeignIsTouched == Spec => ForeignKept
<1> DEFINE Step ==
             \/ Others
             \/ /\ \A i \in Inputs : holder[i] = "other" /\ holder'[i] # "other"
                                      => pc = "release" /\ doubt
                /\ \A c \in Codes : map'[c] # map[c]
                                      => map[c] = {} \/ map[c] = bound[c]
<1>1. Inv /\ [Next]_vars => [Step]_vars
  BY BackendInv DEF Next, ForeignStep
<1> QED BY <1>1, InvHolds, PTL DEF Spec, ForeignKept

(* A connection closed without an error, and without a lost answer before,     *)
(* leaves no input down and no keycode rewritten (closeLocked).                *)
THEOREM CloseIsClean == Spec => CleanClose
<1>1. Inv /\ [Next]_vars => [CleanStep]_vars
  BY OthersInv, BackendInv DEF Next
<1>2. Spec => [][CleanStep]_vars
  BY <1>1, InvHolds, PTL DEF Spec
<1> QED BY <1>2 DEF CleanClose, CleanStep
=============================================================================
