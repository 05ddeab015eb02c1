-------------------------- MODULE RouterRcu_proof --------------------------
(***************************************************************************)
(* For any number of connections and of reloads: the refcount of a router  *)
(* is exact at every step of both threads, nobody is left with a router    *)
(* that was freed, and at the end only open connections hold any.           *)
(***************************************************************************)
EXTENDS RouterRcu, FiniteSetTheorems, TLAPS

----------------------------------------------------------------------------
(* The inductive invariant.                                                *)

\* A router lives as long as it is counted, and its configuration with it.
LifeByRefs ==
  \A r \in Routers : /\ life[r] = "live" <=> refs[r] > 0
                     /\ life[r] # "freed" => given[r] = 0

\* What the loop has in its hands, by the point it has come to.
LoopHands ==
  /\ slot # Null <=> loop.pc # "end"
  /\ loop.pc \in {"publish", "retire", "ref", "swap"} <=> loop.next # Null
  /\ loop.pc \in {"retire", "ref", "swap"} => loop.next = slot
  /\ loop.pc \in {"retire", "release"} <=> loop.old # Null

\* The probes are there from health_start to health_stop, and stop in between.
ProbesAlive ==
  /\ hc.current # Null <=> loop.pc \notin {"start", "destroy", "end"}
  /\ probe.pc \in {"sleep", "lock", "ref", "probing"} => hc.current # Null
  /\ running <=> loop.pc \notin {"start", "join", "destroy", "end"}
  /\ probe.pc = "done" => ~running /\ loop.pc \in {"join", "destroy", "end"}
  /\ loop.pc \notin {"start", "destroy", "end"} => probe.pc # "none"

\* The lock covers what lies between reading current and counting it.
ProbeHands ==
  /\ hc.lock = "probe" <=> probe.pc = "ref"
  /\ probe.r # Null <=> probe.pc \in {"ref", "probing"}
  /\ probe.pc = "ref" => probe.r = hc.current

Hands == LoopHands /\ ProbesAlive /\ ProbeHands

IInv == TypeOK /\ RefsExact /\ LifeByRefs /\ Hands

----------------------------------------------------------------------------
(* Counting references.                                                    *)

\* How many connections hold a router.
Holders(r) == Cardinality({x \in Conns : conn[x] = r})

\* They are finitely many, and none exactly if there is none.
LEMMA HoldersNat ==
  ASSUME NEW r \in Routers
  PROVE  Holders(r) \in Nat /\ (Holders(r) = 0 <=> \A x \in Conns : conn[x] # r)
<1>1. IsFiniteSet({x \in Conns : conn[x] = r})
  BY RouterRcuAssumption, FS_Subset
<1>2. Holders(r) \in Nat /\ (Holders(r) = 0 <=> {x \in Conns : conn[x] = r} = {})
  BY <1>1, FS_CardinalityType, FS_EmptySet DEF Holders
<1> QED
  BY <1>2

\* A connection that takes a router adds one to its holders.
LEMMA HoldersMore ==
  ASSUME TypeOK, NEW x \in Conns, conn[x] = Null, NEW s \in Routers,
         conn' = [conn EXCEPT ![x] = s], NEW r \in Routers
  PROVE  Holders(r)' = Holders(r) + One(r = s)
<1> DEFINE H == {y \in Conns : conn[y] = r}
<1>1. IsFiniteSet(H) /\ x \notin H
  BY RouterRcuAssumption, FS_Subset
<1>2. {y \in Conns : conn'[y] = r} = IF r = s THEN H \cup {x} ELSE H
  BY RouterRcuAssumption DEF TypeOK
<1>3. Cardinality(H \cup {x}) = Cardinality(H) + 1 /\ Cardinality(H) \in Nat
  BY <1>1, FS_AddElement, FS_CardinalityType
<1> QED
  BY <1>2, <1>3 DEF Holders, One

\* One that lets go of it takes one off.
LEMMA HoldersLess ==
  ASSUME TypeOK, NEW x \in Conns, NEW s \in Routers, conn[x] = s,
         conn' = [conn EXCEPT ![x] = Null], NEW r \in Routers
  PROVE  Holders(r)' = Holders(r) - One(r = s)
<1> DEFINE H == {y \in Conns : conn[y] = r}
<1>1. IsFiniteSet(H)
  BY RouterRcuAssumption, FS_Subset
<1>2. {y \in Conns : conn'[y] = r} = IF r = s THEN H \ {x} ELSE H
  BY RouterRcuAssumption DEF TypeOK
<1>3. Cardinality(H) \in Nat /\ (x \in H => Cardinality(H \ {x}) = Cardinality(H) - 1)
  BY <1>1, FS_RemoveElement, FS_CardinalityType
<1>4. Holders(r) = Cardinality(H)
        /\ Holders(r)' = Cardinality(IF r = s THEN H \ {x} ELSE H)
  BY <1>2 DEF Holders
<1>5. CASE r = s
  BY <1>3, <1>4, <1>5 DEF One
<1>6. CASE r # s
  BY <1>3, <1>4, <1>6 DEF One
<1> QED
  BY <1>5, <1>6

\* Whoever has a router in its hands is counted, or has it from one who is.
LEMMA UsedIsCounted ==
  ASSUME IInv, NEW r \in Routers, Uses(r)
  PROVE  refs[r] > 0
<1>1. Holders(r) \in Nat /\ (Holders(r) = 0 <=> \A x \in Conns : conn[x] # r)
  BY HoldersNat
<1>2. refs[r] = One(slot = r) + One(hc.current = r)
            + One(loop.pc = "publish" /\ loop.next = r)
            + One(loop.pc = "swap" /\ loop.next = r)
            + One(loop.old = r)
            + One(probe.pc = "probing" /\ probe.r = r)
            + Holders(r)
  BY DEF IInv, RefsExact, Holders
<1>3. \/ slot = r \/ hc.current = r \/ loop.old = r \/ \E x \in Conns : conn[x] = r
      \/ loop.pc = "publish" /\ loop.next = r
      \/ probe.pc = "probing" /\ probe.r = r
  BY RouterRcuAssumption DEF IInv, Hands, LoopHands, ProbeHands, Uses
<1>4. (\E x \in Conns : conn[x] = r) => Holders(r) > 0
  BY <1>1
<1> HIDE DEF Holders
<1> QED
  BY <1>1, <1>2, <1>3, <1>4 DEF One

----------------------------------------------------------------------------
(* router_ref and router_unref.                                            *)

\* A reference more of a router that is alive.
LEMMA RefEffect ==
  ASSUME TypeOK, LifeByRefs, NEW r \in Routers, refs[r] > 0, Ref(r)
  PROVE  /\ refs' \in [Routers -> Nat]
         /\ \A q \in Routers : refs'[q] = refs[q] + One(q = r)
         /\ UNCHANGED <<life, given>>
         /\ LifeByRefs'
<1>1. UNCHANGED <<life, given>> /\ \A q \in Routers : refs'[q] = refs[q] + One(q = r)
  BY DEF Ref, TypeOK, One
<1>2. refs' \in [Routers -> Nat]
  BY DEF Ref, TypeOK
<1>3. LifeByRefs'
  BY <1>1 DEF LifeByRefs, TypeOK, One
<1> QED
  BY <1>1, <1>2, <1>3

\* A reference less; with the last one the router goes, and its configuration.
LEMMA UnrefEffect ==
  ASSUME TypeOK, LifeByRefs, NEW r \in Routers, refs[r] > 0, Unref(r)
  PROVE  /\ refs' \in [Routers -> Nat]
         /\ \A q \in Routers : refs'[q] = refs[q] - One(q = r)
         /\ life' \in [Routers -> {"none", "live", "freed"}]
         /\ given' \in [Routers -> 0..2]
         /\ LifeByRefs'
<1>1. \A q \in Routers : refs'[q] = refs[q] - One(q = r)
  BY DEF Unref, TypeOK, One
<1>2. refs[r] - 1 \in Nat /\ given[r] = 0 /\ life[r] = "live"
  BY DEF TypeOK, LifeByRefs
<1>3. refs' \in [Routers -> Nat]
  BY <1>2 DEF Unref, TypeOK
<1>4. life' \in [Routers -> {"none", "live", "freed"}] /\ given' \in [Routers -> 0..2]
  BY <1>2 DEF Unref, TypeOK
<1>5. \A q \in Routers : q # r => refs'[q] = refs[q] /\ life'[q] = life[q] /\ given'[q] = given[q]
  BY DEF Unref, TypeOK
<1>6. /\ refs'[r] = refs[r] - 1
      /\ life'[r] = IF refs[r] = 1 THEN "freed" ELSE "live"
      /\ refs[r] # 1 => given'[r] = 0
  BY <1>2 DEF Unref, TypeOK
<1>7. LifeByRefs'
  BY <1>2, <1>5, <1>6 DEF LifeByRefs, TypeOK
<1> QED
  BY <1>1, <1>3, <1>4, <1>7

----------------------------------------------------------------------------
(* The steps.                                                              *)

\* RefsExact of one router, with the count of its connections by its name.
Exact(r) ==
  refs[r] = One(slot = r) + One(hc.current = r)
          + One(loop.pc = "publish" /\ loop.next = r)
          + One(loop.pc = "swap" /\ loop.next = r)
          + One(loop.old = r)
          + One(probe.pc = "probing" /\ probe.r = r)
          + Holders(r)

LEMMA ExactIsExact ==
  /\ RefsExact <=> \A r \in Routers : Exact(r)
  /\ RefsExact' <=> \A r \in Routers : Exact(r)'
BY DEF RefsExact, Exact, Holders

\* One router, with the reference of the slot.
LEMMA RcuInit == Init => IInv
<1> SUFFICES ASSUME Init PROVE IInv
  OBVIOUS
<1>1. TypeOK
  <2>1. /\ refs \in [Routers -> Nat] /\ given \in [Routers -> 0..2]
        /\ life \in [Routers -> {"none", "live", "freed"}]
    BY DEF Init
  <2>2. /\ slot \in Routers \cup {Null} /\ conn \in [Conns -> Routers \cup {Null}]
        /\ running \in BOOLEAN
    BY DEF Init
  <2> QED
    BY <2>1, <2>2 DEF Init, TypeOK
<1>2. LifeByRefs /\ Hands
  BY RouterRcuAssumption DEF Init, LifeByRefs, Hands, LoopHands, ProbesAlive, ProbeHands
<1>3. ASSUME NEW r \in Routers PROVE Exact(r)
  <2>1. Holders(r) = 0
    BY HoldersNat, RouterRcuAssumption DEF Init
  <2> QED
    BY <2>1, RouterRcuAssumption DEF Init, Exact, One
<1> QED
  BY <1>1, <1>2, <1>3, ExactIsExact DEF IInv

LEMMA RcuStep == IInv /\ [Next]_vars => IInv'
<1> SUFFICES ASSUME IInv, [Next]_vars PROVE IInv'
  OBVIOUS
<1> USE RouterRcuAssumption DEF IInv
<1>0. \A r \in Routers : Exact(r) /\ Holders(r) \in Nat
  BY ExactIsExact, HoldersNat
<1>u. \A r \in Routers : Uses(r) => refs[r] > 0
  BY UsedIsCounted
<1>h. UNCHANGED conn => \A r \in Routers : Holders(r)' = Holders(r)
  BY DEF Holders
<1>1. CASE UNCHANGED vars
  BY <1>1 DEF vars, TypeOK, RefsExact, LifeByRefs, Hands, LoopHands, ProbesAlive, ProbeHands
<1>2. CASE HealthStart
  <2>1. slot \in Routers /\ refs[slot] > 0 /\ Ref(slot)
    BY <1>2, <1>u DEF HealthStart, Uses, Hands, LoopHands, TypeOK
  <2>2. TypeOK' /\ LifeByRefs'
    BY <1>2, <2>1, RefEffect DEF HealthStart, Loop, TypeOK
  <2>3. Hands'
    BY <1>2 DEF HealthStart, Loop, Hands, LoopHands, ProbesAlive, ProbeHands, TypeOK
  <2>4. ASSUME NEW q \in Routers PROVE Exact(q)'
    <3>1. refs'[q] = refs[q] + One(q = slot) /\ Holders(q)' = Holders(q)
      BY <1>2, <1>h, <2>1, RefEffect DEF HealthStart
    <3> QED
      BY <1>0, <1>2, <3>1 DEF HealthStart, Loop, Exact, One, Hands, LoopHands, ProbesAlive, TypeOK
  <2> QED
    BY <2>2, <2>3, <2>4, ExactIsExact
\* The steps that move a router from one hand to another, or none.
<1>m. ASSUME UNCHANGED <<life, refs, given, conn>>, TypeOK', Hands',
             \A q \in Routers : Exact(q) => Exact(q)'
      PROVE  IInv'
  BY <1>0, <1>m, ExactIsExact DEF LifeByRefs
<1>3a. CASE HealthFails
  <2>1. UNCHANGED <<life, refs, given, conn>>
    BY <1>3a DEF HealthFails
  <2>2. TypeOK'
    BY <1>3a DEF HealthFails, Loop, TypeOK
  <2>3. Hands'
    BY <1>3a DEF HealthFails, Loop, TypeOK, Hands, LoopHands, ProbesAlive, ProbeHands
  <2>4. ASSUME NEW q \in Routers, Exact(q) PROVE Exact(q)'
    BY <1>3a, <1>h, <2>1, <2>4 DEF HealthFails, Loop, Exact, One, TypeOK, Hands, LoopHands,
       ProbesAlive, ProbeHands
  <2> QED
    BY <1>m, <2>1, <2>2, <2>3, <2>4
<1>3b. CASE Publish
  <2>1. UNCHANGED <<life, refs, given, conn>>
    BY <1>3b DEF Publish
  <2>2. TypeOK'
    BY <1>3b DEF Publish, TypeOK
  <2>3. Hands'
    BY <1>3b DEF Publish, TypeOK, Hands, LoopHands, ProbesAlive, ProbeHands
  <2>4. ASSUME NEW q \in Routers, Exact(q) PROVE Exact(q)'
    BY <1>3b, <1>h, <2>1, <2>4 DEF Publish, Exact, One, TypeOK, Hands, LoopHands,
       ProbesAlive, ProbeHands
  <2> QED
    BY <1>m, <2>1, <2>2, <2>3, <2>4
<1>3c. CASE Swap
  <2>1. UNCHANGED <<life, refs, given, conn>>
    BY <1>3c DEF Swap
  <2>2. TypeOK'
    BY <1>3c DEF Swap, TypeOK
  <2>3. Hands'
    BY <1>3c DEF Swap, TypeOK, Hands, LoopHands, ProbesAlive, ProbeHands
  <2>4. ASSUME NEW q \in Routers, Exact(q) PROVE Exact(q)'
    BY <1>3c, <1>h, <2>1, <2>4 DEF Swap, Exact, One, TypeOK, Hands, LoopHands,
       ProbesAlive, ProbeHands
  <2> QED
    BY <1>m, <2>1, <2>2, <2>3, <2>4
<1>3d. CASE Stop
  <2>1. UNCHANGED <<life, refs, given, conn>>
    BY <1>3d DEF Stop
  <2>2. TypeOK'
    BY <1>3d DEF Stop, Loop, TypeOK
  <2>3. Hands'
    BY <1>3d DEF Stop, Loop, TypeOK, Hands, LoopHands, ProbesAlive, ProbeHands
  <2>4. ASSUME NEW q \in Routers, Exact(q) PROVE Exact(q)'
    BY <1>3d, <1>h, <2>1, <2>4 DEF Stop, Loop, Exact, One, TypeOK, Hands, LoopHands,
       ProbesAlive, ProbeHands
  <2> QED
    BY <1>m, <2>1, <2>2, <2>3, <2>4
<1>3e. CASE Time
  <2>1. UNCHANGED <<life, refs, given, conn>>
    BY <1>3e DEF Time
  <2>2. TypeOK'
    BY <1>3e DEF Time, TypeOK
  <2>3. Hands'
    BY <1>3e DEF Time, TypeOK, Hands, LoopHands, ProbesAlive, ProbeHands
  <2>4. ASSUME NEW q \in Routers, Exact(q) PROVE Exact(q)'
    BY <1>3e, <1>h, <2>1, <2>4 DEF Time, Exact, One, TypeOK, Hands, LoopHands,
       ProbesAlive, ProbeHands
  <2> QED
    BY <1>m, <2>1, <2>2, <2>3, <2>4
<1>3f. CASE Wake
  <2>1. UNCHANGED <<life, refs, given, conn>>
    BY <1>3f DEF Wake
  <2>2. TypeOK'
    BY <1>3f DEF Wake, TypeOK
  <2>3. Hands'
    <3>1. /\ UNCHANGED <<slot, loop, hc, running>> /\ probe.pc = "sleep" /\ probe'.r = probe.r
          /\ probe'.pc = IF running THEN "lock" ELSE "done"
      BY <1>3f DEF Wake, TypeOK
    <3>2. LoopHands' /\ ProbeHands'
      BY <3>1 DEF Hands, LoopHands, ProbeHands
    <3>3. ProbesAlive'
      BY <3>1 DEF Hands, ProbesAlive
    <3> QED
      BY <3>2, <3>3 DEF Hands
  <2>4. ASSUME NEW q \in Routers, Exact(q) PROVE Exact(q)'
    BY <1>3f, <1>h, <2>1, <2>4 DEF Wake, Exact, One, TypeOK, Hands, LoopHands,
       ProbesAlive, ProbeHands
  <2> QED
    BY <1>m, <2>1, <2>2, <2>3, <2>4
<1>3g. CASE Read
  <2>1. UNCHANGED <<life, refs, given, conn>>
    BY <1>3g DEF Read
  <2>2. TypeOK'
    BY <1>3g DEF Read, TypeOK
  <2>3. Hands'
    BY <1>3g DEF Read, TypeOK, Hands, LoopHands, ProbesAlive, ProbeHands
  <2>4. ASSUME NEW q \in Routers, Exact(q) PROVE Exact(q)'
    BY <1>3g, <1>h, <2>1, <2>4 DEF Read, Exact, One, TypeOK, Hands, LoopHands,
       ProbesAlive, ProbeHands
  <2> QED
    BY <1>m, <2>1, <2>2, <2>3, <2>4
<1>4. ASSUME NEW x \in Conns, Acquire(x) PROVE IInv'
  <2>1. slot \in Routers /\ refs[slot] > 0 /\ Ref(slot)
    BY <1>4, <1>u DEF Acquire, Uses, Hands, LoopHands, TypeOK
  <2>2. TypeOK' /\ LifeByRefs'
    BY <1>4, <2>1, RefEffect DEF Acquire, TypeOK
  <2>3. Hands'
    BY <1>4 DEF Acquire, Hands, LoopHands, ProbesAlive, ProbeHands
  <2>4. ASSUME NEW q \in Routers PROVE Exact(q)'
    <3>1. refs'[q] = refs[q] + One(q = slot)
      BY <2>1, RefEffect
    <3>2. Holders(q)' = Holders(q) + One(q = slot)
      BY <1>4, <2>1, HoldersMore DEF Acquire
    <3> QED
      BY <1>0, <1>4, <3>1, <3>2 DEF Acquire, Exact, One
  <2> QED
    BY <2>2, <2>3, <2>4, ExactIsExact
<1>5. ASSUME NEW x \in Conns, Drop(x) PROVE IInv'
  <2>1. conn[x] \in Routers /\ refs[conn[x]] > 0 /\ Unref(conn[x])
    BY <1>5, <1>u DEF Drop, Uses, TypeOK
  <2>2. TypeOK' /\ LifeByRefs'
    BY <1>5, <2>1, UnrefEffect DEF Drop, TypeOK
  <2>3. Hands'
    BY <1>5 DEF Drop, Hands, LoopHands, ProbesAlive, ProbeHands
  <2>4. ASSUME NEW q \in Routers PROVE Exact(q)'
    <3>1. refs'[q] = refs[q] - One(q = conn[x])
      BY <2>1, UnrefEffect
    <3>2. Holders(q)' = Holders(q) - One(q = conn[x])
      BY <1>5, <2>1, HoldersLess DEF Drop
    <3> QED
      BY <1>0, <1>5, <3>1, <3>2 DEF Drop, Exact, One
  <2> QED
    BY <2>2, <2>3, <2>4, ExactIsExact
<1>6. CASE Build
  <2>1. PICK r \in Fresh : /\ life' = [life EXCEPT ![r] = "live"]
                           /\ refs' = [refs EXCEPT ![r] = 1]
                           /\ loop' = [loop EXCEPT !.pc = "publish", !.next = r]
    BY <1>6 DEF Build
  <2>2. r \in Routers /\ life[r] = "none" /\ ~Uses(r) /\ refs[r] = 0
    BY <1>u DEF Fresh, LifeByRefs, TypeOK
  <2>3. TypeOK' /\ LifeByRefs'
    <3>1. life' \in [Routers -> {"none", "live", "freed"}] /\ refs' \in [Routers -> Nat]
      BY <2>1 DEF TypeOK
    <3>2. loop' \in [pc : {"publish"}, next : Routers, old : Routers \cup {Null}]
      BY <2>1, <2>2 DEF TypeOK
    <3>3. TypeOK'
      BY <1>6, <3>1, <3>2 DEF Build, TypeOK
    <3>4. LifeByRefs'
      BY <1>6, <2>1, <2>2 DEF Build, LifeByRefs, TypeOK
    <3> QED
      BY <3>3, <3>4
  <2>4. Hands'
    BY <1>6, <2>1, <2>2 DEF Build, Hands, LoopHands, ProbesAlive, ProbeHands, TypeOK
  <2>5. ASSUME NEW q \in Routers PROVE Exact(q)'
    <3>1. refs'[q] = refs[q] + One(q = r) /\ Holders(q)' = Holders(q)
      BY <1>6, <1>h, <2>1, <2>2 DEF Build, One, TypeOK
    <3> QED
      <4>1. loop.pc = "idle" /\ loop' = [pc |-> "publish", next |-> r, old |-> loop.old]
        BY <1>6, <2>1 DEF Build, TypeOK
      <4>2. Exact(q) /\ Holders(q) \in Nat /\ UNCHANGED <<slot, hc, probe>>
        BY <1>0, <1>6 DEF Build
      <4> QED
        BY <3>1, <4>1, <4>2 DEF Exact, One
  <2> QED
    BY <2>3, <2>4, <2>5, ExactIsExact
<1>7. CASE BuildFails
  <2>1. PICK r \in Fresh, n \in {1, 2} : /\ life' = [life EXCEPT ![r] = "freed"]
                                         /\ given' = [given EXCEPT ![r] = n]
    BY <1>7 DEF BuildFails
  <2>2. r \in Routers /\ life[r] = "none" /\ refs[r] = 0
    BY DEF Fresh, LifeByRefs, TypeOK
  <2>3. TypeOK' /\ LifeByRefs' /\ RefsExact'
    BY <1>7, <2>1, <2>2 DEF BuildFails, LifeByRefs, TypeOK, RefsExact
  <2> QED
    BY <1>7, <2>3 DEF BuildFails, Hands, LoopHands, ProbesAlive, ProbeHands
<1>8. CASE RefNext
  <2>1. loop.next \in Routers /\ refs[loop.next] > 0 /\ Ref(loop.next)
    BY <1>8, <1>u DEF RefNext, Uses, Hands, LoopHands, TypeOK
  <2>2. TypeOK' /\ LifeByRefs'
    BY <1>8, <2>1, RefEffect DEF RefNext, Loop, TypeOK
  <2>3. Hands'
    BY <1>8 DEF RefNext, Loop, Hands, LoopHands, ProbesAlive, ProbeHands, TypeOK
  <2>4. ASSUME NEW q \in Routers PROVE Exact(q)'
    <3>1. refs'[q] = refs[q] + One(q = loop.next) /\ Holders(q)' = Holders(q)
      BY <1>8, <1>h, <2>1, RefEffect DEF RefNext
    <3> QED
      BY <1>0, <1>8, <3>1 DEF RefNext, Loop, Exact, One, TypeOK
  <2> QED
    BY <2>2, <2>3, <2>4, ExactIsExact
<1>9a. CASE Retire
  <2>1. loop.old \in Routers /\ refs[loop.old] > 0 /\ Unref(loop.old)
    BY <1>9a, <1>u DEF Retire, Uses, Hands, LoopHands, TypeOK
  <2>2. TypeOK' /\ LifeByRefs'
    BY <1>9a, <2>1, UnrefEffect DEF Retire, TypeOK
  <2>3. Hands'
    BY <1>9a DEF Retire, Hands, LoopHands, ProbesAlive, ProbeHands, TypeOK
  <2>4. ASSUME NEW q \in Routers PROVE Exact(q)'
    <3>1. refs'[q] = refs[q] - One(q = loop.old) /\ Holders(q)' = Holders(q)
      BY <1>9a, <1>h, <2>1, UnrefEffect DEF Retire
    <3> QED
      BY <1>0, <1>9a, <3>1 DEF Retire, Exact, One, TypeOK
  <2> QED
    BY <2>2, <2>3, <2>4, ExactIsExact
<1>9b. CASE Release
  <2>1. loop.old \in Routers /\ refs[loop.old] > 0 /\ Unref(loop.old)
    BY <1>9b, <1>u DEF Release, Uses, Hands, LoopHands, TypeOK
  <2>2. TypeOK' /\ LifeByRefs'
    BY <1>9b, <2>1, UnrefEffect DEF Release, TypeOK
  <2>3. Hands'
    BY <1>9b DEF Release, Hands, LoopHands, ProbesAlive, ProbeHands, TypeOK
  <2>4. ASSUME NEW q \in Routers PROVE Exact(q)'
    <3>1. refs'[q] = refs[q] - One(q = loop.old) /\ Holders(q)' = Holders(q)
      BY <1>9b, <1>h, <2>1, UnrefEffect DEF Release
    <3> QED
      BY <1>0, <1>9b, <3>1 DEF Release, Exact, One, TypeOK
  <2> QED
    BY <2>2, <2>3, <2>4, ExactIsExact
<1>10. CASE TakeRef
  <2>1. probe.r \in Routers /\ refs[probe.r] > 0 /\ Ref(probe.r)
    BY <1>10, <1>u DEF TakeRef, Uses, Hands, ProbeHands, TypeOK
  <2>2. TypeOK' /\ LifeByRefs'
    BY <1>10, <2>1, RefEffect DEF TakeRef, TypeOK
  <2>3. Hands'
    BY <1>10 DEF TakeRef, Hands, LoopHands, ProbesAlive, ProbeHands, TypeOK
  <2>4. ASSUME NEW q \in Routers PROVE Exact(q)'
    <3>1. refs'[q] = refs[q] + One(q = probe.r) /\ Holders(q)' = Holders(q)
      BY <1>10, <1>h, <2>1, RefEffect DEF TakeRef
    <3> QED
      BY <1>0, <1>10, <3>1 DEF TakeRef, Exact, One, TypeOK
  <2> QED
    BY <2>2, <2>3, <2>4, ExactIsExact
<1>11. CASE Probed
  <2>1. probe.r \in Routers /\ refs[probe.r] > 0 /\ Unref(probe.r)
    BY <1>11, <1>u DEF Probed, Uses, Hands, ProbeHands, TypeOK
  <2>2. TypeOK' /\ LifeByRefs'
    BY <1>11, <2>1, UnrefEffect DEF Probed, TypeOK
  <2>3. Hands'
    BY <1>11 DEF Probed, Hands, LoopHands, ProbesAlive, ProbeHands, TypeOK
  <2>4. ASSUME NEW q \in Routers PROVE Exact(q)'
    <3>1. refs'[q] = refs[q] - One(q = probe.r) /\ Holders(q)' = Holders(q)
      BY <1>11, <1>h, <2>1, UnrefEffect DEF Probed
    <3> QED
      BY <1>0, <1>11, <3>1 DEF Probed, Exact, One, TypeOK
  <2> QED
    BY <2>2, <2>3, <2>4, ExactIsExact
<1>12. CASE HealthStop
  <2>1. hc.current \in Routers /\ refs[hc.current] > 0 /\ Unref(hc.current)
    BY <1>12, <1>u DEF HealthStop, Uses, Hands, ProbesAlive, TypeOK
  <2>2. TypeOK' /\ LifeByRefs'
    BY <1>12, <2>1, UnrefEffect DEF HealthStop, Loop, TypeOK
  <2>3. Hands'
    BY <1>12 DEF HealthStop, Loop, Hands, LoopHands, ProbesAlive, ProbeHands, TypeOK
  <2>4. ASSUME NEW q \in Routers PROVE Exact(q)'
    <3>1. refs'[q] = refs[q] - One(q = hc.current) /\ Holders(q)' = Holders(q)
      BY <1>12, <1>h, <2>1, UnrefEffect DEF HealthStop
    <3> QED
      BY <1>0, <1>12, <3>1 DEF HealthStop, Loop, Exact, One, TypeOK
  <2> QED
    BY <2>2, <2>3, <2>4, ExactIsExact
<1>13. CASE Destroy
  <2>1. slot \in Routers /\ refs[slot] > 0 /\ Unref(slot)
    BY <1>13, <1>u DEF Destroy, Uses, Hands, LoopHands, TypeOK
  <2>2. TypeOK' /\ LifeByRefs'
    BY <1>13, <2>1, UnrefEffect DEF Destroy, Loop, TypeOK
  <2>3. Hands'
    BY <1>13 DEF Destroy, Loop, Hands, LoopHands, ProbesAlive, ProbeHands, TypeOK
  <2>4. ASSUME NEW q \in Routers PROVE Exact(q)'
    <3>1. refs'[q] = refs[q] - One(q = slot) /\ Holders(q)' = Holders(q)
      BY <1>13, <1>h, <2>1, UnrefEffect DEF Destroy
    <3> QED
      BY <1>0, <1>13, <3>1 DEF Destroy, Loop, Exact, One, TypeOK
  <2> QED
    BY <2>2, <2>3, <2>4, ExactIsExact
<1> QED
  BY <1>1, <1>2, <1>3a, <1>3b, <1>3c, <1>3d, <1>3e, <1>3f, <1>3g, <1>4, <1>5, <1>6, <1>7, <1>8, <1>9a, <1>9b, <1>10, <1>11, <1>12, <1>13
     DEF Next, Reload, Probe, Finish

----------------------------------------------------------------------------
(* The theorems.                                                           *)

\* The refcount counts every reference there is, through any number of
\* reloads and whatever the probes are doing meanwhile.
THEOREM RefcountExact == Spec => []RefsExact
<1>1. IInv => RefsExact
  BY DEF IInv
<1> QED
  BY <1>1, RcuInit, RcuStep, PTL DEF Spec

\* Every variable keeps its type, through any number of reloads.
THEOREM RcuTypes == Spec => []TypeOK
<1>1. IInv => TypeOK
  BY DEF IInv
<1> QED
  BY <1>1, RcuInit, RcuStep, PTL DEF Spec

\* Whoever has a router in its hands has one that is alive.
THEOREM NeverFreedInUse == Spec => []NoUseAfterFree
<1>1. IInv => NoUseAfterFree
  BY UsedIsCounted DEF IInv, LifeByRefs, NoUseAfterFree
<1> QED
  BY <1>1, RcuInit, RcuStep, PTL DEF Spec

\* The end of the worker leaves no router but those of open connections.
THEOREM EndReleasesAll == Spec => []AllReleased
<1>1. IInv => AllReleased
  <2> SUFFICES ASSUME IInv, loop.pc = "end", NEW r \in Routers, life[r] = "live"
               PROVE  \E x \in Conns : conn[x] = r
    BY DEF AllReleased
  <2>1. Exact(r) /\ refs[r] > 0
    BY ExactIsExact DEF IInv, LifeByRefs
  <2>2. Holders(r) \in Nat /\ (Holders(r) = 0 <=> \A x \in Conns : conn[x] # r)
    BY HoldersNat
  <2>3. slot # r /\ hc.current # r /\ loop.old # r /\ probe.pc # "probing"
    BY RouterRcuAssumption DEF IInv, Hands, LoopHands, ProbesAlive
  <2> QED
    BY <2>1, <2>2, <2>3 DEF Exact, One
<1> QED
  BY <1>1, RcuInit, RcuStep, PTL DEF Spec
=============================================================================
