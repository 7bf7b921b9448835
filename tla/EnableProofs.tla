---------------------------- MODULE EnableProofs ----------------------------
(***************************************************************************)
(* Proofs about the recursion of Enable in UnitPool: what an enable leaves *)
(* registered, for all names, libraries and depths of the recursion.       *)
(***************************************************************************)
EXTENDS UnitPoolProofs

(* Failing is the least set that contains the units without a file and      *)
(* those that require one of its units which the pool does not have.        *)
LEMMA FailingCloses ==
  ASSUME NEW k \in Names,
         Read(k) = NoFile \/ \E m \in Read(k).requires \cap Failing : pool[m] = NoFile
  PROVE  k \in Failing
<1>1. SUFFICES ASSUME NEW T \in SUBSET Names,
                      \A j \in Names :
                        Read(j) = NoFile \/ (\E m \in Read(j).requires \cap T : pool[m] = NoFile)
                          => j \in T
               PROVE  k \in T
  BY DEF Failing
<1>2. Failing \subseteq T
  BY <1>1 DEF Failing
<1> QED
  BY <1>1, <1>2

LEMMA FailingOpens ==
  ASSUME NEW k \in Failing
  PROVE  Read(k) = NoFile \/ \E m \in Read(k).requires \cap Failing : pool[m] = NoFile
<1> DEFINE T == {n \in Names : \/ Read(n) = NoFile
                               \/ \E m \in Read(n).requires \cap Failing : pool[m] = NoFile}
<1>1. T \subseteq Failing
  BY FailingCloses
<1>2. ASSUME NEW j \in Names,
             Read(j) = NoFile \/ \E m \in Read(j).requires \cap T : pool[m] = NoFile
      PROVE  j \in T
  BY <1>1, <1>2
<1>3. T \in SUBSET Names
  OBVIOUS
<1> HIDE DEF T
<1>4. k \in T
  BY <1>2, <1>3 DEF Failing
<1> QED
  BY <1>4 DEF T

(* The calls after the innermost one was replaced, and after a call was put *)
(* before the others, place by place.                                       *)
LEMMA WithTopPlaces ==
  ASSUME NEW S, NEW e \in S, NEW s \in Seq(S), s # <<>>
  PROVE  LET t == WithTop(e, s) IN
         /\ t \in Seq(S) /\ t # <<>> /\ DOMAIN t = DOMAIN s /\ Len(t) = Len(s)
         /\ \A i \in DOMAIN s : t[i] = IF i = 1 THEN e ELSE s[i]
<1> DEFINE r == Tail(s)
           t == <<e>> \o r
<1>1. /\ r \in Seq(S) /\ DOMAIN s = 1..Len(s) /\ Len(s) \in Nat \ {0}
      /\ Len(r) = Len(s) - 1 /\ DOMAIN r = 1..(Len(s) - 1)
      /\ \A i \in DOMAIN r : r[i] = s[i + 1]
  BY TailOf, HeadTailProperties
<1>2. <<e>> \in Seq(S) /\ Len(<<e>>) = 1 /\ <<e>>[1] = e
  OBVIOUS
<1>3. \A i \in 1..(1 + Len(r)) : t[i] = IF i <= 1 THEN <<e>>[i] ELSE r[i - 1]
  BY <1>1, <1>2, ConcatProperties
<1>4. t \in Seq(S) /\ t # <<>> /\ DOMAIN t = DOMAIN s /\ Len(t) = Len(s)
  BY WithTopOf DEF WithTop
<1>5. \A i \in DOMAIN s : t[i] = IF i = 1 THEN e ELSE s[i]
  <2>1. SUFFICES ASSUME NEW i \in DOMAIN s
                 PROVE  t[i] = IF i = 1 THEN e ELSE s[i]
    OBVIOUS
  <2>2. i \in 1..(1 + Len(r)) /\ i \in Nat /\ (i # 1 => i - 1 \in DOMAIN r /\ ~(i <= 1))
    BY <1>1
  <2> HIDE DEF t, r
  <2> QED
    BY <1>1, <1>2, <1>3, <2>2
<1> QED
  BY <1>4, <1>5 DEF WithTop

LEMMA PrefixPlaces ==
  ASSUME NEW S, NEW e \in S, NEW s \in Seq(S)
  PROVE  LET t == <<e>> \o s IN
         /\ t \in Seq(S) /\ t # <<>> /\ DOMAIN t = 1..(Len(s) + 1) /\ t[1] = e
         /\ Len(s) \in Nat /\ DOMAIN s = 1..Len(s)
         /\ \A i \in DOMAIN t : i # 1 => i - 1 \in DOMAIN s /\ t[i] = s[i - 1]
<1> DEFINE t == <<e>> \o s
<1>1. <<e>> \in Seq(S) /\ Len(<<e>>) = 1 /\ <<e>>[1] = e
  OBVIOUS
<1>2. \A i \in 1..(1 + Len(s)) : t[i] = IF i <= 1 THEN <<e>>[i] ELSE s[i - 1]
  BY <1>1, ConcatProperties
<1>3. t \in Seq(S) /\ t # <<>> /\ Len(t) = Len(s) + 1 /\ DOMAIN t = 1..Len(t) /\ t[1] = e
  BY PrefixedBy
<1>4. Len(s) \in Nat /\ DOMAIN s = 1..Len(s)
  BY LenProperties
<1>5. \A i \in DOMAIN t : i # 1 => i - 1 \in DOMAIN s /\ t[i] = s[i - 1]
  <2>1. SUFFICES ASSUME NEW i \in DOMAIN t, i # 1
                 PROVE  i - 1 \in DOMAIN s /\ t[i] = s[i - 1]
    OBVIOUS
  <2>2. i \in 1..(1 + Len(s)) /\ ~(i <= 1) /\ i - 1 \in DOMAIN s
    BY <1>3, <1>4, <2>1
  <2> HIDE DEF t
  <2> QED
    BY <1>2, <2>2
<1> QED
  BY <1>3, <1>4, <1>5
-----------------------------------------------------------------------------
(* What stays true while Enable works *)

(* A step of Enable: nothing is read anew, no file and no service that is   *)
(* relied upon is lost.                                                     *)
Keeps ==
  /\ UNCHANGED <<library, pool>> /\ Fills
  /\ \A n \in Names : Provided(n) => pool'[n] # NoFile \/ n \in registered'

(* So no other units can be read, and Enable fails for the same units.      *)
LEMMA KeepsReads ==
  ASSUME UNCHANGED <<library, pool>>
  PROVE  /\ Failing' = Failing
         /\ \A names : {m \in names : Read(m)' # NoFile} = Readable(names)
<1>1. \A k : Read(k)' = Read(k)
  BY DEF Read
<1> QED
  BY <1>1 DEF Failing, Readable

LEMMA DoneStays ==
  ASSUME TypeOK, Keeps, NEW call \in Frames, NEW inner, Done(call, inner)
  PROVE  Done(call, inner)'
<1>1. Failing' = Failing /\ Readable(call.definition.wants)' = Readable(call.definition.wants)
  BY KeepsReads DEF Keeps, Readable
<1>2. /\ call.unit \in Names
      /\ call.definition.requires \subseteq Names /\ call.definition.wants \subseteq Names
  BY EditionTypes DEF Frames
<1>3. \A m \in Names : /\ active[m] # NoFile => active'[m] # NoFile
                       /\ Provided(m) => Provided(m)'
  BY DEF Keeps, Fills, Provided
<1>4. \A m \in Readable(call.definition.wants) : m \in Names
  BY <1>2 DEF Readable
<1>5. pool' = pool
  BY DEF Keeps
<1> QED
  BY <1>1, <1>2, <1>3, <1>4, <1>5 DEF Done

(* It is enough to look at each call after the step with the call inside it. *)
LEMMA CallsAre ==
  ASSUME \A i \in DOMAIN frames' :
           \E call, inner :
             /\ call \in Frames /\ frames'[i] = call /\ Inner(i)' = inner /\ Done(call, inner)'
             /\ i > 1 => call.phase \in {"requires", "wants"}
  PROVE  CallsInv'
<1>1. SUFFICES ASSUME NEW i \in DOMAIN frames'
               PROVE  /\ Done(frames[i], Inner(i))'
                      /\ i > 1 => frames'[i].phase \in {"requires", "wants"}
  BY DEF CallsInv
<1>2. PICK call, inner :
             /\ call \in Frames /\ frames'[i] = call /\ Inner(i)' = inner /\ Done(call, inner)'
             /\ i > 1 => call.phase \in {"requires", "wants"}
  OBVIOUS
<1> QED
  BY <1>2 DEF Done

(* The calls as they are.  *)
LEMMA CallsWere ==
  ASSUME TypeOK, CallsInv, NEW i \in DOMAIN frames
  PROVE  \E call, inner :
           /\ call \in Frames /\ frames[i] = call /\ Inner(i) = inner /\ Done(call, inner)
           /\ i > 1 => call.phase \in {"requires", "wants"}
           /\ i = 1 => inner = {}
           /\ i > 1 => inner = {frames[i - 1].unit}
<1>1. frames[i] \in Frames /\ i \in Nat
  BY ElementOfSeq, LenProperties DEF TypeOK, ClientTypeOK
<1>2. Done(frames[i], Inner(i)) /\ (i > 1 => frames[i].phase \in {"requires", "wants"})
  BY DEF CallsInv
<1>3. (i = 1 => Inner(i) = {}) /\ (i > 1 => Inner(i) = {frames[i - 1].unit})
  BY <1>1 DEF Inner
<1> QED
  BY <1>1, <1>2, <1>3

LEMMA TurnComplete ==
  ASSUME TypeOK, CallsInv, Keeps, NEW p, Within(p),
         NEW e \in Frames, e.unit = Top.unit, frames' = WithTop(e, frames), Done(e, {})'
  PROVE  CallsInv'
<1>1. /\ DOMAIN frames' = DOMAIN frames
      /\ \A i \in DOMAIN frames : frames'[i] = IF i = 1 THEN e ELSE frames[i]
      /\ 1 \in DOMAIN frames /\ frames[1].unit = e.unit
  BY WithinFinds, WithTopPlaces DEF Top
<1>2. \A i \in DOMAIN frames : i > 1 => i - 1 \in DOMAIN frames
  BY WithinFinds
<1>3. ASSUME NEW i \in DOMAIN frames'
      PROVE  \E call, inner :
               /\ call \in Frames /\ frames'[i] = call /\ Inner(i)' = inner /\ Done(call, inner)'
               /\ i > 1 => call.phase \in {"requires", "wants"}
  <2>1. CASE i = 1
    BY <1>1, <2>1 DEF Inner
  <2>2. CASE i # 1
    <3>1. i > 1
      BY <1>1, <1>3, <2>2, WithinFinds
    <3>2. PICK call, inner :
             /\ call \in Frames /\ frames[i] = call /\ Done(call, inner)
             /\ call.phase \in {"requires", "wants"} /\ inner = {frames[i - 1].unit}
      BY <1>1, <1>3, <3>1, CallsWere
    <3>3. frames'[i - 1].unit = frames[i - 1].unit
      BY <1>1, <1>2, <1>3, <3>1
    <3>4. Inner(i)' = inner
      BY <2>2, <3>2, <3>3 DEF Inner
    <3> QED
      BY <1>1, <1>3, <2>2, <3>2, <3>4, DoneStays
  <2> QED
    BY <2>1, <2>2
<1> QED
  BY <1>3, CallsAre

(* A new call has done nothing yet, and its caller waits for it instead of  *)
(* having it left.                                                          *)
LEMMA RecurseComplete ==
  ASSUME TypeOK, CallsInv, Keeps, NEW p \in {"requires", "wants"}, Within(p),
         NEW m \in Top.left, Read(m) # NoFile, Recurse(m)
  PROVE  CallsInv'
<1>1. CASE Len(frames) = MaxDepth
  BY <1>1 DEF Recurse, Die, CallsInv
<1>2. CASE Len(frames) # MaxDepth
  <2>1. PICK e : e = [Top EXCEPT !.left = @ \ {m}]
    OBVIOUS
  <2>2. PICK f : f = Frame(m, Read(m))
    OBVIOUS
  <2>3. /\ e \in Frames /\ e.unit = Top.unit /\ e.phase = p /\ e.left = Top.left \ {m}
        /\ e.definition = Top.definition
    BY <2>1, WithinFinds DEF Frames
  <2>4. f \in Frames /\ f.unit = m /\ f.phase = "copy"
    <3>1. m \in Names
      BY WithinFinds DEF Frames
    <3>2. Read(m) \in Definitions
      BY <3>1, EditionTypes DEF Read, TypeOK, FileTypeOK
    <3> QED
      BY <2>2, <3>1, <3>2 DEF Frame, Frames, Phases
  <2>5. Done(e, {m})
    <3>1. Done(Top, {}) /\ Top.left = e.left \cup {m} /\ Top.phase = p
      <4>1. 1 \in DOMAIN frames
        BY WithinFinds
      <4> QED
        BY <2>3, <4>1, WithinFinds DEF CallsInv, Inner, Top
    <3> HIDE DEF Top
    <3>2. \A n : n \in Top.left <=> n \in e.left \cup {m}
      BY <3>1
    <3> QED
      BY <2>3, <3>1, <3>2 DEF Done
  <2>6. Done(e, {m})'
    BY <2>3, <2>5, DoneStays
  <2>7. Done(f, {})'
    BY <2>4 DEF Done
  <2>8. PICK g : g = WithTop(e, frames)
    OBVIOUS
  <2>9. /\ g \in Seq(Frames) /\ DOMAIN g = DOMAIN frames
        /\ \A i \in DOMAIN frames : g[i] = IF i = 1 THEN e ELSE frames[i]
    BY <2>3, <2>8, WithinFinds, WithTopPlaces
  <2>10. frames' = <<f>> \o g
    BY <1>2, <2>1, <2>2, <2>8 DEF Recurse
  <2>11. /\ DOMAIN frames' \subseteq Nat \ {0} /\ frames'[1] = f /\ 1 \in DOMAIN frames'
         /\ \A i \in DOMAIN frames' : i # 1 => i - 1 \in DOMAIN frames /\ frames'[i] = g[i - 1]
    BY <2>4, <2>9, <2>10, PrefixPlaces
  <2>12. ASSUME NEW i \in DOMAIN frames'
         PROVE  \E call, inner :
                  /\ call \in Frames /\ frames'[i] = call /\ Inner(i)' = inner /\ Done(call, inner)'
                  /\ i > 1 => call.phase \in {"requires", "wants"}
    <3>1. CASE i = 1
      BY <2>4, <2>7, <2>11, <3>1 DEF Inner
    <3>2. CASE i = 2
      <4>1. frames'[i] = e
        BY <2>9, <2>11, <2>12, <3>2
      <4>2. Inner(i)' = {m}
        BY <2>4, <2>11, <3>2 DEF Inner
      <4> QED
        BY <2>3, <2>6, <4>1, <4>2
    <3>3. CASE i # 1 /\ i # 2
      <4>1. i - 1 \in DOMAIN frames /\ i - 1 > 1 /\ i > 1 /\ i - 1 \in DOMAIN frames'
            /\ i \in Nat /\ (i - 1) - 1 \in DOMAIN frames
        BY <2>4, <2>9, <2>10, <2>11, <2>12, <3>3, WithinFinds, PrefixPlaces
      <4>2. frames'[i] = frames[i - 1] /\ frames'[i - 1].unit = frames[(i - 1) - 1].unit
        BY <2>3, <2>9, <2>11, <2>12, <3>3, <4>1 DEF Top
      <4>3. PICK call, inner :
               /\ call \in Frames /\ frames[i - 1] = call /\ Done(call, inner)
               /\ call.phase \in {"requires", "wants"} /\ inner = {frames[(i - 1) - 1].unit}
        BY <4>1, CallsWere
      <4>4. Inner(i)' = inner
        BY <3>3, <4>2, <4>3 DEF Inner
      <4> QED
        BY <4>2, <4>3, <4>4, DoneStays
    <3> QED
      BY <3>1, <3>2, <3>3
  <2> QED
    BY <2>12, CallsAre
<1> QED
  BY <1>1, <1>2

(* A call past its copy works on what can be read of its unit.              *)
LEMMA ReadIsDefinition ==
  ASSUME PoolInv, ~Idle, NEW call \in Frames, UpToDate(call), active[call.unit] # NoFile
  PROVE  Read(call.unit) = call.definition
  BY DEF Frames, PoolInv, UpToDate, Read

(* The call returns to one that waits for a required unit, which is then    *)
(* provided or makes the caller fail, or for a wanted unit.                 *)
LEMMA ReturnComplete ==
  ASSUME TypeOK, CarefulInv, CallsInv, Keeps, NEW p, Within(p), NEW success \in BOOLEAN,
         Return(success), active'[Top.unit] # NoFile,
         IF success THEN pool[Top.unit] # NoFile \/ Top.unit \in registered'
                    ELSE Top.unit \in Failing
  PROVE  CallsInv'
<1>1. CASE Len(frames) = 1
  BY <1>1 DEF Return, CallsInv
<1>2. CASE Len(frames) # 1
  <2>1. PICK r : r = Tail(frames)
    OBVIOUS
  <2>2. PICK u : u = Top.unit
    OBVIOUS
  <2>3. /\ r \in Seq(Frames) /\ Len(r) = Len(frames) - 1 /\ Len(r) \in Nat \ {0}
        /\ DOMAIN r = 1..Len(r)
        /\ \A i \in DOMAIN r : i + 1 \in DOMAIN frames /\ r[i] = frames[i + 1]
    BY <1>2, <2>1, WithinFinds, TailOf, HeadTailProperties
  <2>4. r # <<>> /\ 1 \in DOMAIN r
    BY <2>3, EmptySeq
  <2>5. PICK c \in Frames : /\ c = frames[2] /\ c = r[1] /\ Done(c, {u}) /\ UpToDate(c)
                            /\ c.phase \in {"requires", "wants"}
    <3>1. 2 \in DOMAIN frames /\ frames[2] = r[1]
      BY <2>3, <2>4
    <3>2. PICK c, inner :
             /\ c \in Frames /\ frames[2] = c /\ Done(c, inner)
             /\ c.phase \in {"requires", "wants"}
             /\ inner = {frames[2 - 1].unit}
      BY <3>1, CallsWere
    <3> QED
      BY <2>2, <3>1, <3>2 DEF Top, CarefulInv, FrameInv
  <2>6. Done(c, {u})' /\ Failing' = Failing /\ pool' = pool
    BY <2>5, DoneStays, KeepsReads DEF Keeps
  <2>7. PICK e \in Frames :
          /\ e.unit = c.unit /\ Done(e, {})'
          /\ \/ frames' = r /\ e = c
             \/ frames' = WithTop(e, r)
    <3>1. CASE success \/ c.phase = "wants"
      <4>1. \/ pool'[u] # NoFile \/ u \in registered'
            \/ c.phase = "wants" /\ u \in Failing'
        BY <2>2, <2>6, <3>1
      <4>2. active'[u] # NoFile
        BY <2>2
      <4>3. Done(c, {})'
        BY <2>5, <2>6, <4>1, <4>2 DEF Done, Provided
      <4>4. frames' = r
        BY <1>2, <2>1, <2>5, <3>1 DEF Return
      <4> QED
        BY <4>3, <4>4
    <3>2. CASE ~(success \/ c.phase = "wants")
      <4>1. PICK e : e = [c EXCEPT !.phase = "failed"]
        OBVIOUS
      <4>2. e \in Frames /\ e.unit = c.unit /\ e.phase = "failed"
        BY <4>1 DEF Frames, Phases
      <4>3. /\ c.phase = "requires" /\ active[c.unit] # NoFile /\ u \in Failing
            /\ u \in c.definition.requires /\ pool[u] = NoFile
        BY <2>2, <2>5, <3>2 DEF Done
      <4>4. Read(c.unit) = c.definition /\ c.unit \in Names
        BY <2>5, <4>3, WithinFinds, ReadIsDefinition DEF CarefulInv, Frames
      <4>5. c.unit \in Failing
        BY <4>3, <4>4, FailingCloses
      <4>6. active'[c.unit] # NoFile
        BY <4>3, <4>4 DEF Keeps, Fills
      <4>7. Done(e, {})'
        BY <2>6, <4>2, <4>5, <4>6 DEF Done
      <4>8. frames' = WithTop(e, r)
        BY <1>2, <2>1, <2>5, <3>2, <4>1 DEF Return
      <4> QED
        BY <4>2, <4>7, <4>8
    <3> QED
      BY <3>1, <3>2
  <2>8. DOMAIN frames' = DOMAIN r /\ \A i \in DOMAIN r : frames'[i] = IF i = 1 THEN e ELSE r[i]
    <3>1. CASE frames' = r /\ e = c
      BY <2>5, <3>1
    <3>2. CASE frames' = WithTop(e, r)
      BY <2>3, <2>4, <3>2, WithTopPlaces
    <3> QED
      BY <2>7, <3>1, <3>2
  <2>9. ASSUME NEW i \in DOMAIN frames'
        PROVE  \E call, inner :
                 /\ call \in Frames /\ frames'[i] = call /\ Inner(i)' = inner /\ Done(call, inner)'
                 /\ i > 1 => call.phase \in {"requires", "wants"}
    <3>1. CASE i = 1
      BY <2>7, <2>8, <3>1 DEF Inner
    <3>2. CASE i # 1
      <4>1. i > 1 /\ i + 1 > 1 /\ i + 1 \in DOMAIN frames /\ i - 1 \in DOMAIN r
            /\ i \in Nat /\ (i + 1) - 1 = i /\ (i - 1) + 1 = i
        BY <2>3, <2>8, <2>9, <3>2
      <4>2. frames'[i] = frames[i + 1]
        BY <2>3, <2>8, <2>9, <3>2
      <4>3. frames'[i - 1].unit = frames[i].unit
        <5>1. CASE i - 1 = 1
          <6>1. i = 2
            BY <4>1, <5>1
          <6>2. frames'[i - 1] = e
            BY <2>4, <2>8, <5>1
          <6> QED
            BY <2>5, <2>7, <6>1, <6>2
        <5>2. CASE i - 1 # 1
          BY <2>3, <2>8, <4>1, <5>2
        <5> QED
          BY <5>1, <5>2
      <4>4. PICK call, inner :
               /\ call \in Frames /\ frames[i + 1] = call /\ Done(call, inner)
               /\ call.phase \in {"requires", "wants"} /\ inner = {frames[(i + 1) - 1].unit}
        BY <4>1, CallsWere
      <4>5. Inner(i)' = inner
        BY <3>2, <4>1, <4>3, <4>4 DEF Inner
      <4> QED
        BY <4>2, <4>4, <4>5, DoneStays
    <3> QED
      BY <3>1, <3>2
  <2> QED
    BY <2>9, CallsAre
<1> QED
  BY <1>1, <1>2
-----------------------------------------------------------------------------
(* The steps of Enable *)

(* What a step leaves registered is complete up to the units of the pool.   *)
LeavesComplete ==
  /\ registered \subseteq registered'
  /\ \A n \in registered' : \A m \in active'[n].requires : pool[m] # NoFile \/ m \in registered'

LEMMA FilesStay ==
  ASSUME TypeOK, FilesInv, Fills, registered' \subseteq registered,
         \A n \in registered' : dependsOn'[n] = dependsOn[n]
  PROVE  FilesInv'
<1>1. \A n \in Names : active[n] # NoFile => active'[n] = active[n]
  BY DEF Fills
<1>2. registered \subseteq Names /\ \A n \in registered : dependsOn[n] \subseteq Names
  BY DEF TypeOK, ScmTypeOK
<1> QED
  BY <1>1, <1>2 DEF FilesInv

LEMMA ServicesStay ==
  ASSUME TypeOK, FilesInv, ServicesInv, Keeps, request.command = "enable",
         deleting' \subseteq deleting, registered' \subseteq registered,
         \A n \in registered' : dependsOn'[n] = dependsOn[n]
  PROVE  ServicesInv'
<1>1. Failing' = Failing /\ pool' = pool
  BY KeepsReads DEF Keeps
<1>2. /\ registered \subseteq Names
      /\ \A n \in registered :
           active'[n] = active[n] /\ active[n].requires \subseteq Names /\ dependsOn[n] \subseteq Names
  BY DEF TypeOK, ScmTypeOK, FilesInv, Keeps, Fills
<1>3. \A m \in Names : Provided(m) => Provided(m)'
  BY DEF Keeps, Provided
<1> QED
  BY <1>1, <1>2, <1>3 DEF ServicesInv

(* Without an enable nothing is claimed of the services and the calls.      *)
LEMMA NothingEnabled ==
  ASSUME frames' = <<>>, request'.command # "enable",
         \A i \in DOMAIN todo' : todo'[i][1] # "enable"
  PROVE  StepInv' /\ ServicesInv' /\ CallsInv'
  BY DEF StepInv, ServicesInv, CallsInv

LEMMA IdleEnables ==
  ASSUME TypeOK', Idle'
  PROVE  StepInv' /\ ServicesInv' /\ CallsInv'
<1>1. frames' = <<>> /\ todo' = <<>>
  BY DEF TypeOK, ClientTypeOK
<1> QED
  BY <1>1, NothingEnabled DEF Idle

(* A step of Enable that changes nothing in the SCM. *)
LEMMA EnablingStep ==
  ASSUME TypeOK, TypeOK', EnableInv, request.command = "enable",
         UNCHANGED <<library, registered, deleting, dependsOn>>, Fills,
         \/ Idle'
         \/ /\ UNCHANGED <<request, pool>> /\ (Keeps => CallsInv')
            /\ \A i \in DOMAIN todo' : \E j \in DOMAIN todo : todo'[i] = todo[j]
  PROVE  EnableInv' /\ LeavesComplete
<1>1. FilesInv'
  BY FilesStay DEF EnableInv
<1>2. LeavesComplete
  BY DEF LeavesComplete, EnableInv, ServicesInv, FilesInv, Fills, Provided, TypeOK, ScmTypeOK
<1>3. CASE Idle'
  BY <1>1, <1>2, <1>3, IdleEnables DEF EnableInv
<1>4. CASE ~Idle'
  <2>1. Keeps
    BY <1>4 DEF Keeps, Provided
  <2>2. ServicesInv'
    BY <2>1, ServicesStay DEF EnableInv
  <2>3. StepInv'
    BY <1>4 DEF EnableInv, StepInv
  <2> QED
    BY <1>1, <1>2, <1>4, <2>1, <2>2, <2>3 DEF EnableInv
<1> QED
  BY <1>3, <1>4

(* The client after a call has returned, and after another call was begun.  *)
LEMMA ReturnClient ==
  ASSUME TypeOK, NEW p, Within(p), NEW success, Return(success)
  PROVE  \/ Idle'
         \/ /\ UNCHANGED <<request, pool>>
            /\ \A i \in DOMAIN todo' : \E j \in DOMAIN todo : todo'[i] = todo[j]
<1>1. \A i \in DOMAIN todo' : \E j \in DOMAIN todo : todo'[i] = todo[j]
  BY ReturnGoesOn
<1>2. Idle' \/ UNCHANGED <<request, pool>>
  BY DEF Return, GoOn, GoOnWith, Idle, Free
<1> QED
  BY <1>1, <1>2

LEMMA RecurseClient ==
  ASSUME NEW m, Recurse(m)
  PROVE  Idle' \/ UNCHANGED <<request, pool, todo>>
  BY DEF Recurse, Die, Idle

(* Where the innermost call stands. *)
LEMMA TopDone ==
  ASSUME TypeOK, CarefulInv, CallsInv, NEW p, Within(p)
  PROVE  /\ Top \in Frames /\ Top.phase = p /\ Done(Top, {}) /\ UpToDate(Top)
         /\ Top.unit \in Names /\ Top.definition \in Definitions /\ Top.definition # NoFile
         /\ p # "copy" => /\ active[Top.unit] = Top.definition
                          /\ Read(Top.unit) = Top.definition
<1>1. Top \in Frames /\ Top.phase = p /\ 1 \in DOMAIN frames /\ ~Idle
  BY WithinFinds
<1>2. Done(Top, {}) /\ UpToDate(Top)
  BY <1>1 DEF CallsInv, Inner, Top, CarefulInv, FrameInv
<1>3. Top.unit \in Names /\ Top.definition \in Definitions /\ Top.definition # NoFile
  BY <1>1, ConstantsAssumption DEF Frames
<1>4. p # "copy" => active[Top.unit] # NoFile
  BY <1>1, <1>2 DEF Done
<1>5. p # "copy" => Read(Top.unit) = Top.definition /\ active[Top.unit] = Top.definition
  BY <1>1, <1>2, <1>4, ReadIsDefinition DEF CarefulInv, UpToDate
<1> QED
  BY <1>1, <1>2, <1>3, <1>5

(* Enable for the unit of the command. *)
LEMMA EnableUnitComplete ==
  ASSUME TypeOK, TypeOK', ReadInv, CarefulInv, EnableInv, NEW n \in Names, EnableUnit(n)
  PROVE  EnableInv' /\ LeavesComplete
<1>1. /\ UNCHANGED <<library, active, registered, deleting, dependsOn, request, pool, todo>>
      /\ frames' = <<Frame(n, Read(n))>>
  BY DEF EnableUnit, files, scm
<1>2. /\ 1 \in DOMAIN todo /\ todo[1][1] = "enable" /\ todo[1] = <<"enable", n>>
  BY AtStepFinds DEF EnableUnit
<1>3. request.command = "enable"
  BY <1>2 DEF EnableInv, StepInv
<1>4. PICK f \in Frames : f = Frame(n, Read(n)) /\ f.phase = "copy"
  <2>1. Read(n) \in Definitions
    BY <1>2, EditionTypes DEF ReadInv, Readable, Read, TypeOK, FileTypeOK
  <2>2. Frame(n, Read(n)) \in Frames /\ Frame(n, Read(n)).phase = "copy"
    BY <2>1 DEF Frame, Frames, Phases
  <2> QED
    BY <2>2
<1>5. CallsInv'
  <2>1. frames' = <<f>>
    BY <1>1, <1>4
  <2>2. \A i \in DOMAIN frames' : i = 1 /\ frames'[i] = f
    BY <2>1
  <2>3. Done(f, {})'
    BY <1>4 DEF Done
  <2> QED
    BY <2>2, <2>3, CallsAre DEF Inner
<1> QED
  BY <1>1, <1>3, <1>5, EnablingStep DEF Fills

(* Enable copies the file: it finds one, since the unit could be read. *)
LEMMA EnableCopyComplete ==
  ASSUME TypeOK, TypeOK', CarefulInv, EnableInv, EnableCopy
  PROVE  EnableInv' /\ LeavesComplete
<1> DEFINE u == Top.unit
           d == Top.definition
           left == {m \in d.requires : pool[m] = NoFile}
<1>1. Within("copy") /\ UNCHANGED <<library, registered, deleting, dependsOn>>
  BY DEF EnableCopy, scm
<1>2. Top \in Frames /\ UpToDate(Top) /\ u \in Names /\ d \in Definitions /\ d # NoFile
  BY <1>1, TopDone DEF EnableInv
<1>3. Copied(u)[u] # NoFile
  BY <1>2 DEF UpToDate, Copied, TypeOK, FileTypeOK
<1>4. active' = Copied(u) /\ Turn("requires", left) /\ UNCHANGED <<request, pool, todo>>
  BY <1>3 DEF EnableCopy
<1>5. request.command = "enable"
  BY <1>1, WithinFinds DEF EnableInv, StepInv
<1>6. Fills
  BY <1>2, <1>4, CopiedType DEF Fills
<1>7. ASSUME Keeps
      PROVE  CallsInv'
  <2>1. PICK e : e = [Top EXCEPT !.phase = "requires", !.left = left]
    OBVIOUS
  <2>2. d.requires \subseteq Names
    BY <1>2, EditionTypes
  <2>3. /\ e \in Frames /\ e.unit = u /\ e.definition = d /\ e.phase = "requires"
        /\ e.left = left
    BY <1>2, <2>1, <2>2 DEF Frames, Phases
  <2>4. active'[u] # NoFile /\ pool' = pool
    BY <1>3, <1>4
  <2> HIDE DEF u, d
  <2>5. Done(e, {})'
    BY <2>3, <2>4 DEF Done, Provided
  <2>6. frames' = WithTop(e, frames)
    BY <1>4, <2>1 DEF Turn
  <2> QED
    BY <1>1, <1>7, <2>3, <2>5, <2>6, TurnComplete DEF EnableInv, u
<1> QED
  BY <1>1, <1>4, <1>5, <1>6, <1>7, EnablingStep

(* The steps of Enable that change neither the files nor the services. *)
LEMMA EnableCallsComplete ==
  ASSUME TypeOK, TypeOK', ReadInv, CarefulInv, EnableInv,
         \/ EnableRequired \/ EnableRequiredDone
         \/ EnableWanted \/ EnableWantedDone \/ EnableFailed
  PROVE  EnableInv' /\ LeavesComplete
<1> DEFINE u == Top.unit
           d == Top.definition
           Client == \/ Idle'
                     \/ /\ UNCHANGED <<request, pool>>
                        /\ \A i \in DOMAIN todo' : \E j \in DOMAIN todo : todo'[i] = todo[j]
<1>1. UNCHANGED <<library, active, registered, deleting, dependsOn>>
  BY DEF EnableRequired, EnableRequiredDone, EnableWanted, EnableWantedDone, EnableFailed,
         files, scm
<1>2. PICK p \in {"requires", "wants", "failed"} : Within(p)
  BY DEF EnableRequired, EnableRequiredDone, EnableWanted, EnableWantedDone, EnableFailed
<1>3. /\ Top \in Frames /\ Top.phase = p /\ Done(Top, {}) /\ u \in Names /\ d \in Definitions
      /\ active[u] = d /\ Read(u) = d /\ d # NoFile
      /\ d.requires \subseteq Names /\ d.wants \subseteq Names
  BY <1>2, TopDone, EditionTypes DEF EnableInv
<1>4. request.command = "enable" /\ Fills
  BY <1>1, <1>2, WithinFinds DEF EnableInv, StepInv, Fills
<1>5. ASSUME Return(FALSE), u \in Failing
      PROVE  Client /\ (Keeps => CallsInv')
  BY <1>1, <1>2, <1>3, <1>5, ReturnClient, ReturnComplete DEF EnableInv
<1>6. ASSUME NEW m \in Top.left, Recurse(m), Read(m) # NoFile, p \in {"requires", "wants"}
      PROVE  Client /\ (Keeps => CallsInv')
  BY <1>2, <1>6, RecurseClient, RecurseComplete DEF EnableInv
<1>7. ASSUME NEW phase \in Phases, NEW left \in SUBSET Names,
             Turn(phase, left), UNCHANGED <<request, pool, todo>>,
             \A e : e.unit = u /\ e.definition = d /\ e.phase = phase /\ e.left = left
                      => Done(e, {})
      PROVE  Client /\ (Keeps => CallsInv')
  <2>1. PICK e : e = [Top EXCEPT !.phase = phase, !.left = left]
    OBVIOUS
  <2>2. e \in Frames /\ e.unit = u /\ e.definition = d /\ e.phase = phase /\ e.left = left
    BY <1>3, <2>1 DEF Frames
  <2>3. Done(e, {})
    BY <1>7, <2>2
  <2>4. frames' = WithTop(e, frames)
    BY <1>7, <2>1 DEF Turn
  <2>5. Keeps => CallsInv'
    BY <1>2, <2>2, <2>3, <2>4, DoneStays, TurnComplete DEF EnableInv
  <2> QED
    BY <1>7, <2>5
<1> HIDE DEF Client
<1>8. CASE EnableRequired
  <2>1. p = "requires"
    BY <1>2, <1>8 DEF EnableRequired, Within
  <2>2. PICK m \in Top.left : IF library[m] = NoFile THEN Return(FALSE) ELSE Recurse(m)
    BY <1>8 DEF EnableRequired
  <2>3. m \in d.requires /\ pool[m] = NoFile /\ Read(m) = library[m]
    BY <1>3, <2>1 DEF Done, Read
  <2>4. ASSUME library[m] = NoFile
        PROVE  Client /\ (Keeps => CallsInv')
    <3>1. m \in Failing
      BY <1>3, <2>3, <2>4, FailingCloses
    <3>2. u \in Failing
      BY <1>3, <2>3, <3>1, FailingCloses
    <3> QED
      BY <1>5, <2>2, <2>4, <3>2
  <2>5. ASSUME library[m] # NoFile
        PROVE  Client /\ (Keeps => CallsInv')
    BY <1>6, <2>1, <2>2, <2>3, <2>5
  <2> QED
    BY <1>1, <1>4, <2>4, <2>5, EnablingStep DEF Client
<1>9. CASE EnableRequiredDone
  <2>1. p = "requires" /\ Top.left = {} /\ Turn("wants", Readable(d.wants))
        /\ UNCHANGED <<request, pool, todo>>
    BY <1>2, <1>9 DEF EnableRequiredDone, Within
  <2>2. \A m \in d.requires : Provided(m)
    BY <1>3, <2>1 DEF Done
  <2>3. \A e : e.unit = u /\ e.definition = d /\ e.phase = "wants" /\ e.left = Readable(d.wants)
                 => Done(e, {})
    BY <1>3, <2>2 DEF Done
  <2>4. Readable(d.wants) \in SUBSET Names /\ "wants" \in Phases
    BY <1>3 DEF Readable, Phases
  <2> QED
    BY <1>1, <1>4, <1>7, <2>1, <2>3, <2>4, EnablingStep DEF Client
<1>10. CASE EnableWanted
  <2>1. p = "wants"
    BY <1>2, <1>10 DEF EnableWanted, Within
  <2>2. PICK m \in Top.left : Recurse(m)
    BY <1>10 DEF EnableWanted
  <2>3. Read(m) # NoFile
    BY <1>2, <1>3, <2>1, WithinFinds DEF ReadInv, Readable, Top
  <2> QED
    BY <1>1, <1>4, <1>6, <2>1, <2>2, <2>3, EnablingStep DEF Client
<1>11. CASE EnableWantedDone
  <2>1. p = "wants" /\ Top.left = {} /\ Turn("register", {}) /\ UNCHANGED <<request, pool, todo>>
    BY <1>2, <1>11 DEF EnableWantedDone, Within
  <2>2. \A e : e.unit = u /\ e.definition = d /\ e.phase = "register" /\ e.left = {}
                 => Done(e, {})
    BY <1>3, <2>1 DEF Done
  <2>3. {} \in SUBSET Names /\ "register" \in Phases
    BY DEF Phases
  <2> QED
    BY <1>1, <1>4, <1>7, <2>1, <2>2, <2>3, EnablingStep DEF Client
<1>12. CASE EnableFailed
  <2>1. p = "failed" /\ Return(FALSE)
    BY <1>2, <1>12 DEF EnableFailed, Within
  <2>2. u \in Failing
    BY <1>3, <2>1 DEF Done
  <2> QED
    BY <1>1, <1>4, <1>5, <2>1, <2>2, EnablingStep DEF Client
<1> QED
  BY <1>8, <1>9, <1>10, <1>11, <1>12

(* The SCM does not take the new service for a circular dependency: what    *)
(* depends on it would have been registered before it, although it was      *)
(* neither there nor given up.                                              *)
LEMMA NotCircular ==
  ASSUME TypeOK, EnableInv, request.command = "enable", NEW u \in Names,
         ~Provided(u), u \notin Failing,
         NEW D \in SUBSET Names, \A m \in D : Provided(m) \/ m \in Failing
  PROVE  u \notin Needs(D)
<1> DEFINE T == Names \ {u}
<1>1. T \in SUBSET Names /\ D \subseteq T /\ u \notin T
  OBVIOUS
<1>2. \A k \in T \cap registered : dependsOn[k] \subseteq T
  BY DEF EnableInv, ServicesInv, TypeOK, ScmTypeOK
<1> HIDE DEF T
<1> QED
  BY <1>1, <1>2 DEF Needs

(* The one step that adds a service to the SCM. *)
LEMMA EnableRegisterComplete ==
  ASSUME TypeOK, TypeOK', CarefulInv, EnableInv, EnableRegister
  PROVE  EnableInv' /\ LeavesComplete
<1>1. PICK u : u = Top.unit
  OBVIOUS
<1>2. PICK d : d = Top.definition
  OBVIOUS
<1>3. PICK D : D = d.requires \cup Readable(d.wants)
  OBVIOUS
<1>4. /\ Within("register") /\ Return(TRUE) /\ UNCHANGED <<library, active>>
      /\ CreateService(u, D)
  BY <1>1, <1>2, <1>3 DEF EnableRegister, files
<1>5. /\ u \in Names /\ d \in Definitions /\ d # NoFile /\ active[u] = d /\ Read(u) = d
      /\ Top.phase = "register" /\ Done(Top, {})
  BY <1>1, <1>2, <1>4, TopDone DEF EnableInv
<1>6. d.requires \subseteq Names /\ d.wants \subseteq Names /\ D \in SUBSET Names
  BY <1>3, <1>5, EditionTypes DEF Readable
<1>7. request.command = "enable" /\ ~Idle
  BY <1>4, WithinFinds DEF EnableInv, StepInv
<1>8. /\ \A m \in d.requires : Provided(m)
      /\ \A m \in Readable(d.wants) : active[m] # NoFile /\ (Provided(m) \/ m \in Failing)
  BY <1>2, <1>5 DEF Done
<1>9. \A m \in D : active[m] # NoFile /\ (Provided(m) \/ m \in Failing)
  <2>1. ASSUME NEW m \in d.requires
        PROVE  active[m] # NoFile
    BY <1>6, <1>7, <1>8, <2>1 DEF Provided, EnableInv, FilesInv, CarefulInv, PoolInv
  <2> QED
    BY <1>3, <1>8, <2>1
<1>10. u \notin Failing
  <2>1. SUFFICES ASSUME NEW m \in d.requires \cap Failing, pool[m] = NoFile
                 PROVE  FALSE
    BY <1>5, FailingOpens
  <2>2. m \in registered
    BY <1>8, <2>1 DEF Provided
  <2> QED
    BY <1>7, <2>1, <2>2 DEF EnableInv, ServicesInv
<1>11. pool[u] # NoFile \/ u \in registered'
  <2>1. CASE Provided(u)
    BY <1>4, <2>1 DEF CreateService, Provided, scm
  <2>2. CASE ~Provided(u)
    <3>1. \A m \in D : Provided(m) \/ m \in Failing
      BY <1>9
    <3>2. u \notin Needs(D)
      BY <1>5, <1>6, <1>7, <1>10, <2>2, <3>1, NotCircular
    <3> QED
      BY <1>4, <2>2, <3>2 DEF CreateService, Provided
  <2> QED
    BY <2>1, <2>2
<1>12. /\ registered \subseteq registered' /\ registered' \subseteq registered \cup {u}
       /\ deleting' = deleting
       /\ \A n \in registered' : \/ n \in registered /\ dependsOn'[n] = dependsOn[n]
                                 \/ n = u /\ dependsOn'[n] = D
  BY <1>4, <1>5 DEF CreateService, scm, TypeOK, ScmTypeOK
<1>13. \A n \in registered' :
         \/ n \in registered /\ dependsOn'[n] = dependsOn[n]
         \/ n = u /\ dependsOn'[n] = D /\ active[n] = d
  BY <1>5, <1>12
<1>14. FilesInv'
  BY <1>3, <1>4, <1>5, <1>9, <1>13 DEF EnableInv, FilesInv
<1>15. LeavesComplete
  BY <1>4, <1>7, <1>8, <1>12, <1>13 DEF LeavesComplete, EnableInv, ServicesInv, Provided
<1>16. CASE Idle'
  BY <1>14, <1>15, <1>16, IdleEnables DEF EnableInv
<1>17. CASE ~Idle'
  <2>1. /\ UNCHANGED <<request, pool>>
        /\ \A i \in DOMAIN todo' : \E j \in DOMAIN todo : todo'[i] = todo[j]
    BY <1>4, <1>17, ReturnClient
  <2>2. Keeps
    BY <1>4, <1>12, <2>1 DEF Keeps, Fills, Provided
  <2>3. CallsInv'
    BY <1>1, <1>4, <1>5, <1>11, <2>2, ReturnComplete DEF EnableInv
  <2>4. StepInv'
    BY <1>7, <2>1 DEF EnableInv, StepInv
  <2>5. ServicesInv'
    <3>1. Failing' = Failing /\ pool' = pool /\ active' = active
      BY <1>4, <2>1, KeepsReads
    <3>2. \A m : Provided(m) => Provided(m)'
      BY <1>12, <3>1 DEF Provided
    <3>3. \A n \in deleting' : pool'[n] # NoFile
      BY <1>7, <1>12, <3>1 DEF EnableInv, ServicesInv
    <3>4. ASSUME NEW n \in registered'
          PROVE  /\ pool'[n] # NoFile \/ n \notin Failing'
                 /\ \A m \in active'[n].requires : Provided(m)'
                 /\ \A m \in dependsOn'[n] : Provided(m)' \/ m \in Failing'
      <4>1. CASE n \in registered /\ dependsOn'[n] = dependsOn[n]
        BY <1>7, <3>1, <3>2, <4>1 DEF EnableInv, ServicesInv
      <4>2. CASE n = u /\ dependsOn'[n] = D /\ active[n] = d
        BY <1>8, <1>9, <1>10, <3>1, <3>2, <4>2
      <4> QED
        BY <1>13, <3>4, <4>1, <4>2
    <3> QED
      BY <3>3, <3>4 DEF ServicesInv
  <2> QED
    BY <1>14, <1>15, <2>3, <2>4, <2>5 DEF EnableInv
<1> QED
  BY <1>16, <1>17

LEMMA EnableComplete ==
  ASSUME TypeOK, TypeOK', ReadInv, CarefulInv, EnableInv,
         (\E n \in Names : EnableUnit(n)) \/ Enable
  PROVE  EnableInv' /\ LeavesComplete
  BY EnableUnitComplete, EnableCopyComplete, EnableCallsComplete, EnableRegisterComplete
     DEF Enable
-----------------------------------------------------------------------------
(* The other steps *)

(* A command that does not enable. *)
LEMMA CommandStepsComplete ==
  ASSUME TypeOK, TypeOK', CarefulInv, EnableInv, NEW n \in Names,
         \/ StartService(n) \/ StopService(n) \/ Kill(n) \/ Signal(n)
         \/ Disable(n) \/ WaitForStop(n) \/ Unmask(n)
  PROVE  EnableInv' /\ request.command # "enable"
<1>1. PICK step \in {"start", "stop", "kill", "signal", "disable", "waitForStop", "unmask"} :
        AtStep(step, n)
  BY DEF StartService, StopService, Kill, Signal, Disable, WaitForStop, Unmask
<1>2. frames = <<>> /\ 1 \in DOMAIN todo /\ todo[1][1] = step /\ ~Idle
  BY <1>1, AtStepFinds
<1>3. request.command # "enable"
  BY <1>1, <1>2 DEF EnableInv, StepInv
<1>4. GoOn(Tail(todo)) \/ GoOn(<<>>)
  BY DEF StartService, StopService, Kill, Signal, Disable, WaitForStop, Unmask
<1>5. \A i \in DOMAIN todo' : \E j \in DOMAIN todo : todo'[i] = todo[j]
  <2>1. CASE GoOn(Tail(todo))
    BY <1>2, <2>1, TailGoesOn
  <2>2. CASE GoOn(<<>>)
    BY <2>2 DEF GoOn, GoOnWith
  <2> QED
    BY <1>4, <2>1, <2>2
<1>6. request'.command # "enable" /\ frames' = <<>>
  BY <1>2, <1>3, <1>4
     DEF GoOn, GoOnWith, Free, StartService, StopService, Kill, Signal, Disable, WaitForStop, Unmask
<1>7. \A i \in DOMAIN todo' : todo'[i][1] # "enable"
  BY <1>3, <1>5 DEF EnableInv, StepInv
<1>8. Fills
  <2>1. active' \in {active, Copied(n)}
    BY DEF StartService, StopService, Kill, Signal, Disable, WaitForStop, Unmask, files
  <2> QED
    BY <2>1, CopiedType DEF Fills
<1>9. registered' \subseteq registered /\ \A m \in registered' : dependsOn'[m] = dependsOn[m]
  BY DEF StartService, StopService, Kill, Signal, Disable, WaitForStop, Unmask, scm,
         TypeOK, ScmTypeOK
<1> QED
  BY <1>3, <1>6, <1>7, <1>8, <1>9, FilesStay, NothingEnabled DEF EnableInv

LEMMA InvokeComplete ==
  ASSUME TypeOK, TypeOK', EnableInv, Commands \subseteq CarefulCommands,
         NEW n \in Names, NEW c \in Commands, Invoke(c, n)
  PROVE  EnableInv' /\ request.command # "enable"
<1>1. /\ Idle /\ frames' = <<>> /\ c \in Commands \ {"daemonReload"} /\ pool' = active
      /\ UNCHANGED <<library, active, registered, deleting, dependsOn>> /\ request'.command = c
      /\ todo' = [i \in DOMAIN Steps[c] |-> <<Steps[c][i], n>>]
  BY DEF Invoke, files, scm, TypeOK, ClientTypeOK
<1>2. FilesInv'
  BY <1>1 DEF EnableInv, FilesInv
<1>3. StepInv'
  <2>1. CASE c = "enable"
    <3>1. Steps[c] = <<"enable">>
      BY <2>1 DEF Steps
    <3> QED
      BY <1>1, <2>1, <3>1 DEF StepInv
  <2>2. CASE c # "enable"
    <3>1. c # "reload"
      BY DEF CarefulCommands
    <3> DEFINE t == [i \in DOMAIN Steps[c] |-> <<Steps[c][i], n>>]
    <3>2. c \in Commands \ {"daemonReload"}
      BY <1>1
    <3>3. \A i \in DOMAIN t : /\ t[i][2] = n
                              /\ t[i][1] = "enable" => c \in {"enable", "reload"}
      <4> SUFFICES ASSUME NEW i \in DOMAIN t
                   PROVE  t[i][2] = n /\ (t[i][1] = "enable" => c \in {"enable", "reload"})
        OBVIOUS
      <4>1. i \in DOMAIN Steps[c] /\ t[i] = <<Steps[c][i], n>>
        OBVIOUS
      <4>2. t[i][1] = Steps[c][i] /\ t[i][2] = n
        BY <4>1
      <4>3. Steps[c][i] = "enable" => c \in {"enable", "reload"}
        BY <3>2, <4>1, StepsOf
      <4> QED
        BY <4>2, <4>3
    <3>4. todo' = t
      BY <1>1
    <3> HIDE DEF t
    <3> QED
      BY <1>1, <2>2, <3>1, <3>3, <3>4 DEF StepInv
  <2> QED
    BY <2>1, <2>2
<1>4. ServicesInv'
  <2>1. \A m \in registered : active[m] # NoFile /\ m \in Names
    BY DEF EnableInv, FilesInv, TypeOK, ScmTypeOK
  <2>2. \A m \in deleting : m \in registered
    BY DEF TypeOK, ScmTypeOK
  <2>3. \A m \in registered : \A k \in dependsOn[m] \cup active[m].requires : active[k] # NoFile
    BY DEF EnableInv, FilesInv
  <2> QED
    BY <1>1, <2>1, <2>2, <2>3 DEF ServicesInv, Provided
<1>5. CallsInv'
  BY <1>1 DEF CallsInv
<1> QED
  BY <1>1, <1>2, <1>3, <1>4, <1>5 DEF EnableInv, Idle

(* What happens by itself: no service that an enable relies upon goes away. *)
LEMMA SurroundingsComplete ==
  ASSUME TypeOK, TypeOK', EnableInv,
         \/ \E n \in Names : ServiceStep(n)
         \/ EditLibrary \/ ClientDies \/ Reboot \/ UNCHANGED vars
  PROVE  EnableInv' /\ (request.command = "enable" => request' # Free)
<1>1. Fills
  BY DEF Fills, ServiceStep, EditLibrary, ClientDies, Reboot, vars, files
<1>2. /\ registered' \subseteq registered /\ \A m \in registered' : dependsOn'[m] = dependsOn[m]
      /\ deleting' \subseteq deleting
      /\ UNCHANGED client => \A m \in registered \ registered' : m \in deleting \/ Idle
  <2>1. ASSUME NEW n \in Names, NEW s, Settle(n, s)
        PROVE  /\ registered' \subseteq registered /\ \A m \in registered' : dependsOn'[m] = dependsOn[m]
               /\ deleting' \subseteq deleting
               /\ \A m \in registered \ registered' : m \in deleting
    BY <2>1 DEF Settle, TypeOK, ScmTypeOK
  <2>2. CASE Reboot
    BY <2>2 DEF Reboot, TypeOK, ScmTypeOK
  <2>3. CASE UNCHANGED <<registered, deleting, dependsOn>>
    BY <2>3
  <2> QED
    BY <2>1, <2>2, <2>3 DEF ServiceStep, EditLibrary, ClientDies, vars, scm
<1>3. FilesInv'
  BY <1>1, <1>2, FilesStay DEF EnableInv
<1>4. \/ Die
      \/ UNCHANGED <<request, pool, todo, frames>> /\ (library' = library \/ Idle)
  BY DEF ServiceStep, EditLibrary, ClientDies, Reboot, vars, files, client
<1>5. CASE Idle'
  BY <1>3, <1>4, <1>5, IdleEnables DEF EnableInv, Die, Free, Idle
<1>6. CASE ~Idle'
  <2>1. UNCHANGED <<request, pool, todo, frames, library>> /\ ~Idle
    BY <1>4, <1>6 DEF Die, Idle
  <2>2. StepInv'
    BY <2>1 DEF EnableInv, StepInv
  <2>3. CASE request.command # "enable"
    <3>1. frames = <<>>
      BY <2>3 DEF EnableInv, StepInv
    <3> QED
      BY <1>3, <2>1, <2>2, <2>3, <3>1 DEF EnableInv, ServicesInv, CallsInv
  <2>4. CASE request.command = "enable"
    <3>1. Keeps
      BY <1>1, <1>2, <2>1, <2>4 DEF Keeps, Provided, EnableInv, ServicesInv, client
    <3>2. ServicesInv'
      BY <1>2, <2>4, <3>1, ServicesStay DEF EnableInv
    <3>3. CallsInv'
      <4>1. \A i \in DOMAIN frames' : i \in DOMAIN frames /\ Inner(i)' = Inner(i)
        BY <2>1 DEF Inner
      <4> QED
        BY <2>1, <3>1, <4>1, CallsWere, DoneStays, CallsAre DEF EnableInv
    <3> QED
      BY <1>3, <2>1, <2>2, <2>4, <3>2, <3>3 DEF EnableInv, Free
  <2> QED
    BY <2>3, <2>4
<1> QED
  BY <1>5, <1>6

(* Every step keeps the invariant, and the step that ends an enable leaves  *)
(* complete what it registered.                                             *)
LEMMA StepComplete ==
  ASSUME TypeOK, TypeOK', ReadInv, CarefulInv, EnableInv, Commands \subseteq CarefulCommands,
         [Next]_vars
  PROVE  EnableInv' /\ (request.command = "enable" /\ request' = Free => LeavesComplete)
<1>1. ASSUME NEW n \in Names, NEW c \in Commands, Invoke(c, n)
      PROVE  EnableInv' /\ request.command # "enable"
  BY <1>1, InvokeComplete
<1>2. ~InvokeDaemonReload
  BY DEF InvokeDaemonReload, CarefulCommands
<1>3. /\ \A n \in Names : ~Mask(n) /\ ~Refresh(n) /\ ~RegisterUnit(n) /\ ~RegisterNull(n)
      /\ ~ReadLibrary
  BY AtStepFinds DEF CarefulInv, TodoInv, Mask, Refresh, RegisterUnit, RegisterNull, ReadLibrary
<1>4. ASSUME NEW n \in Names,
             \/ StartService(n) \/ StopService(n) \/ Kill(n) \/ Signal(n)
             \/ Disable(n) \/ WaitForStop(n) \/ Unmask(n)
      PROVE  EnableInv' /\ request.command # "enable"
  BY <1>4, CommandStepsComplete
<1>5. CASE (\E n \in Names : EnableUnit(n)) \/ Enable
  BY <1>5, EnableComplete
<1>6. CASE \/ \E n \in Names : ServiceStep(n)
           \/ EditLibrary \/ ClientDies \/ Reboot \/ UNCHANGED vars
  BY <1>6, SurroundingsComplete
<1> QED
  BY <1>1, <1>2, <1>3, <1>4, <1>5, <1>6 DEF Next, ClientStep

(* With enable, disable, start, stop, restart, kill and unmask, interrupted *)
(* or not: the files that registered services need stay in the active       *)
(* directory, and every call of Enable has dealt with the units that its    *)
(* phase lies behind.                                                       *)
THEOREM EnableInductive ==
  ASSUME Commands \subseteq CarefulCommands
  PROVE  Spec => []CompleteInv
<1>1. Init => EnableInv
  BY DEF Init, Free, EnableInv, FilesInv, StepInv, ServicesInv, CallsInv
<1>2. TypeOK /\ TypeOK' /\ ReadInv /\ CarefulInv /\ EnableInv /\ [Next]_vars => EnableInv'
  BY StepComplete
<1>3. Spec => [](TypeOK /\ ReadInv)
  BY TypeAndRead
<1>4. Spec => []CarefulInv
  BY CarefulCommandsKeep
<1>5. CompleteInv <=> CarefulInv /\ EnableInv
  BY DEF CompleteInv
<1> QED
  BY <1>1, <1>2, <1>3, <1>4, <1>5, PTL DEF Spec

(* The units that n requires, directly or through others, are within every  *)
(* set that has n and, with a unit, all that the unit requires.             *)
LEMMA RequiredWithin ==
  ASSUME NEW n \in Names, NEW unitFiles, NEW S \in SUBSET Names, n \in S,
         \A k \in S : unitFiles[k] # NoFile => unitFiles[k].requires \subseteq S
  PROVE  Required(n, unitFiles) \subseteq S
  BY DEF Required

(* However deep its recursion goes and in whatever order it takes the       *)
(* units: with careful commands, an enable that registers its unit leaves   *)
(* every unit registered that it requires, directly or through others,      *)
(* provided that each unit in the pool was registered before its last step. *)
THEOREM EnableCompletes ==
  ASSUME Commands \subseteq CarefulCommands
  PROVE  Spec => EnableKeepsComplete
<1> DEFINE Completes ==
      \A n \in Names :
        /\ Ends("enable", n) /\ n \in registered'
        /\ \A m \in Names : pool[m] # NoFile => m \in registered
        => Required(n, active') \subseteq registered'
<1>1. ASSUME TypeOK, TypeOK', ReadInv, CarefulInv, EnableInv, [Next]_vars
      PROVE  [Completes]_vars
  <2>1. SUFFICES ASSUME NEW n \in Names, Ends("enable", n), n \in registered',
                        \A m \in Names : pool[m] # NoFile => m \in registered
                 PROVE  Required(n, active') \subseteq registered'
    OBVIOUS
  <2>2. LeavesComplete
    BY <1>1, <2>1, StepComplete DEF Ends
  <2>3. registered' \in SUBSET Names
    BY <1>1 DEF TypeOK, ScmTypeOK
  <2>4. ASSUME NEW k \in registered', active'[k] # NoFile
        PROVE  active'[k].requires \subseteq registered'
    <3>1. active'[k].requires \subseteq Names
      BY <1>1, <2>3, <2>4, EditionTypes DEF TypeOK, FileTypeOK
    <3> QED
      BY <2>1, <2>2, <2>4, <3>1 DEF LeavesComplete
  <2> QED
    BY <2>1, <2>3, <2>4, RequiredWithin
<1>2. Spec => [](TypeOK /\ ReadInv)
  BY TypeAndRead
<1>3. Spec => []CompleteInv
  BY EnableInductive
<1>4. CompleteInv => CarefulInv /\ EnableInv
  BY DEF CompleteInv
<1>5. Spec => [][Completes]_vars
  <2> HIDE DEF Completes
  <2> QED
    BY <1>1, <1>2, <1>3, <1>4, PTL DEF Spec
<1> QED
  BY <1>5 DEF EnableKeepsComplete
=============================================================================
