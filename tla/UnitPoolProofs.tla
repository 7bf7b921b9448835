--------------------------- MODULE UnitPoolProofs ---------------------------
(***************************************************************************)
(* Proofs about UnitPool, for all names, libraries, commands and bounds.   *)
(***************************************************************************)
EXTENDS UnitPool, SequenceTheorems, TLAPS

Calls == StepNames \X (Names \cup {NoUnit})

(* Removing and replacing the head of a sequence. *)
LEMMA TailOf ==
  ASSUME NEW S, NEW s \in Seq(S), s # <<>>
  PROVE  /\ Head(s) = s[1] /\ Head(s) \in S /\ Len(s) \in Nat \ {0}
         /\ Tail(s) \in Seq(S) /\ DOMAIN s = 1..Len(s)
         /\ DOMAIN Tail(s) = 1..(Len(s) - 1)
         /\ \A i \in DOMAIN Tail(s) : Tail(s)[i] = s[i + 1] /\ i + 1 \in DOMAIN s
  BY HeadTailProperties, LenProperties, EmptySeq

LEMMA PrefixedBy ==
  ASSUME NEW S, NEW e \in S, NEW s \in Seq(S)
  PROVE  LET t == <<e>> \o s IN
         /\ t \in Seq(S) /\ t # <<>> /\ Len(t) = Len(s) + 1 /\ DOMAIN t = 1..Len(t)
         /\ t[1] = e
         /\ \A i \in DOMAIN t : t[i] = e \/ (i > 1 /\ i - 1 \in DOMAIN s /\ t[i] = s[i - 1])
<1> DEFINE t == <<e>> \o s
<1>1. <<e>> \in Seq(S) /\ Len(<<e>>) = 1 /\ <<e>>[1] = e
  OBVIOUS
<1>2. /\ t \in Seq(S) /\ Len(t) = 1 + Len(s)
      /\ \A i \in 1..(1 + Len(s)) : t[i] = IF i <= 1 THEN <<e>>[i] ELSE s[i - 1]
  BY <1>1, ConcatProperties
<1> QED
  BY <1>1, <1>2, LenProperties, EmptySeq

(* The steps of a command: well typed, at least one, and all for its unit. *)
LEMMA StepsOf ==
  ASSUME NEW c \in Commands \ {"daemonReload"}, NEW n \in Names
  PROVE  LET t == [i \in DOMAIN Steps[c] |-> <<Steps[c][i], n>>] IN
         /\ t \in Seq(Calls) /\ t # <<>>
         /\ \A i \in DOMAIN t :
              /\ t[i][2] = n /\ t[i][1] \in StepNames \ {"refresh", "readLibrary", "register"}
              /\ t[i][1] = "enable" => c \in {"enable", "reload"}
              /\ t[i][1] = "mask" => c \in {"mask", "reload"}
<1> DEFINE s == Steps[c]
           t == [i \in DOMAIN s |-> <<s[i], n>>]
           Plain == StepNames \ {"refresh", "readLibrary", "register"}
<1>1. c \in DOMAIN Steps
  BY ConstantsAssumption
<1>2. /\ s \in Seq(Plain) /\ Len(s) \in 1..5
      /\ \A i \in 1..Len(s) : /\ s[i] = "enable" => c \in {"enable", "reload"}
                              /\ s[i] = "mask" => c \in {"mask", "reload"}
  <2> DEFINE Fits(q) == /\ q \in Seq(Plain) /\ Len(q) \in 1..5
                        /\ \A i \in 1..Len(q) : /\ q[i] = "enable" => c \in {"enable", "reload"}
                                                /\ q[i] = "mask" => c \in {"mask", "reload"}
  <2>1. CASE c = "start"
    <3>1. s = <<"start">>
      BY <2>1 DEF Steps
    <3> QED
      BY <3>1 DEF StepNames
  <2>2. CASE c = "stop"
    <3>1. s = <<"stop">>
      BY <2>2 DEF Steps
    <3> QED
      BY <3>1 DEF StepNames
  <2>3. CASE c = "restart"
    <3>1. s = <<"stop", "waitForStop", "start">>
      BY <2>3 DEF Steps
    <3> QED
      BY <3>1 DEF StepNames
  <2>4. CASE c = "kill"
    <3>1. s = <<"signal">>
      BY <2>4 DEF Steps
    <3> QED
      BY <3>1 DEF StepNames
  <2>5. CASE c = "enable"
    <3>1. s = <<"enable">>
      BY <2>5 DEF Steps
    <3> QED
      BY <2>5, <3>1 DEF StepNames
  <2>6. CASE c = "disable"
    <3>1. s = <<"stop", "kill", "disable">>
      BY <2>6 DEF Steps
    <3> QED
      BY <3>1 DEF StepNames
  <2>7. CASE c = "mask"
    <3>1. s = <<"mask">>
      BY <2>7 DEF Steps
    <3> QED
      BY <2>7, <3>1 DEF StepNames
  <2>8. CASE c = "unmask"
    <3>1. s = <<"unmask">>
      BY <2>8 DEF Steps
    <3> QED
      BY <3>1 DEF StepNames
  <2>9. CASE c = "reload"
    <3>1. s = <<"stop", "disable", "mask", "unmask", "enable">>
      BY <2>9 DEF Steps
    <3> QED
      BY <2>9, <3>1 DEF StepNames
  <2> QED
    BY <1>1, <2>1, <2>2, <2>3, <2>4, <2>5, <2>6, <2>7, <2>8, <2>9 DEF Steps
<1>3. DOMAIN s = 1..Len(s) /\ \A i \in 1..Len(s) : s[i] \in Plain
  BY <1>2
<1> HIDE DEF s
<1>4. t = [i \in 1..Len(s) |-> <<s[i], n>>] /\ \A i \in 1..Len(s) : <<s[i], n>> \in Calls
  BY <1>3 DEF Calls
<1>5. t \in Seq(Calls) /\ Len(t) = Len(s)
  BY <1>2, <1>4
<1>6. t # <<>>
  <2> HIDE DEF t
  <2>1. Len(t) # 0 /\ Len(<<>>) = 0
    BY <1>2, <1>5
  <2> QED
    BY <2>1
<1> QED
  BY <1>2, <1>3, <1>4, <1>5, <1>6 DEF s

(* The steps of daemon-reload before the units are refreshed. *)
LEMMA ReloadSteps ==
  LET t == AllOf("refresh", Order) \o << <<"readLibrary", NoUnit>> >> \o AllOf("register", Order) IN
  /\ t \in Seq(Calls) /\ t # <<>>
  /\ \A i \in DOMAIN t : t[i][1] \in {"refresh", "readLibrary", "register"}
<1> DEFINE Kinds == {"refresh", "readLibrary", "register"} \X (Names \cup {NoUnit})
           x == AllOf("refresh", Order)
           y == << <<"readLibrary", NoUnit>> >>
           z == AllOf("register", Order)
<1>1. Order \in Seq(Names)
  BY ConstantsAssumption
<1>2. x \in Seq(Kinds) /\ y \in Seq(Kinds) /\ z \in Seq(Kinds) /\ Len(y) = 1
  BY <1>1 DEF AllOf
<1>3. x \o y \in Seq(Kinds) /\ Len(x \o y) = Len(x) + 1
  BY <1>2, ConcatProperties
<1>4. x \o y \o z \in Seq(Kinds) /\ Len(x \o y \o z) = Len(x) + 1 + Len(z)
  BY <1>2, <1>3, ConcatProperties
<1>5. Kinds \subseteq Calls
  BY DEF Calls, StepNames
<1> DEFINE t == x \o y \o z
<1>6. t \in Seq(Calls) /\ Len(t) # 0
  BY <1>2, <1>4, <1>5, SeqMonotonic, LenProperties
<1>7. \A i \in DOMAIN t : t[i] \in Kinds
  BY <1>4, LenProperties, ElementOfSeq
<1> QED
  BY <1>6, <1>7

LEMMA EditionTypes ==
  /\ Editions \subseteq [Names -> Definitions \cup {NoFile}]
  /\ NoPool \in [Names -> Definitions \cup {NoFile}]
  /\ \A d \in Definitions : d.requires \cup d.wants \cup d.mentions \subseteq Names
  BY ConstantsAssumption DEF NoPool

(* The state of the client after a step that ends its process, and after a  *)
(* step that leaves it with other steps to do.                              *)
LEMMA DieKeeps ==
  ASSUME Die
  PROVE  ClientTypeOK' /\ ReadInv' /\ pool' = NoPool
  BY DEF Die, ClientTypeOK, ReadInv, Requests, Idle

LEMMA GoOnKeeps ==
  ASSUME TypeOK, ReadInv, ~Idle, NEW rest \in Seq(Calls), GoOn(rest), frames' = <<>>,
         library' = library,
         \A i \in DOMAIN rest : \/ rest[i][1] \notin {"enable", "readLibrary"}
                                \/ \E j \in DOMAIN todo : rest[i] = todo[j]
  PROVE  ClientTypeOK' /\ ReadInv' /\ pool' \in {pool, NoPool}
<1>1. CASE rest = <<>>
  BY <1>1 DEF GoOn, GoOnWith, Free, ClientTypeOK, ReadInv, Requests, Idle
<1>2. CASE rest # <<>>
  <2>1. todo' = rest /\ request' = request /\ pool' = pool /\ Readable(Names)' = Readable(Names)
    BY <1>2 DEF GoOn, GoOnWith, Readable, Read
  <2>2. ClientTypeOK'
    BY <1>2, <2>1 DEF TypeOK, ClientTypeOK, Idle, Calls
  <2>3. ReadInv'
    BY <2>1 DEF ReadInv
  <2> QED
    BY <2>1, <2>2, <2>3
<1> QED
  BY <1>1, <1>2

(* In particular after a step that is done with its call. *)
LEMMA TailKeeps ==
  ASSUME TypeOK, ReadInv, ~Idle, GoOn(Tail(todo)), frames' = <<>>, library' = library
  PROVE  ClientTypeOK' /\ ReadInv' /\ pool' \in {pool, NoPool}
<1>1. todo \in Seq(Calls) /\ todo # <<>>
  BY DEF TypeOK, ClientTypeOK, Calls
<1>2. /\ Tail(todo) \in Seq(Calls)
      /\ \A i \in DOMAIN Tail(todo) : i + 1 \in DOMAIN todo /\ Tail(todo)[i] = todo[i + 1]
  BY <1>1, TailOf
<1> QED
  BY <1>2, GoOnKeeps

(* What a step of the command finds. *)
LEMMA AtStepFinds ==
  ASSUME TypeOK, NEW step, NEW n, AtStep(step, n)
  PROVE  /\ ~Idle /\ frames = <<>> /\ todo \in Seq(Calls) /\ todo # <<>>
         /\ 1 \in DOMAIN todo /\ todo[1] = <<step, n>> /\ todo[1][1] = step /\ todo[1][2] = n
<1>1. todo \in Seq(Calls) /\ todo # <<>> /\ Head(todo) = <<step, n>> /\ frames = <<>> /\ ~Idle
  BY DEF AtStep, TypeOK, ClientTypeOK, Calls
<1> QED
  BY <1>1, TailOf

(* Replacing the innermost call of Enable. *)
LEMMA WithTopOf ==
  ASSUME NEW S, NEW e \in S, NEW s \in Seq(S), s # <<>>
  PROVE  LET t == WithTop(e, s) IN
         /\ t \in Seq(S) /\ t # <<>> /\ Len(t) = Len(s) /\ DOMAIN t = DOMAIN s /\ t[1] = e
         /\ \A i \in DOMAIN t : t[i] = e \/ (i > 1 /\ t[i] = s[i])
<1> DEFINE r == Tail(s)
           t == <<e>> \o r
<1>1. /\ r \in Seq(S) /\ DOMAIN s = 1..Len(s) /\ Len(s) \in Nat \ {0}
      /\ Len(r) = Len(s) - 1 /\ DOMAIN r = 1..(Len(s) - 1)
      /\ \A i \in DOMAIN r : r[i] = s[i + 1]
  BY TailOf, HeadTailProperties
<1>2. /\ t \in Seq(S) /\ t # <<>> /\ Len(t) = Len(r) + 1 /\ DOMAIN t = 1..Len(t) /\ t[1] = e
      /\ \A i \in DOMAIN t : t[i] = e \/ (i > 1 /\ i - 1 \in DOMAIN r /\ t[i] = r[i - 1])
  BY <1>1, PrefixedBy
<1> QED
  BY <1>1, <1>2 DEF WithTop

LEMMA WithinFinds ==
  ASSUME TypeOK, NEW p, Within(p)
  PROVE  /\ ~Idle /\ frames \in Seq(Frames) /\ frames # <<>> /\ Top \in Frames
         /\ 1 \in DOMAIN frames /\ DOMAIN frames = 1..Len(frames) /\ Len(frames) \in Nat \ {0}
         /\ Top.phase = p /\ todo \in Seq(Calls) /\ todo # <<>>
<1>1. frames # <<>> /\ frames \in Seq(Frames) /\ Top.phase = p /\ ~Idle
  BY DEF Within, TypeOK, ClientTypeOK
<1>2. todo \in Seq(Calls) /\ todo # <<>>
  BY <1>1 DEF TypeOK, ClientTypeOK, Calls
<1> QED
  BY <1>1, <1>2, TailOf DEF Top

LEMMA TurnKeeps ==
  ASSUME TypeOK, ReadInv, NEW p, Within(p), NEW phase \in Phases, NEW left \in SUBSET Names,
         phase = "wants" => left \subseteq Readable(Names),
         Turn(phase, left), UNCHANGED <<library, request, pool, todo>>
  PROVE  ClientTypeOK' /\ ReadInv'
<1> DEFINE e == [Top EXCEPT !.phase = phase, !.left = left]
<1>1. e \in Frames /\ e.phase = phase /\ e.left = left
  BY WithinFinds DEF Frames
<1>2. /\ frames' \in Seq(Frames) /\ frames' # <<>> /\ DOMAIN frames' = DOMAIN frames
      /\ \A i \in DOMAIN frames' : frames'[i] = e \/ frames'[i] = frames[i]
  BY <1>1, WithinFinds, WithTopOf DEF Turn
<1>3. Readable(Names)' = Readable(Names) /\ Idle' = Idle /\ ~Idle
  BY WithinFinds DEF Readable, Read, Idle
<1>4. ClientTypeOK'
  BY <1>2, <1>3 DEF TypeOK, ClientTypeOK
<1>5. ReadInv'
  BY <1>1, <1>2, <1>3 DEF ReadInv
<1> QED
  BY <1>4, <1>5

LEMMA RecurseKeeps ==
  ASSUME TypeOK, ReadInv, NEW p, Within(p), NEW m \in Top.left, Read(m) # NoFile,
         Recurse(m), library' = library
  PROVE  ClientTypeOK' /\ ReadInv' /\ pool' \in {pool, NoPool}
<1>1. CASE Len(frames) = MaxDepth
  BY <1>1, DieKeeps DEF Recurse
<1>2. CASE Len(frames) # MaxDepth
  <2> DEFINE e == [Top EXCEPT !.left = @ \ {m}]
             f == Frame(m, Read(m))
  <2>1. e \in Frames /\ e.phase = Top.phase /\ e.left \subseteq Top.left
    BY WithinFinds DEF Frames
  <2>2. f \in Frames /\ f.phase = "copy"
    <3>1. m \in Names
      BY WithinFinds DEF Frames
    <3>2. Read(m) \in Definitions
      BY <3>1, EditionTypes DEF Read, TypeOK, FileTypeOK
    <3> QED
      BY <3>1, <3>2 DEF Frame, Frames, Phases
  <2> HIDE DEF e, f
  <2>3. /\ frames' = <<f>> \o WithTop(e, frames)
        /\ UNCHANGED <<library, request, pool, todo>>
    BY <1>2 DEF Recurse, e, f
  <2>4. /\ WithTop(e, frames) \in Seq(Frames)
        /\ \A i \in DOMAIN WithTop(e, frames) : i \in DOMAIN frames /\
             (WithTop(e, frames)[i] = e \/ WithTop(e, frames)[i] = frames[i])
    BY <2>1, WithinFinds, WithTopOf
  <2>5. /\ frames' \in Seq(Frames)
        /\ \A i \in DOMAIN frames' : \/ frames'[i] \in {f, e}
                                     \/ \E j \in DOMAIN frames : frames'[i] = frames[j]
    BY <2>2, <2>3, <2>4, PrefixedBy
  <2>6. Readable(Names)' = Readable(Names) /\ Idle' = Idle /\ ~Idle
    BY <2>3, WithinFinds DEF Readable, Read, Idle
  <2>7. Top.phase = "wants" => Top.left \subseteq Readable(Names)
    BY WithinFinds DEF ReadInv, Top
  <2>8. ClientTypeOK'
    BY <2>3, <2>5, <2>6 DEF TypeOK, ClientTypeOK
  <2>9. ReadInv'
    BY <2>1, <2>2, <2>3, <2>5, <2>6, <2>7 DEF ReadInv
  <2> QED
    BY <2>3, <2>8, <2>9
<1> QED
  BY <1>1, <1>2

LEMMA ReturnKeeps ==
  ASSUME TypeOK, ReadInv, NEW p, Within(p), NEW success, Return(success), library' = library
  PROVE  ClientTypeOK' /\ ReadInv' /\ pool' \in {pool, NoPool}
<1>1. CASE Len(frames) = 1
  BY <1>1, WithinFinds, TailKeeps DEF Return
<1>2. CASE Len(frames) # 1
  <2> DEFINE e == [frames[2] EXCEPT !.phase = "failed"]
             r == Tail(frames)
  <2>1. /\ r \in Seq(Frames) /\ r # <<>> /\ 2 \in DOMAIN frames /\ frames[2] \in Frames
        /\ \A i \in DOMAIN r : i + 1 \in DOMAIN frames /\ r[i] = frames[i + 1]
    <3>1. /\ r \in Seq(Frames) /\ Len(r) = Len(frames) - 1 /\ Len(frames) \in Nat \ {0}
          /\ \A i \in DOMAIN r : i + 1 \in DOMAIN frames /\ r[i] = frames[i + 1]
      BY WithinFinds, TailOf, HeadTailProperties
    <3>2. Len(r) # 0 /\ 2 \in 1..Len(frames)
      BY <1>2, <3>1
    <3>3. r # <<>>
      BY <3>2, EmptySeq
    <3>4. 2 \in DOMAIN frames /\ frames[2] \in Frames
      BY <3>2, WithinFinds, ElementOfSeq
    <3> QED
      BY <3>1, <3>3, <3>4
  <2>2. e \in Frames /\ e.phase = "failed"
    BY <2>1 DEF Frames, Phases
  <2>3. UNCHANGED <<library, request, pool, todo>>
    BY <1>2 DEF Return
  <2>4. frames' \in {r, WithTop(e, r)}
    BY <1>2 DEF Return
  <2> HIDE DEF e, r
  <2>5. /\ frames' \in Seq(Frames)
        /\ \A i \in DOMAIN frames' : \/ frames'[i] = e
                                     \/ \E j \in DOMAIN frames : frames'[i] = frames[j]
    <3>1. CASE frames' = r
      BY <2>1, <3>1
    <3>2. CASE frames' = WithTop(e, r)
      BY <2>1, <2>2, <3>2, WithTopOf
    <3> QED
      BY <2>4, <3>1, <3>2
  <2>6. Readable(Names)' = Readable(Names) /\ Idle' = Idle /\ ~Idle
    BY <2>3, WithinFinds DEF Readable, Read, Idle
  <2>7. ClientTypeOK'
    BY <2>3, <2>5, <2>6 DEF TypeOK, ClientTypeOK
  <2>8. ReadInv'
    BY <2>2, <2>3, <2>5, <2>6 DEF ReadInv
  <2> QED
    BY <2>3, <2>7, <2>8
<1> QED
  BY <1>1, <1>2

(* The files that a step may leave in the active directory. *)
LEMMA CopiedType ==
  ASSUME TypeOK, NEW n \in Names
  PROVE  /\ Copied(n) \in [Names -> Definitions \cup {NoFile}]
         /\ \A m \in Names : Copied(n)[m] = active[m]
                              \/ (m = n /\ active[n] = NoFile /\ Copied(n)[m] = library[n])
  BY EditionTypes DEF Copied, TypeOK, FileTypeOK

(* The SCM keeps its type when a service is created. *)
LEMMA CreateServiceKeeps ==
  ASSUME TypeOK, NEW n \in Names, NEW d \in SUBSET Names, CreateService(n, d)
  PROVE  ScmTypeOK'
  BY DEF TypeOK, ScmTypeOK, CreateService, scm

(* The steps that only change the state of services. *)
LEMMA StateStepType ==
  ASSUME TypeOK, ReadInv, NEW n \in Names,
         StartService(n) \/ StopService(n) \/ Kill(n) \/ Signal(n)
  PROVE  TypeOK' /\ ReadInv'
<1>1. /\ GoOn(Tail(todo)) /\ ~Idle /\ frames' = <<>>
      /\ UNCHANGED <<library, active, registered, deleting, dependsOn>>
  BY AtStepFinds DEF StartService, StopService, Kill, Signal, files
<1>2. ClientTypeOK' /\ ReadInv' /\ pool' \in {pool, NoPool}
  BY <1>1, TailKeeps
<1>3. FileTypeOK'
  BY <1>1, <1>2, EditionTypes DEF TypeOK, FileTypeOK
<1>4. ScmTypeOK'
  <2> USE DEF TypeOK, ScmTypeOK, States
  <2>1. CASE StartService(n)
    <3>1. n \in Needs({n})
      BY DEF Needs
    <3>2. \A m \in Needs({n}) : CanRun(m) => m \in registered
      BY DEF CanRun
    <3> QED
      BY <1>1, <2>1, <3>1, <3>2 DEF StartService
  <2>2. CASE StopService(n)
    BY <1>1, <2>2 DEF StopService
  <2>3. CASE Kill(n) \/ Signal(n)
    <3>1. state' \in {state, Terminated(n)}
      BY <2>3 DEF Kill, Signal
    <3> QED
      BY <1>1, <3>1 DEF Terminated
  <2> QED
    BY <2>1, <2>2, <2>3
<1> QED
  BY <1>2, <1>3, <1>4 DEF TypeOK

(* The steps that change files. *)
LEMMA FileStepType ==
  ASSUME TypeOK, ReadInv, NEW n \in Names, Mask(n) \/ Unmask(n)
  PROVE  TypeOK' /\ ReadInv'
<1>1. GoOn(Tail(todo)) /\ ~Idle /\ frames' = <<>> /\ library' = library /\ UNCHANGED scm
  BY AtStepFinds DEF Mask, Unmask
<1>2. ClientTypeOK' /\ ReadInv' /\ pool' \in {pool, NoPool}
  BY <1>1, TailKeeps
<1>3. active' \in [Names -> Definitions \cup {NoFile}]
  BY CopiedType DEF Mask, Unmask, TypeOK, FileTypeOK
<1>4. FileTypeOK' /\ ScmTypeOK'
  BY <1>1, <1>2, <1>3, EditionTypes DEF TypeOK, FileTypeOK, ScmTypeOK, scm
<1> QED
  BY <1>2, <1>4 DEF TypeOK

(* The steps that begin a command. *)
LEMMA InvokeType ==
  ASSUME TypeOK, ReadInv, NEW n \in Names, NEW c \in Commands, Invoke(c, n)
  PROVE  TypeOK' /\ ReadInv'
<1>1. Idle /\ frames = <<>> /\ frames' = frames /\ pool' = active /\ UNCHANGED <<files, scm>>
  BY DEF Invoke, TypeOK, ClientTypeOK
<1>2. FileTypeOK' /\ ScmTypeOK'
  BY <1>1 DEF TypeOK, FileTypeOK, ScmTypeOK, files, scm
<1>3. /\ todo' \in Seq(Calls) /\ todo' # <<>>
      /\ \A i \in DOMAIN todo' :
           /\ todo'[i][2] = n /\ todo'[i][1] \in StepNames \ {"refresh", "readLibrary", "register"}
           /\ todo'[i][1] = "enable" => c \in {"enable", "reload"}
  BY StepsOf DEF Invoke
<1>4. request' = [command |-> c, unit |-> n] /\ c \in DOMAIN Steps
  BY ConstantsAssumption DEF Invoke
<1>5. ClientTypeOK'
  BY <1>1, <1>3, <1>4 DEF ClientTypeOK, Calls, Requests, Idle, Steps
<1>6. n \in Readable(Names)'
  BY <1>1 DEF Invoke, Readable, Read, files
<1> QED
  BY <1>1, <1>2, <1>3, <1>4, <1>5, <1>6 DEF TypeOK, ReadInv, Steps

LEMMA DaemonReloadType ==
  ASSUME TypeOK, ReadInv, InvokeDaemonReload
  PROVE  TypeOK' /\ ReadInv'
<1>1. Idle /\ frames = <<>> /\ frames' = frames /\ pool' = active /\ UNCHANGED <<files, scm>>
  BY DEF InvokeDaemonReload, TypeOK, ClientTypeOK
<1>2. FileTypeOK' /\ ScmTypeOK'
  BY <1>1 DEF TypeOK, FileTypeOK, ScmTypeOK, files, scm
<1>3. /\ todo' \in Seq(Calls) /\ todo' # <<>>
      /\ \A i \in DOMAIN todo' : todo'[i][1] \in {"refresh", "readLibrary", "register"}
  BY ReloadSteps DEF InvokeDaemonReload
<1>4. request' = [command |-> "daemonReload", unit |-> NoUnit] /\ "daemonReload" \in Commands
  BY DEF InvokeDaemonReload
<1>5. ClientTypeOK'
  BY <1>1, <1>3, <1>4 DEF ClientTypeOK, Calls, Requests, Idle
<1> QED
  BY <1>1, <1>2, <1>3, <1>4, <1>5 DEF TypeOK, ReadInv

(* The steps of daemon-reload. *)
LEMMA ReloadStepType ==
  ASSUME TypeOK, ReadInv, NEW n \in Names,
         Refresh(n) \/ RegisterUnit(n) \/ RegisterNull(n)
  PROVE  TypeOK' /\ ReadInv'
<1>1. CASE Refresh(n)
  <2> DEFINE down == IF library[n] # NoFile /\ active[n] \notin {library[n], NoFile}
                     THEN << <<"stop", n>>, <<"disable", n>>, <<"mask", n>>, <<"unmask", n>> >>
                     ELSE <<>>
  <2>1. GoOn(down \o Tail(todo)) /\ frames' = <<>> /\ ~Idle /\ UNCHANGED <<files, scm>>
    BY <1>1, AtStepFinds DEF Refresh
  <2>2. /\ down \in Seq(Calls)
        /\ \A i \in 1..Len(down) : down[i][1] \notin {"enable", "readLibrary"}
    <3>1. CASE down = <<>>
      BY <3>1
    <3>2. CASE down = << <<"stop", n>>, <<"disable", n>>, <<"mask", n>>, <<"unmask", n>> >>
      <4> DEFINE Plain == (StepNames \ {"enable", "readLibrary"}) \X {n}
      <4>1. /\ <<"stop", n>> \in Plain /\ <<"disable", n>> \in Plain
            /\ <<"mask", n>> \in Plain /\ <<"unmask", n>> \in Plain
        BY DEF StepNames
      <4>2. Plain \subseteq Calls /\ \A x \in Plain : x[1] \notin {"enable", "readLibrary"}
        BY DEF Calls
      <4> HIDE DEF Plain, down
      <4>3. down \in Seq(Plain)
        BY <3>2, <4>1
      <4> QED
        BY <4>2, <4>3, SeqMonotonic, LenProperties, ElementOfSeq
    <3> QED
      BY <3>1, <3>2
  <2>3. /\ Tail(todo) \in Seq(Calls)
        /\ \A i \in DOMAIN Tail(todo) : i + 1 \in DOMAIN todo /\ Tail(todo)[i] = todo[i + 1]
    BY <1>1, AtStepFinds, TailOf DEF Refresh
  <2> HIDE DEF down
  <2> DEFINE rest == down \o Tail(todo)
  <2>4. /\ rest \in Seq(Calls)
        /\ \A i \in DOMAIN rest :
             rest[i] = IF i <= Len(down) THEN down[i] ELSE Tail(todo)[i - Len(down)]
        /\ \A i \in DOMAIN rest : i \in Nat \ {0} /\ Len(down) \in Nat
             /\ (i > Len(down) => i - Len(down) \in DOMAIN Tail(todo))
    <3>1. /\ rest \in Seq(Calls) /\ Len(rest) = Len(down) + Len(Tail(todo))
          /\ \A i \in 1 .. Len(down) + Len(Tail(todo)) :
               rest[i] = IF i <= Len(down) THEN down[i] ELSE Tail(todo)[i - Len(down)]
      BY <2>2, <2>3, ConcatProperties
    <3>2. /\ DOMAIN rest = 1..Len(rest) /\ DOMAIN Tail(todo) = 1..Len(Tail(todo))
          /\ Len(down) \in Nat /\ Len(Tail(todo)) \in Nat
      BY <2>2, <2>3, <3>1, LenProperties
    <3> QED
      BY <3>1, <3>2
  <2>5. \A i \in DOMAIN rest : \/ rest[i][1] \notin {"enable", "readLibrary"}
                               \/ \E j \in DOMAIN todo : rest[i] = todo[j]
    BY <2>2, <2>3, <2>4
  <2>6. ClientTypeOK' /\ ReadInv' /\ pool' \in {pool, NoPool}
    BY <2>1, <2>4, <2>5, GoOnKeeps DEF files
  <2>7. FileTypeOK' /\ ScmTypeOK'
    BY <2>1, <2>6, EditionTypes DEF TypeOK, FileTypeOK, ScmTypeOK, files, scm
  <2> QED
    BY <2>6, <2>7 DEF TypeOK
<1>2. CASE RegisterUnit(n)
  <2>1. GoOn(Tail(todo)) /\ ~Idle /\ frames' = <<>> /\ UNCHANGED files
    BY <1>2, AtStepFinds DEF RegisterUnit
  <2>2. ClientTypeOK' /\ ReadInv' /\ pool' \in {pool, NoPool}
    BY <2>1, TailKeeps DEF files
  <2>3. ScmTypeOK'
    <3>1. CASE pool[n] = NoFile
      BY <1>2, <3>1 DEF RegisterUnit, TypeOK, ScmTypeOK, scm
    <3>2. CASE pool[n] # NoFile
      <4>1. {m \in pool[n].requires \cup pool[n].wants : pool[m] # NoFile} \in SUBSET Names
        BY <3>2, EditionTypes DEF TypeOK, FileTypeOK
      <4> QED
        BY <1>2, <3>2, <4>1, CreateServiceKeeps DEF RegisterUnit
    <3> QED
      BY <3>1, <3>2
  <2>4. FileTypeOK'
    BY <2>1, <2>2, EditionTypes DEF TypeOK, FileTypeOK, files
  <2> QED
    BY <2>2, <2>3, <2>4 DEF TypeOK
<1>3. CASE RegisterNull(n)
  BY <1>3, DieKeeps, EditionTypes DEF RegisterNull, TypeOK, FileTypeOK, ScmTypeOK, files, scm
<1> QED
  BY <1>1, <1>2, <1>3

LEMMA ReadLibraryType ==
  ASSUME TypeOK, ReadInv, ReadLibrary
  PROVE  TypeOK' /\ ReadInv'
<1> DEFINE rest == Tail(todo)
<1>1. /\ GoOnWith(rest, library) /\ ~Idle /\ frames = <<>> /\ frames' = <<>>
      /\ UNCHANGED <<files, scm>> /\ 1 \in DOMAIN todo /\ todo[1][1] = "readLibrary"
  BY AtStepFinds DEF ReadLibrary
<1>2. /\ rest \in Seq(Calls)
      /\ \A i \in DOMAIN rest : i + 1 \in DOMAIN todo /\ rest[i] = todo[i + 1]
  BY AtStepFinds, TailOf DEF ReadLibrary
<1>3. request.command = "daemonReload"
  BY <1>1 DEF ReadInv
<1>4. pool' \in {library, NoPool}
  BY <1>1 DEF GoOnWith
<1>5. FileTypeOK' /\ ScmTypeOK'
  BY <1>1, <1>4, EditionTypes DEF TypeOK, FileTypeOK, ScmTypeOK, files, scm
<1>6. CASE rest = <<>>
  BY <1>1, <1>5, <1>6 DEF GoOnWith, Free, TypeOK, ClientTypeOK, ReadInv, Requests, Idle
<1>7. CASE rest # <<>>
  <2>1. todo' = rest /\ request' = request
    BY <1>1, <1>7 DEF GoOnWith
  <2>2. ClientTypeOK'
    BY <1>1, <1>2, <1>7, <2>1 DEF TypeOK, ClientTypeOK, Calls, Idle
  <2>3. ReadInv'
    BY <1>1, <1>2, <1>3, <2>1 DEF ReadInv
  <2> QED
    BY <1>5, <2>2, <2>3 DEF TypeOK
<1> QED
  BY <1>6, <1>7

(* The steps that take a service out of the SCM or wait for it. *)
LEMMA ServiceStepsType ==
  ASSUME TypeOK, ReadInv, NEW n \in Names, Disable(n) \/ WaitForStop(n)
  PROVE  TypeOK' /\ ReadInv'
<1>1. frames' = <<>> /\ ~Idle /\ UNCHANGED files /\ todo \in Seq(Calls) /\ todo # <<>>
  BY AtStepFinds DEF Disable, WaitForStop
<1>2. ClientTypeOK' /\ ReadInv' /\ pool' \in {pool, NoPool}
  <2>1. CASE GoOn(Tail(todo))
    BY <1>1, <2>1, TailKeeps DEF files
  <2>2. CASE GoOn(<<>>)
    <3>1. <<>> \in Seq(Calls) /\ DOMAIN <<>> = {}
      OBVIOUS
    <3> QED
      BY <1>1, <2>2, <3>1, GoOnKeeps DEF files
  <2> QED
    BY <2>1, <2>2 DEF Disable, WaitForStop
<1>3. ScmTypeOK'
  <2>1. CASE UNCHANGED scm
    BY <2>1 DEF TypeOK, ScmTypeOK, scm
  <2>2. CASE /\ registered' = registered \ {n} /\ n \in registered /\ state[n] = "STOPPED"
             /\ dependsOn' = [dependsOn EXCEPT ![n] = {}] /\ UNCHANGED <<deleting, state>>
    BY <2>2 DEF TypeOK, ScmTypeOK
  <2>3. CASE /\ deleting' = deleting \cup {n} /\ n \in registered /\ state[n] # "STOPPED"
             /\ UNCHANGED <<registered, dependsOn, state>>
    BY <2>3 DEF TypeOK, ScmTypeOK
  <2> QED
    BY <2>1, <2>2, <2>3 DEF Disable, WaitForStop
<1>4. FileTypeOK'
  BY <1>1, <1>2, EditionTypes DEF TypeOK, FileTypeOK, files
<1> QED
  BY <1>2, <1>3, <1>4 DEF TypeOK

(* The steps of Enable that change nothing but the calls in progress. *)
LEMMA EnableCallsType ==
  ASSUME TypeOK, ReadInv,
         \/ \E n \in Names : EnableUnit(n)
         \/ EnableRequired \/ EnableRequiredDone
         \/ EnableWanted \/ EnableWantedDone \/ EnableFailed
  PROVE  TypeOK' /\ ReadInv'
<1>1. UNCHANGED <<files, scm>>
  BY DEF EnableUnit, EnableRequired, EnableRequiredDone, EnableWanted, EnableWantedDone,
         EnableFailed
<1>2. ClientTypeOK' /\ ReadInv' /\ pool' \in {pool, NoPool}
  <2>1. ASSUME NEW n \in Names, EnableUnit(n)
        PROVE  ClientTypeOK' /\ ReadInv' /\ pool' \in {pool, NoPool}
    <3>1. ~Idle /\ 1 \in DOMAIN todo /\ todo[1] = <<"enable", n>>
      BY <2>1, AtStepFinds DEF EnableUnit
    <3>2. Read(n) \in Definitions
      BY <3>1, EditionTypes DEF ReadInv, Readable, Read, TypeOK, FileTypeOK
    <3> DEFINE f == Frame(n, Read(n))
    <3>3. f \in Frames /\ f.phase = "copy"
      BY <3>2 DEF Frame, Frames, Phases
    <3> HIDE DEF f
    <3>4. frames' = <<f>> /\ UNCHANGED <<library, request, pool, todo>>
      BY <1>1, <2>1 DEF EnableUnit, f, files
    <3>5. frames' \in Seq(Frames) /\ \A i \in DOMAIN frames' : frames'[i] = f
      BY <3>3, <3>4
    <3>6. Readable(Names)' = Readable(Names) /\ Idle' = Idle
      BY <3>4 DEF Readable, Read, Idle
    <3>7. ClientTypeOK'
      BY <3>1, <3>4, <3>5, <3>6 DEF TypeOK, ClientTypeOK
    <3>8. ReadInv'
      BY <3>3, <3>4, <3>5, <3>6 DEF ReadInv
    <3> QED
      BY <3>4, <3>7, <3>8
  <2>2. CASE EnableRequired
    <3>1. Within("requires") /\ library' = library
      BY <1>1, <2>2 DEF EnableRequired, files
    <3>2. PICK m \in Top.left : IF library[m] = NoFile THEN Return(FALSE) ELSE Recurse(m)
      BY <2>2 DEF EnableRequired
    <3>3. CASE library[m] = NoFile
      BY <3>1, <3>2, <3>3, ReturnKeeps
    <3>4. CASE library[m] # NoFile
      <4>1. Read(m) # NoFile
        BY <3>4 DEF Read
      <4> QED
        BY <3>1, <3>2, <3>4, <4>1, RecurseKeeps
    <3> QED
      BY <3>3, <3>4
  <2>3. CASE EnableRequiredDone
    <3>1. Readable(Top.definition.wants) \subseteq Readable(Names)
      BY <2>3, WithinFinds, EditionTypes DEF EnableRequiredDone, Frames, Readable
    <3>2. Readable(Top.definition.wants) \in SUBSET Names
      BY <3>1 DEF Readable
    <3> QED
      BY <1>1, <2>3, <3>1, <3>2, TurnKeeps DEF EnableRequiredDone, Phases, files
  <2>4. CASE EnableWanted
    <3>1. Within("wants") /\ library' = library
      BY <1>1, <2>4 DEF EnableWanted, files
    <3>2. PICK m \in Top.left : Recurse(m)
      BY <2>4 DEF EnableWanted
    <3>3. Read(m) # NoFile
      BY <3>1, WithinFinds DEF ReadInv, Readable, Top
    <3> QED
      BY <3>1, <3>2, <3>3, RecurseKeeps
  <2>5. CASE EnableWantedDone
    BY <1>1, <2>5, TurnKeeps DEF EnableWantedDone, Phases, files
  <2>6. CASE EnableFailed
    BY <1>1, <2>6, ReturnKeeps DEF EnableFailed, files
  <2> QED
    BY <2>1, <2>2, <2>3, <2>4, <2>5, <2>6
<1>3. FileTypeOK' /\ ScmTypeOK'
  BY <1>1, <1>2, EditionTypes DEF TypeOK, FileTypeOK, ScmTypeOK, files, scm
<1> QED
  BY <1>2, <1>3 DEF TypeOK

(* The steps of Enable that copy the file and register the service. *)
LEMMA EnableEffectsType ==
  ASSUME TypeOK, ReadInv, EnableCopy \/ EnableRegister
  PROVE  TypeOK' /\ ReadInv'
<1>1. CASE EnableCopy
  <2>1. Within("copy") /\ UNCHANGED <<library, scm>>
    BY <1>1 DEF EnableCopy
  <2>2. Top.unit \in Names /\ Top.definition \in Definitions
    BY <2>1, WithinFinds DEF Frames
  <2>3. /\ active' \in {active, Copied(Top.unit)}
        /\ ClientTypeOK' /\ ReadInv' /\ pool' \in {pool, NoPool}
    <3>1. CASE Copied(Top.unit)[Top.unit] = NoFile
      BY <1>1, <2>1, <3>1, ReturnKeeps DEF EnableCopy
    <3>2. CASE Copied(Top.unit)[Top.unit] # NoFile
      <4>1. {m \in Top.definition.requires : pool[m] = NoFile} \in SUBSET Names
        BY <2>2, EditionTypes
      <4> QED
        BY <1>1, <2>1, <3>2, <4>1, TurnKeeps DEF EnableCopy, Phases
    <3> QED
      BY <3>1, <3>2
  <2>4. FileTypeOK'
    BY <2>1, <2>2, <2>3, CopiedType, EditionTypes DEF TypeOK, FileTypeOK
  <2>5. ScmTypeOK'
    BY <2>1 DEF TypeOK, ScmTypeOK, scm
  <2> QED
    BY <2>3, <2>4, <2>5 DEF TypeOK
<1>2. CASE EnableRegister
  <2>1. Within("register") /\ UNCHANGED files /\ Return(TRUE)
    BY <1>2 DEF EnableRegister
  <2>2. ClientTypeOK' /\ ReadInv' /\ pool' \in {pool, NoPool}
    BY <2>1, ReturnKeeps DEF files
  <2>3. Top.unit \in Names /\ Top.definition \in Definitions
    BY <2>1, WithinFinds DEF Frames
  <2>4. Top.definition.requires \cup Readable(Top.definition.wants) \in SUBSET Names
    BY <2>3, EditionTypes DEF Readable
  <2>5. ScmTypeOK'
    BY <1>2, <2>3, <2>4, CreateServiceKeeps DEF EnableRegister
  <2>6. FileTypeOK'
    BY <2>1, <2>2, EditionTypes DEF TypeOK, FileTypeOK, files
  <2> QED
    BY <2>2, <2>5, <2>6 DEF TypeOK
<1> QED
  BY <1>1, <1>2

(* What happens by itself. *)
LEMMA SurroundingsType ==
  ASSUME TypeOK, ReadInv,
         \/ \E n \in Names : ServiceStep(n)
         \/ EditLibrary \/ ClientDies \/ Reboot \/ UNCHANGED vars
  PROVE  TypeOK' /\ ReadInv'
<1>1. ASSUME UNCHANGED <<request, pool, todo, frames>>, library' = library \/ Idle,
             library' \in Editions, active' = active
      PROVE  FileTypeOK' /\ ClientTypeOK' /\ ReadInv'
  <2>1. FileTypeOK' /\ ClientTypeOK'
    BY <1>1 DEF TypeOK, FileTypeOK, ClientTypeOK, Idle
  <2>2. CASE library' = library
    <3>1. Readable(Names)' = Readable(Names)
      BY <1>1, <2>2 DEF Readable, Read
    <3> QED
      BY <1>1, <2>1, <3>1 DEF ReadInv
  <2>3. CASE Idle
    <3>1. todo' = <<>> /\ frames' = <<>>
      BY <1>1, <2>3 DEF TypeOK, ClientTypeOK
    <3> QED
      BY <2>1, <3>1 DEF ReadInv
  <2> QED
    BY <1>1, <2>2, <2>3
<1>2. ASSUME NEW n \in Names, ServiceStep(n)
      PROVE  TypeOK' /\ ReadInv'
  <2>1. UNCHANGED <<files, client>>
    BY <1>2 DEF ServiceStep
  <2>2. PICK s \in Moves[state[n]] : Settle(n, s)
    BY <1>2 DEF ServiceStep
  <2>3. state[n] # "STOPPED" /\ s \in States
    BY <2>2 DEF Moves, States, TypeOK, ScmTypeOK
  <2>4. ScmTypeOK'
    BY <2>2, <2>3 DEF Settle, TypeOK, ScmTypeOK
  <2> QED
    BY <1>1, <2>1, <2>4 DEF TypeOK, FileTypeOK, files, client
<1>3. CASE EditLibrary
  BY <1>1, <1>3 DEF EditLibrary, TypeOK, ScmTypeOK, scm, client
<1>4. CASE ClientDies
  BY <1>4, DieKeeps, EditionTypes DEF ClientDies, TypeOK, FileTypeOK, ScmTypeOK, files, scm
<1>5. CASE Reboot
  <2>1. ScmTypeOK'
    BY <1>5 DEF Reboot, TypeOK, ScmTypeOK, States
  <2>2. CASE Idle
    BY <1>1, <1>5, <2>1, <2>2 DEF Reboot, TypeOK, FileTypeOK, files, client
  <2>3. CASE ~Idle
    BY <1>5, <2>1, <2>3, DieKeeps, EditionTypes DEF Reboot, TypeOK, FileTypeOK, files
  <2> QED
    BY <2>2, <2>3
<1>6. CASE UNCHANGED vars
  BY <1>1, <1>6 DEF vars, files, scm, client, TypeOK, FileTypeOK, ScmTypeOK
<1> QED
  BY <1>2, <1>3, <1>4, <1>5, <1>6

LEMMA InitType ==
  ASSUME Init
  PROVE  TypeOK /\ ReadInv
<1>1. FileTypeOK
  BY EditionTypes DEF Init, FileTypeOK
<1>2. ScmTypeOK
  BY DEF Init, ScmTypeOK, States
<1>3. ClientTypeOK /\ ReadInv
  BY DEF Init, ClientTypeOK, ReadInv, Free, Requests, Idle
<1> QED
  BY <1>1, <1>2, <1>3 DEF TypeOK

LEMMA StepType ==
  ASSUME TypeOK, ReadInv, [Next]_vars
  PROVE  TypeOK' /\ ReadInv'
<1>1. ASSUME NEW n \in Names, NEW c \in Commands, Invoke(c, n)
      PROVE  TypeOK' /\ ReadInv'
  BY <1>1, InvokeType
<1>2. CASE InvokeDaemonReload
  BY <1>2, DaemonReloadType
<1>3. ASSUME NEW n \in Names,
             StartService(n) \/ StopService(n) \/ Kill(n) \/ Signal(n)
      PROVE  TypeOK' /\ ReadInv'
  BY <1>3, StateStepType
<1>4. ASSUME NEW n \in Names, Disable(n) \/ WaitForStop(n)
      PROVE  TypeOK' /\ ReadInv'
  BY <1>4, ServiceStepsType
<1>5. ASSUME NEW n \in Names, Mask(n) \/ Unmask(n)
      PROVE  TypeOK' /\ ReadInv'
  BY <1>5, FileStepType
<1>6. ASSUME NEW n \in Names, Refresh(n) \/ RegisterUnit(n) \/ RegisterNull(n)
      PROVE  TypeOK' /\ ReadInv'
  BY <1>6, ReloadStepType
<1>7. CASE ReadLibrary
  BY <1>7, ReadLibraryType
<1>8. CASE \/ \E n \in Names : EnableUnit(n)
           \/ EnableRequired \/ EnableRequiredDone
           \/ EnableWanted \/ EnableWantedDone \/ EnableFailed
  BY <1>8, EnableCallsType
<1>9. CASE EnableCopy \/ EnableRegister
  BY <1>9, EnableEffectsType
<1>10. CASE \/ \E n \in Names : ServiceStep(n)
            \/ EditLibrary \/ ClientDies \/ Reboot \/ UNCHANGED vars
  BY <1>10, SurroundingsType
<1> QED
  BY <1>1, <1>2, <1>3, <1>4, <1>5, <1>6, <1>7, <1>8, <1>9, <1>10 DEF Next, ClientStep, Enable

LEMMA TypeAndRead == Spec => [](TypeOK /\ ReadInv)
<1>1. Init => TypeOK /\ ReadInv
  BY InitType
<1>2. TypeOK /\ ReadInv /\ [Next]_vars => (TypeOK /\ ReadInv)'
  BY StepType
<1> QED
  BY <1>1, <1>2, PTL DEF Spec

(* Every variable keeps its type, also when a command is interrupted: the   *)
(* pool, the steps left and the calls of Enable are those of one command,   *)
(* and the SCM never keeps a service it should have removed.                *)
THEOREM TypeCorrect == Spec => []TypeOK
  BY TypeAndRead, PTL

(* Enable is never entered with a NULL unit from the list of wanted units   *)
(* or from the command line.                                                *)
THEOREM EnabledUnitsRead == Spec => []ReadInv
  BY TypeAndRead, PTL

LEMMA StepNeverOverwrites ==
  ASSUME TypeOK, [Next]_vars, NEW n \in Names, active[n] # NoFile
  PROVE  active'[n] \in {active[n], NoFile}
<1>1. CASE active' = active
  BY <1>1
<1>2. CASE active' # active
  <2>1. \/ \E m \in Names : Mask(m) \/ Unmask(m)
        \/ EnableCopy
    BY <1>2 DEF Next, ClientStep, Enable, Invoke, InvokeDaemonReload, StartService,
                StopService, WaitForStop, Kill, Signal, Disable, EnableUnit, Refresh,
                RegisterUnit, RegisterNull, ReadLibrary, EnableRequired, EnableRequiredDone,
                EnableWanted, EnableWantedDone, EnableRegister, EnableFailed, ServiceStep,
                EditLibrary, ClientDies, Reboot, vars, files
  <2>2. ASSUME NEW m \in Names, Mask(m)
        PROVE  active'[n] \in {active[n], NoFile}
    BY <2>2 DEF Mask, TypeOK, FileTypeOK
  <2>3. ASSUME NEW m \in Names, active' = Copied(m)
        PROVE  active'[n] = active[n]
    BY <2>3, CopiedType
  <2>4. EnableCopy => Top.unit \in Names
    BY WithinFinds DEF EnableCopy, Frames
  <2>5. EnableCopy => active' = Copied(Top.unit)
    BY <1>2 DEF EnableCopy
  <2> QED
    BY <2>1, <2>2, <2>3, <2>4, <2>5 DEF Unmask
<1> QED
  BY <1>1, <1>2

(* No unit file of the active directory is ever written over: a step leaves *)
(* it as it is or removes it.                                               *)
THEOREM NeverOverwritten == Spec => ActiveNeverOverwritten
<1>1. TypeOK /\ [Next]_vars
        => [\A n \in Names : active[n] # NoFile => active'[n] \in {active[n], NoFile}]_vars
  BY StepNeverOverwrites
<1>2. Spec => []TypeOK
  BY TypeCorrect
<1> QED
  BY <1>1, <1>2, PTL DEF Spec, ActiveNeverOverwritten

-----------------------------------------------------------------------------
(* The services of the SCM agree with the active directory *)

(* Of the active directory, a step only fills gaps from the library. *)
Fills ==
  \A n \in Names : active'[n] = active[n] \/ (active[n] = NoFile /\ active'[n] = library[n])

(* A call of Enable after a step, when it goes on or fails. *)
Follows(f, g) ==
  f.unit = g.unit /\ f.definition = g.definition /\ f.phase \in {g.phase, "failed"}

(* A call that is up to date after the step. *)
UpToDateThen(call) ==
  \/ active'[call.unit] = call.definition
  \/ /\ call.phase \in {"copy", "failed"}
     /\ active'[call.unit] = NoFile /\ library'[call.unit] = call.definition

LEMMA ServicesStayAsActive ==
  ASSUME TypeOK, RegisteredAsActive, Fills, registered' \subseteq Names,
         \A n \in registered' \ deleting' :
           n \in registered \ deleting /\ dependsOn'[n] = dependsOn[n]
  PROVE  RegisteredAsActive'
  BY DEF RegisteredAsActive, Fills, TypeOK, ScmTypeOK

LEMMA StepsStayCareful ==
  ASSUME TypeOK, TodoInv, PoolInv, Fills, ~Idle, library' = library, pool' = pool \/ Idle',
         \A i \in DOMAIN todo' : \E j \in DOMAIN todo : todo'[i] = todo[j]
  PROVE  TodoInv' /\ PoolInv'
<1>1. TodoInv'
  BY DEF TodoInv
<1>2. PoolInv'
  BY DEF PoolInv, Fills
<1> QED
  BY <1>1, <1>2

LEMMA CallsStayUpToDate ==
  ASSUME TypeOK, FrameInv, Fills, library' = library,
         \A i \in DOMAIN frames' :
           \/ UpToDateThen(frames'[i])
           \/ \E j \in DOMAIN frames : Follows(frames'[i], frames[j])
  PROVE  FrameInv'
<1>1. SUFFICES ASSUME NEW i \in DOMAIN frames', NEW j \in DOMAIN frames,
                      Follows(frames'[i], frames[j])
               PROVE  UpToDateThen(frames'[i])
  BY DEF FrameInv, UpToDate, UpToDateThen
<1>2. frames[j] \in Frames /\ UpToDate(frames[j])
  BY ElementOfSeq, LenProperties DEF TypeOK, ClientTypeOK, FrameInv
<1>3. frames[j].unit \in Names /\ frames[j].definition \in Definitions
  BY <1>2 DEF Frames
<1>4. frames[j].definition # NoFile
  BY <1>3, ConstantsAssumption
<1>5. \/ active'[frames[j].unit] = active[frames[j].unit]
      \/ active[frames[j].unit] = NoFile /\ active'[frames[j].unit] = library[frames[j].unit]
  BY <1>3 DEF Fills
<1> QED
  BY <1>1, <1>2, <1>4, <1>5 DEF UpToDate, UpToDateThen, Follows

LEMMA TailGoesOn ==
  ASSUME TypeOK, ~Idle, GoOn(Tail(todo))
  PROVE  /\ pool' = pool \/ Idle'
         /\ \A i \in DOMAIN todo' : \E j \in DOMAIN todo : todo'[i] = todo[j]
<1>1. todo \in Seq(Calls) /\ todo # <<>>
  BY DEF TypeOK, ClientTypeOK, Calls
<1>2. \A i \in DOMAIN Tail(todo) : i + 1 \in DOMAIN todo /\ Tail(todo)[i] = todo[i + 1]
  BY <1>1, TailOf
<1>3. todo' = Tail(todo) /\ (pool' = pool \/ Idle')
  BY DEF GoOn, GoOnWith, Idle, Free
<1> QED
  BY <1>2, <1>3

LEMMA ReturnGoesOn ==
  ASSUME TypeOK, NEW p, Within(p), NEW success, Return(success)
  PROVE  /\ pool' = pool \/ Idle'
         /\ \A i \in DOMAIN todo' : \E j \in DOMAIN todo : todo'[i] = todo[j]
         /\ \A i \in DOMAIN frames' : \E j \in DOMAIN frames : Follows(frames'[i], frames[j])
<1>1. CASE Len(frames) = 1
  BY <1>1, WithinFinds, TailGoesOn DEF Return
<1>2. CASE Len(frames) # 1
  <2> DEFINE e == [frames[2] EXCEPT !.phase = "failed"]
             r == Tail(frames)
  <2>1. /\ r \in Seq(Frames) /\ Len(r) = Len(frames) - 1 /\ Len(frames) \in Nat \ {0}
        /\ \A i \in DOMAIN r : i + 1 \in DOMAIN frames /\ r[i] = frames[i + 1]
    BY WithinFinds, TailOf, HeadTailProperties
  <2>2. 2 \in DOMAIN frames /\ frames[2] \in Frames /\ r # <<>>
    <3>1. Len(r) # 0 /\ 2 \in 1..Len(frames)
      BY <1>2, <2>1
    <3> QED
      BY <2>1, <3>1, WithinFinds, ElementOfSeq, EmptySeq
  <2>3. e \in Frames /\ Follows(e, frames[2])
    BY <2>2 DEF Frames, Phases, Follows
  <2>4. UNCHANGED <<pool, todo>> /\ frames' \in {r, WithTop(e, r)}
    BY <1>2 DEF Return
  <2> HIDE DEF e, r
  <2>5. \A i \in DOMAIN frames' : \E j \in DOMAIN frames : Follows(frames'[i], frames[j])
    <3>1. \A i \in DOMAIN r : Follows(r[i], frames[i + 1])
      BY <2>1 DEF Follows
    <3>2. CASE frames' = r
      BY <2>1, <3>1, <3>2
    <3>3. CASE frames' = WithTop(e, r)
      <4>1. \A i \in DOMAIN frames' : i \in DOMAIN r /\ (frames'[i] = e \/ frames'[i] = r[i])
        BY <2>1, <2>2, <2>3, <3>3, WithTopOf
      <4> QED
        BY <2>1, <2>2, <2>3, <3>1, <4>1
    <3> QED
      BY <2>4, <3>2, <3>3
  <2> QED
    BY <2>4, <2>5
<1> QED
  BY <1>1, <1>2

(* What Enable reads is what the active directory has or will get. *)
LEMMA ReadIsUpToDate ==
  ASSUME TypeOK, PoolInv, ~Idle, NEW n \in Names
  PROVE  UpToDate(Frame(n, Read(n)))
  BY DEF PoolInv, UpToDate, Frame, Read

LEMMA RecurseGoesOn ==
  ASSUME TypeOK, PoolInv, NEW p, Within(p), NEW m \in Top.left, Recurse(m),
         UNCHANGED <<library, active>>
  PROVE  /\ pool' = pool \/ Idle'
         /\ \A i \in DOMAIN todo' : \E j \in DOMAIN todo : todo'[i] = todo[j]
         /\ \A i \in DOMAIN frames' :
              \/ UpToDateThen(frames'[i])
              \/ \E j \in DOMAIN frames : Follows(frames'[i], frames[j])
<1>1. CASE Len(frames) = MaxDepth
  BY <1>1 DEF Recurse, Die, Idle
<1>2. CASE Len(frames) # MaxDepth
  <2> DEFINE e == [Top EXCEPT !.left = @ \ {m}]
             f == Frame(m, Read(m))
  <2>1. e \in Frames /\ Follows(e, Top)
    BY WithinFinds DEF Frames, Follows
  <2>2. m \in Names /\ UpToDate(f)
    BY WithinFinds, ReadIsUpToDate DEF Frames
  <2> HIDE DEF e, f
  <2>3. /\ frames' = <<f>> \o WithTop(e, frames)
        /\ UNCHANGED <<library, active, pool, todo>>
    BY <1>2 DEF Recurse, e, f
  <2>4. /\ WithTop(e, frames) \in Seq(Frames)
        /\ \A i \in DOMAIN WithTop(e, frames) : i \in DOMAIN frames /\
             (WithTop(e, frames)[i] = e \/ WithTop(e, frames)[i] = frames[i])
    BY <2>1, WithinFinds, WithTopOf
  <2>5. \A i \in DOMAIN frames' : \/ frames'[i] \in {f, e}
                                  \/ \E j \in DOMAIN frames : frames'[i] = frames[j]
    <3>1. DOMAIN frames' = 1..Len(frames') /\ frames'[1] = f /\ Len(frames') \in Nat
          /\ \A i \in DOMAIN frames' : i > 1 =>
               i - 1 \in DOMAIN WithTop(e, frames) /\ frames'[i] = WithTop(e, frames)[i - 1]
      <4> DEFINE g == WithTop(e, frames)
      <4>1. <<f>> \in Seq({f}) /\ Len(<<f>>) = 1 /\ <<f>>[1] = f
        OBVIOUS
      <4>2. <<f>> \in Seq({f} \cup Frames) /\ g \in Seq({f} \cup Frames)
        BY <2>4, <4>1, SeqMonotonic
      <4> HIDE DEF g
      <4>3. /\ <<f>> \o g \in Seq({f} \cup Frames) /\ Len(<<f>> \o g) = 1 + Len(g)
            /\ \A i \in 1..(1 + Len(g)) :
                 (<<f>> \o g)[i] = IF i <= 1 THEN <<f>>[i] ELSE g[i - 1]
        BY <4>1, <4>2, ConcatProperties
      <4>4. DOMAIN g = 1..Len(g) /\ Len(g) \in Nat /\ DOMAIN (<<f>> \o g) = 1..(1 + Len(g))
        BY <4>2, <4>3, LenProperties
      <4> QED
        BY <2>3, <4>1, <4>3, <4>4 DEF g
    <3> QED
      BY <2>4, <3>1
  <2>6. UpToDateThen(f)
    <3>1. f.unit = m /\ f.definition = Read(m) /\ f.phase = "copy"
      BY DEF f, Frame
    <3> QED
      BY <2>2, <2>3, <3>1 DEF UpToDate, UpToDateThen
  <2>7. \A j \in DOMAIN frames : Follows(frames[j], frames[j])
    BY DEF Follows
  <2>8. 1 \in DOMAIN frames /\ frames[1] = Top
    BY WithinFinds DEF Top
  <2>9. \A i \in DOMAIN frames' :
          \/ UpToDateThen(frames'[i])
          \/ \E j \in DOMAIN frames : Follows(frames'[i], frames[j])
    BY <2>1, <2>5, <2>6, <2>7, <2>8
  <2>10. \A i \in DOMAIN todo' : \E j \in DOMAIN todo : todo'[i] = todo[j]
    BY <2>3
  <2> QED
    BY <2>3, <2>9, <2>10
<1> QED
  BY <1>1, <1>2

LEMMA TurnGoesOn ==
  ASSUME TypeOK, NEW p, Within(p), NEW phase \in Phases, NEW left \in SUBSET Names,
         Turn(phase, left), active'[Top.unit] = Top.definition, UNCHANGED <<pool, todo>>
  PROVE  /\ ~Idle /\ pool' = pool
         /\ \A i \in DOMAIN todo' : \E j \in DOMAIN todo : todo'[i] = todo[j]
         /\ \A i \in DOMAIN frames' :
              \/ UpToDateThen(frames'[i])
              \/ \E j \in DOMAIN frames : Follows(frames'[i], frames[j])
<1> DEFINE e == [Top EXCEPT !.phase = phase, !.left = left]
<1>1. e \in Frames /\ UpToDateThen(e)
  BY WithinFinds DEF Frames, UpToDateThen
<1>2. \A i \in DOMAIN frames' : i \in DOMAIN frames /\ (frames'[i] = e \/ frames'[i] = frames[i])
  BY <1>1, WithinFinds, WithTopOf DEF Turn
<1>3. \A j \in DOMAIN frames : Follows(frames[j], frames[j])
  BY DEF Follows
<1> HIDE DEF e
<1> QED
  BY <1>1, <1>2, <1>3, WithinFinds

(* Everything that is known of a step of systemctl. *)
LEMMA StepStaysCareful ==
  ASSUME TypeOK, CarefulInv, ~Idle, Fills, library' = library, pool' = pool \/ Idle',
         registered' \subseteq Names,
         \A n \in registered' \ deleting' :
           n \in registered \ deleting /\ dependsOn'[n] = dependsOn[n],
         \A i \in DOMAIN todo' : \E j \in DOMAIN todo : todo'[i] = todo[j],
         \A i \in DOMAIN frames' :
           \/ UpToDateThen(frames'[i])
           \/ \E j \in DOMAIN frames : Follows(frames'[i], frames[j])
  PROVE  CarefulInv'
BY ServicesStayAsActive, StepsStayCareful, CallsStayUpToDate DEF CarefulInv

LEMMA CommandStepsCareful ==
  ASSUME TypeOK, CarefulInv, NEW n \in Names,
         \/ StartService(n) \/ StopService(n) \/ Kill(n) \/ Signal(n)
         \/ Disable(n) \/ WaitForStop(n) \/ Unmask(n)
  PROVE  CarefulInv'
<1>1. frames' = <<>> /\ ~Idle /\ library' = library /\ todo # <<>>
  BY AtStepFinds DEF StartService, StopService, Kill, Signal, Disable, WaitForStop, Unmask, files
<1>2. /\ pool' = pool \/ Idle'
      /\ \A i \in DOMAIN todo' : \E j \in DOMAIN todo : todo'[i] = todo[j]
  <2>1. CASE GoOn(Tail(todo))
    BY <1>1, <2>1, TailGoesOn
  <2>2. CASE GoOn(<<>>)
    BY <2>2 DEF GoOn, GoOnWith, Idle, Free
  <2> QED
    BY <2>1, <2>2 DEF StartService, StopService, Kill, Signal, Disable, WaitForStop, Unmask
<1>3. Fills
  <2>1. CASE active' = active
    BY <2>1 DEF Fills
  <2>2. CASE active' = Copied(n)
    BY <2>2, CopiedType DEF Fills
  <2> QED
    BY <2>1, <2>2 DEF StartService, StopService, Kill, Signal, Disable, WaitForStop, Unmask, files
<1>4. /\ registered' \subseteq Names
      /\ \A m \in registered' \ deleting' :
           m \in registered \ deleting /\ dependsOn'[m] = dependsOn[m]
  <2>1. CASE UNCHANGED <<registered, deleting, dependsOn>>
    BY <2>1 DEF TypeOK, ScmTypeOK
  <2>2. CASE /\ registered' = registered \ {n} /\ deleting' = deleting
             /\ dependsOn' = [dependsOn EXCEPT ![n] = {}]
    BY <2>2 DEF TypeOK, ScmTypeOK
  <2>3. CASE deleting' = deleting \cup {n} /\ UNCHANGED <<registered, dependsOn>>
    BY <2>3 DEF TypeOK, ScmTypeOK
  <2> QED
    BY <2>1, <2>2, <2>3
       DEF StartService, StopService, Kill, Signal, Disable, WaitForStop, Unmask, scm
<1> QED
  BY <1>1, <1>2, <1>3, <1>4, StepStaysCareful

LEMMA EnableCareful ==
  ASSUME TypeOK, ReadInv, CarefulInv,
         \/ \E n \in Names : EnableUnit(n)
         \/ EnableRequired \/ EnableRequiredDone
         \/ EnableWanted \/ EnableWantedDone \/ EnableFailed
  PROVE  CarefulInv'
<1> DEFINE Calmly == /\ ~Idle
                     /\ pool' = pool \/ Idle'
                     /\ \A i \in DOMAIN todo' : \E j \in DOMAIN todo : todo'[i] = todo[j]
                     /\ \A i \in DOMAIN frames' :
                          \/ UpToDateThen(frames'[i])
                          \/ \E j \in DOMAIN frames : Follows(frames'[i], frames[j])
<1>1. UNCHANGED <<library, active, registered, deleting, dependsOn>>
  BY DEF EnableUnit, EnableRequired, EnableRequiredDone, EnableWanted, EnableWantedDone,
         EnableFailed, files, scm
<1>2. PoolInv /\ FrameInv
  BY DEF CarefulInv
<1>3. ASSUME NEW n \in Names, EnableUnit(n)
      PROVE  Calmly
  <2> DEFINE f == Frame(n, Read(n))
  <2>1. ~Idle /\ UpToDate(f)
    BY <1>2, <1>3, AtStepFinds, ReadIsUpToDate DEF EnableUnit
  <2>2. UpToDateThen(f)
    BY <1>1, <2>1 DEF UpToDate, UpToDateThen
  <2>3. frames' = <<f>> /\ UNCHANGED <<pool, todo>>
    BY <1>3 DEF EnableUnit
  <2> HIDE DEF f
  <2>4. \A i \in DOMAIN frames' : frames'[i] = f
    BY <2>3
  <2> QED
    BY <2>1, <2>2, <2>3, <2>4
<1>4. ASSUME EnableRequired
      PROVE  Calmly
  <2>1. Within("requires") /\ ~Idle
    BY <1>4, WithinFinds DEF EnableRequired
  <2>2. ASSUME Return(FALSE)
        PROVE  Calmly
    BY <2>1, <2>2, ReturnGoesOn
  <2>3. ASSUME \E m \in Top.left : Recurse(m)
        PROVE  Calmly
    BY <1>1, <1>2, <2>1, <2>3, RecurseGoesOn
  <2> QED
    BY <1>4, <2>2, <2>3 DEF EnableRequired
<1>5. ASSUME EnableWanted
      PROVE  Calmly
  <2>1. Within("wants") /\ ~Idle
    BY <1>5, WithinFinds DEF EnableWanted
  <2> QED
    BY <1>1, <1>2, <1>5, <2>1, RecurseGoesOn DEF EnableWanted
<1>6. ASSUME EnableRequiredDone \/ EnableWantedDone
      PROVE  Calmly
  <2>1. PICK p \in {"requires", "wants"} : Within(p)
    BY <1>6 DEF EnableRequiredDone, EnableWantedDone
  <2>2. PICK phase \in Phases, left \in SUBSET Names : Turn(phase, left)
    <3>1. Readable(Top.definition.wants) \in SUBSET Names
      BY <2>1, WithinFinds, EditionTypes DEF Frames, Readable
    <3> QED
      BY <1>6, <3>1 DEF EnableRequiredDone, EnableWantedDone, Phases
  <2>3. active[Top.unit] = Top.definition
    BY <1>2, <2>1, WithinFinds DEF FrameInv, UpToDate, Top
  <2>4. UNCHANGED <<pool, todo>>
    BY <1>6 DEF EnableRequiredDone, EnableWantedDone
  <2> QED
    BY <1>1, <2>1, <2>2, <2>3, <2>4, TurnGoesOn
<1>7. ASSUME EnableFailed
      PROVE  Calmly
  BY <1>7, WithinFinds, ReturnGoesOn DEF EnableFailed
<1> HIDE DEF Calmly
<1>8. Calmly
  BY <1>3, <1>4, <1>5, <1>6, <1>7
<1>9. Fills /\ registered' \subseteq Names
  BY <1>1 DEF Fills, TypeOK, ScmTypeOK
<1> QED
  BY <1>1, <1>8, <1>9, StepStaysCareful DEF Calmly

LEMMA EnableCopyCareful ==
  ASSUME TypeOK, CarefulInv, EnableCopy
  PROVE  CarefulInv'
<1>1. Within("copy") /\ ~Idle /\ UNCHANGED <<library, scm>>
  BY WithinFinds DEF EnableCopy
<1>2. Top.unit \in Names /\ Top.definition \in Definitions
  BY <1>1, WithinFinds DEF Frames
<1>3. active' \in {active, Copied(Top.unit)}
  BY DEF EnableCopy
<1>4. Fills
  BY <1>2, <1>3, CopiedType DEF Fills
<1>5. /\ pool' = pool \/ Idle'
      /\ \A i \in DOMAIN todo' : \E j \in DOMAIN todo : todo'[i] = todo[j]
      /\ \A i \in DOMAIN frames' :
           \/ UpToDateThen(frames'[i])
           \/ \E j \in DOMAIN frames : Follows(frames'[i], frames[j])
  <2>1. CASE Return(FALSE)
    BY <1>1, <2>1, ReturnGoesOn
  <2>2. CASE ~Return(FALSE)
    <3> DEFINE left == {m \in Top.definition.requires : pool[m] = NoFile}
    <3>1. /\ active' = Copied(Top.unit) /\ Copied(Top.unit)[Top.unit] # NoFile
          /\ Turn("requires", left) /\ UNCHANGED <<pool, todo>>
      BY <2>2 DEF EnableCopy
    <3>2. active'[Top.unit] = Top.definition
      <4>1. UpToDate(Top)
        BY <1>1, WithinFinds DEF CarefulInv, FrameInv, Top
      <4>2. Top.definition # NoFile
        BY <1>2, ConstantsAssumption
      <4> QED
        BY <1>2, <3>1, <4>1, <4>2 DEF UpToDate, Copied, TypeOK, FileTypeOK
    <3>3. left \in SUBSET Names /\ "requires" \in Phases
      BY <1>2, EditionTypes DEF Phases
    <3> HIDE DEF left
    <3> QED
      BY <1>1, <3>1, <3>2, <3>3, TurnGoesOn
  <2> QED
    BY <2>1, <2>2
<1>6. registered' \subseteq Names /\ UNCHANGED <<registered, deleting, dependsOn>>
  BY <1>1 DEF scm, TypeOK, ScmTypeOK
<1> QED
  BY <1>1, <1>4, <1>5, <1>6, StepStaysCareful

(* The one step that adds a service to the SCM. *)
LEMMA EnableRegisterCareful ==
  ASSUME TypeOK, CarefulInv, EnableRegister
  PROVE  CarefulInv'
<1> DEFINE u == Top.unit
           d == Top.definition
           D == d.requires \cup Readable(d.wants)
<1>1. /\ Within("register") /\ ~Idle /\ UNCHANGED <<library, active>> /\ Return(TRUE)
      /\ CreateService(u, D)
  BY WithinFinds DEF EnableRegister, files
<1>2. u \in Names /\ d \in Definitions /\ d # NoFile
  BY <1>1, WithinFinds, ConstantsAssumption DEF Frames
<1>3. active[u] = d
  BY <1>1, WithinFinds DEF CarefulInv, FrameInv, UpToDate, Top
<1>4. Fills
  BY <1>1 DEF Fills
<1>5. TodoInv' /\ PoolInv' /\ FrameInv'
  BY <1>1, <1>4, ReturnGoesOn, StepsStayCareful, CallsStayUpToDate DEF CarefulInv
<1>6. D \subseteq d.requires \cup d.wants /\ d.requires \subseteq D
  BY DEF Readable
<1> HIDE DEF u, d, D
<1>7. RegisteredAsActive'
  <2>1. CASE UNCHANGED scm
    BY <1>1, <2>1 DEF CarefulInv, RegisteredAsActive, scm
  <2>2. CASE /\ registered' = registered \cup {u} /\ UNCHANGED deleting
             /\ dependsOn' = [dependsOn EXCEPT ![u] = D]
    BY <1>1, <1>2, <1>3, <1>6, <2>2 DEF CarefulInv, RegisteredAsActive, TypeOK, ScmTypeOK
  <2> QED
    BY <1>1, <2>1, <2>2 DEF CreateService
<1> QED
  BY <1>5, <1>7 DEF CarefulInv

LEMMA SurroundingsCareful ==
  ASSUME TypeOK, CarefulInv,
         \/ \E n \in Names : ServiceStep(n)
         \/ EditLibrary \/ ClientDies \/ Reboot \/ UNCHANGED vars
  PROVE  CarefulInv'
<1>1. active' = active
  BY DEF ServiceStep, EditLibrary, ClientDies, Reboot, vars, files
<1>2. RegisteredAsActive'
  <2>1. /\ registered' \subseteq Names
        /\ \A n \in registered' \ deleting' :
             n \in registered \ deleting /\ dependsOn'[n] = dependsOn[n]
    <3>1. ASSUME NEW n \in Names, NEW s, Settle(n, s)
          PROVE  /\ registered' \subseteq Names
                 /\ \A m \in registered' \ deleting' :
                      m \in registered \ deleting /\ dependsOn'[m] = dependsOn[m]
      BY <3>1 DEF Settle, TypeOK, ScmTypeOK
    <3>2. CASE Reboot
      BY <3>2 DEF Reboot, TypeOK, ScmTypeOK
    <3>3. CASE UNCHANGED <<registered, deleting, dependsOn>>
      BY <3>3 DEF TypeOK, ScmTypeOK
    <3> QED
      BY <3>1, <3>2, <3>3 DEF ServiceStep, EditLibrary, ClientDies, vars, scm
  <2> QED
    BY <1>1, <2>1, ServicesStayAsActive DEF CarefulInv, Fills
<1>3. CASE UNCHANGED <<request, pool, todo, frames>> /\ (library' = library \/ Idle)
  <2>1. TodoInv'
    BY <1>3 DEF CarefulInv, TodoInv
  <2>2. PoolInv' /\ FrameInv'
    <3>1. CASE library' = library
      BY <1>1, <1>3, <3>1 DEF CarefulInv, PoolInv, FrameInv, UpToDate, Idle
    <3>2. CASE Idle
      <4>1. Idle' /\ frames' = <<>>
        BY <1>3, <3>2 DEF Idle, TypeOK, ClientTypeOK
      <4> QED
        BY <4>1 DEF PoolInv, FrameInv
    <3> QED
      BY <1>3, <3>1, <3>2
  <2> QED
    BY <1>2, <2>1, <2>2 DEF CarefulInv
<1>4. CASE Die
  BY <1>2, <1>4 DEF Die, CarefulInv, TodoInv, PoolInv, FrameInv, Idle
<1>5. (UNCHANGED client /\ (library' = library \/ Idle)) \/ Die
  BY DEF ServiceStep, EditLibrary, ClientDies, Reboot, vars, files
<1> QED
  BY <1>3, <1>4, <1>5 DEF client

LEMMA InvokeCareful ==
  ASSUME TypeOK, CarefulInv, Commands \subseteq CarefulCommands,
         NEW n \in Names, NEW c \in Commands, Invoke(c, n)
  PROVE  CarefulInv'
<1>1. /\ frames' = <<>> /\ pool' = active' /\ UNCHANGED <<library, active>>
      /\ UNCHANGED <<registered, deleting, dependsOn>>
  BY DEF Invoke, TypeOK, ClientTypeOK, files, scm
<1>2. c \in CarefulCommands
  OBVIOUS
<1>3. todo' = [i \in DOMAIN Steps[c] |-> <<Steps[c][i], n>>] /\ c \in Commands \ {"daemonReload"}
  BY DEF Invoke
<1>4. TodoInv'
  <2> DEFINE t == [i \in DOMAIN Steps[c] |-> <<Steps[c][i], n>>]
             Kept == {"mask", "refresh", "readLibrary", "register"}
  <2>1. \A i \in DOMAIN t : t[i][1] \notin Kept
    <3>1. c # "mask" /\ c # "reload"
      BY <1>2 DEF CarefulCommands
    <3>2. \A i \in DOMAIN t :
            /\ t[i][1] \in StepNames \ {"refresh", "readLibrary", "register"}
            /\ t[i][1] = "mask" => c \in {"mask", "reload"}
      <4> SUFFICES ASSUME NEW i \in DOMAIN t
                   PROVE  /\ t[i][1] \in StepNames \ {"refresh", "readLibrary", "register"}
                          /\ t[i][1] = "mask" => c \in {"mask", "reload"}
        OBVIOUS
      <4>1. i \in DOMAIN Steps[c] /\ t[i][1] = Steps[c][i]
        OBVIOUS
      <4>2. /\ Steps[c][i] \in StepNames \ {"refresh", "readLibrary", "register"}
            /\ Steps[c][i] = "mask" => c \in {"mask", "reload"}
        BY <1>3, <4>1, StepsOf
      <4> QED
        BY <4>1, <4>2
    <3> HIDE DEF t
    <3> QED
      BY <3>1, <3>2
  <2>2. TodoInv' <=> \A i \in DOMAIN todo' : todo'[i][1] \notin Kept
    BY DEF TodoInv
  <2>3. todo' = t
    BY <1>3
  <2> HIDE DEF t, Kept
  <2> QED
    BY <2>1, <2>2, <2>3
<1>5. RegisteredAsActive'
  BY <1>1 DEF CarefulInv, RegisteredAsActive
<1> QED
  BY <1>1, <1>4, <1>5 DEF CarefulInv, PoolInv, FrameInv

LEMMA StepCareful ==
  ASSUME TypeOK, ReadInv, CarefulInv, Commands \subseteq CarefulCommands, [Next]_vars
  PROVE  CarefulInv'
<1>1. ASSUME NEW n \in Names, NEW c \in Commands, Invoke(c, n)
      PROVE  CarefulInv'
  BY <1>1, InvokeCareful
<1>2. ~InvokeDaemonReload
  BY DEF InvokeDaemonReload, CarefulCommands
<1>3. \A n \in Names : ~Mask(n) /\ ~Refresh(n) /\ ~RegisterUnit(n) /\ ~RegisterNull(n)
  BY AtStepFinds DEF CarefulInv, TodoInv, Mask, Refresh, RegisterUnit, RegisterNull
<1>4. ~ReadLibrary
  BY AtStepFinds DEF CarefulInv, TodoInv, ReadLibrary
<1>5. ASSUME NEW n \in Names,
             \/ StartService(n) \/ StopService(n) \/ Kill(n) \/ Signal(n)
             \/ Disable(n) \/ WaitForStop(n) \/ Unmask(n)
      PROVE  CarefulInv'
  BY <1>5, CommandStepsCareful
<1>6. CASE \/ \E n \in Names : EnableUnit(n)
           \/ EnableRequired \/ EnableRequiredDone
           \/ EnableWanted \/ EnableWantedDone \/ EnableFailed
  BY <1>6, EnableCareful
<1>7. CASE EnableCopy \/ EnableRegister
  BY <1>7, EnableCopyCareful, EnableRegisterCareful
<1>8. CASE \/ \E n \in Names : ServiceStep(n)
           \/ EditLibrary \/ ClientDies \/ Reboot \/ UNCHANGED vars
  BY <1>8, SurroundingsCareful
<1> QED
  BY <1>1, <1>2, <1>3, <1>4, <1>5, <1>6, <1>7, <1>8 DEF Next, ClientStep, Enable

(* The strengthened invariant: with enable, disable, start, stop, restart,  *)
(* kill and unmask, interrupted or not, the services registered, the steps   *)
(* left to do, the pool and the calls of Enable agree with the active files. *)
THEOREM CarefulCommandsKeep ==
  ASSUME Commands \subseteq CarefulCommands
  PROVE  Spec => []CarefulInv
<1>1. Init => CarefulInv
  BY DEF Init, Free, Idle, CarefulInv, RegisteredAsActive, TodoInv, PoolInv, FrameInv
<1>2. TypeOK /\ ReadInv /\ CarefulInv /\ [Next]_vars => CarefulInv'
  BY StepCareful
<1> QED
  BY <1>1, <1>2, TypeAndRead, PTL DEF Spec

(* As long as only these commands are given, every service the SCM may      *)
(* start has its unit file in the active directory, and is registered with  *)
(* the dependencies of this very file.                                      *)
THEOREM RegisteredCorrect ==
  ASSUME Commands \subseteq CarefulCommands
  PROVE  Spec => []RegisteredAsActive
<1>1. CarefulInv => RegisteredAsActive
  BY DEF CarefulInv
<1> QED
  BY <1>1, CarefulCommandsKeep, PTL
=============================================================================
