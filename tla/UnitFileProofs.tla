--------------------------- MODULE UnitFileProofs ---------------------------
(***************************************************************************)
(* Proofs about UnitFile, for unit files of any length.                    *)
(***************************************************************************)
EXTENDS UnitFile, TimeSpanProofs

LEMMA NamesUnchanged ==
  ASSUME file' = file, NEW a
  PROVE  NamesUpTo(a)' = NamesUpTo(a)
BY DEF NamesUpTo, Says, Lines

LEMMA SaysUnchanged ==
  ASSUME file' = file, NEW i, NEW s, NEW a
  PROVE  Says(i, s, a)' <=> Says(i, s, a)
BY DEF Says, Lines

LEMMA TidyUnchanged ==
  ASSUME file' = file
  PROVE  (Tidy' <=> Tidy) /\ (ShortLists' <=> ShortLists)
BY DEF Tidy, ShortLists, Lines

-----------------------------------------------------------------------------
(***************************************************************************)
(* Types                                                                   *)
(***************************************************************************)

LEMMA FileIs ==
  ASSUME file \in UnitFiles
  PROVE  /\ Lines \in Seq(FileLines) /\ Len(Lines) \in Nat /\ DOMAIN Lines = 1..Len(Lines)
         /\ \A i \in 1..Len(Lines) : Lines[i] \in FileLines
         /\ file.newline \in BOOLEAN /\ file.timer \in BOOLEAN
<1>1. Lines \in Seq(FileLines) /\ file.newline \in BOOLEAN /\ file.timer \in BOOLEAN
  BY DEF Lines, UnitFiles
<1> QED
  BY <1>1, LenProperties

LEMMA LineIs ==
  ASSUME NEW l \in FileLines
  PROVE  /\ l.kind \in Kinds /\ l.name \in STRING /\ l.words \in Seq(STRING) /\ l.text \in Seq(Tokens)
         /\ l.kind = "heading" => l = Heading(l.name)
BY DEF FileLines

LEMMA EmptyLineIs == EmptyLine.kind = "blank"
BY DEF EmptyLine, Plain, Line

LEMMA HeadingIs ==
  ASSUME NEW s
  PROVE  Heading(s).kind = "heading" /\ Heading(s).name = s
BY DEF Heading, Line

Attrs == {l \in FileLines : l.kind = "attr"}

LEMMA NextLineIs ==
  ASSUME TypeOK
  PROVE  /\ NextLine \in FileLines \cup {EmptyLine}
         /\ at < Len(Lines) => NextLine = Lines[at + 1] /\ NextLine \in FileLines
         /\ ~(at < Len(Lines)) => NextLine = EmptyLine
<1>1. at \in Nat /\ file \in UnitFiles
  <2>1. file \in UnitFiles /\ at \in 0..Len(Lines) + 1
    BY DEF TypeOK
  <2> QED
    BY <2>1, FileIs
<1>2. at < Len(file.lines) => at + 1 \in 1..Len(Lines)
  BY <1>1, FileIs DEF Lines
<1> QED
  BY <1>1, <1>2, FileIs DEF NextLine, Lines

LEMMA AttributeIs ==
  ASSUME TypeOK, attrs # <<>>
  PROVE  /\ Attribute \in FileLines /\ Attribute.kind = "attr" /\ Attribute = attrs[1]
         /\ Attribute.text \in Seq(Tokens) /\ Attribute.words \in Seq(STRING)
         /\ Tail(attrs) \in Seq(Attrs) /\ Len(attrs) \in Nat \ {0} /\ Len(Tail(attrs)) = Len(attrs) - 1
         /\ \A i \in 1..Len(attrs) - 1 : Tail(attrs)[i] = attrs[i + 1]
<1>1. attrs \in Seq(Attrs)
  BY DEF TypeOK, Attrs
<1>2. /\ Head(attrs) \in Attrs /\ Tail(attrs) \in Seq(Attrs) /\ Len(Tail(attrs)) = Len(attrs) - 1
      /\ \A i \in 1..Len(Tail(attrs)) : Tail(attrs)[i] = attrs[i + 1]
  BY <1>1, HeadTailProperties
<1>3. Len(attrs) \in Nat \ {0} /\ Head(attrs) = attrs[1]
  BY <1>1, EmptySeq, LenProperties
<1>4. Attribute \in Attrs
  BY <1>2 DEF Attribute
<1> QED
  BY <1>2, <1>3, <1>4, LineIs DEF Attribute, Attrs

(* The unit keeps its fields. *)
UnitOK ==
  /\ DOMAIN unit = DOMAIN NewUnit /\ DOMAIN unit.times = DOMAIN NewUnit.times
  /\ DOMAIN unit.lists = ListAttrs
  /\ unit.type \in ServiceTypes \cup {"undefined"} /\ unit.restart \in Restarts
  /\ \A a \in DOMAIN unit.times : unit.times[a] \in Micros

LEMMA NewUnitFields ==
  /\ DOMAIN NewUnit = {"lists", "targets", "env", "type", "restart", "times"}
  /\ DOMAIN NewUnit.times = (ServiceTimes \ {"TimeoutSec"}) \cup TimerTimes
BY DEF NewUnit

LEMMA StoredTime ==
  ASSUME TypeOK, UnitOK, attrs # <<>>, NEW name \in ServiceTimes \cup TimerTimes,
         NEW result, result.micros \in Micros, StoreTime(name, result)
  PROVE  UnitOK'
<1>1. CASE result.outcome = "hangs"
  BY <1>1 DEF StoreTime, UnitOK
<1>2. CASE result.outcome # "hangs"
  <2>1. unit' = [unit EXCEPT !.times = [a \in DOMAIN unit.times |->
                     IF a \in Sets(name, Attribute.text) THEN result.micros ELSE unit.times[a]]]
    BY <1>2 DEF StoreTime
  <2> QED
    BY <2>1, NewUnitFields DEF UnitOK
<1> QED
  BY <1>1, <1>2

(* What the readers leave of a time is a time. *)
LEMMA TimeRead ==
  ASSUME TypeOK, UnitOK, attrs # <<>>, NEW name \in ServiceTimes \cup TimerTimes
  PROVE  /\ ReadWhole(Attribute.text, Old(name)).micros \in Micros
         /\ ReadLeading(Attribute.text, Old(name)).micros \in Micros
         /\ ReadNumber(Attribute.text, Old(name)).micros \in Micros
<1>1. Old(name) \in Micros
  <2>1. (IF name = "TimeoutSec" THEN "TimeoutStopSec" ELSE name) \in DOMAIN unit.times
    BY NewUnitFields DEF UnitOK, ServiceTimes, TimerTimes
  <2> QED
    BY <2>1 DEF Old, UnitOK
<1>2. Nat \subseteq Micros /\ Forever \in Micros
  BY DEF Micros
<1> QED
  BY <1>1, <1>2, AttributeIs, ReadersRead

LEMMA UnitKept ==
  ASSUME TypeOK, UnitOK, [Next]_vars
  PROVE  UnitOK'
<1> USE NewUnitFields
<1>1. CASE StoreList
  BY <1>1 DEF StoreList, UnitOK
<1>2. CASE StoreTarget
  BY <1>2 DEF StoreTarget, UnitOK
<1>3. CASE StoreEnvironment
  BY <1>3 DEF StoreEnvironment, UnitOK
<1>4. CASE StoreRestartSec
  <2>1. attrs # <<>> /\ "RestartSec" \in ServiceTimes \cup TimerTimes
    BY <1>4 DEF StoreRestartSec, Has, ServiceTimes
  <2> QED
    BY <1>4, <2>1, TimeRead, StoredTime DEF StoreRestartSec
<1>5. CASE StoreTimeout
  <2>1. attrs # <<>> /\ Attribute.name \in ServiceTimes \cup TimerTimes
    BY <1>5 DEF StoreTimeout, Has, ServiceTimes
  <2> QED
    BY <1>5, <2>1, TimeRead, StoredTime DEF StoreTimeout
<1>6. CASE StoreStopTimeout
  <2>1. attrs # <<>> /\ Attribute.name \in ServiceTimes \cup TimerTimes
    BY <1>6 DEF StoreStopTimeout, Has, ServiceTimes
  <2> QED
    BY <1>6, <2>1, TimeRead, StoredTime DEF StoreStopTimeout
<1>7. CASE StoreInterval
  <2>1. attrs # <<>> /\ Attribute.name \in ServiceTimes \cup TimerTimes
    BY <1>7 DEF StoreInterval, Has
  <2> QED
    BY <1>7, <2>1, TimeRead, StoredTime DEF StoreInterval
<1>8. CASE StoreRestart
  BY <1>8 DEF StoreRestart, UnitOK, Restarts
<1>9. CASE StoreType
  <2>1. TypeNamed(Attribute.words[1]) \in ServiceTypes \cup {"undefined"}
    BY DEF TypeNamed
  <2> QED
    BY <1>9, <2>1 DEF StoreType, UnitOK
<1>10. CASE EndSection
  <2>1. DefaultType(bits) \in ServiceTypes
    BY DEF DefaultType, ServiceTypes
  <2> QED
    BY <1>10, <2>1 DEF EndSection, UnitOK
<1>11. CASE UNCHANGED unit
  BY <1>11 DEF UnitOK
<1> QED
  BY <1>1, <1>2, <1>3, <1>4, <1>5, <1>6, <1>7, <1>8, <1>9, <1>10, <1>11
     DEF Next, vars, StoreAttribute, Open, SkipComment, EnterSection, InvalidHeading, Finish,
         ReadLine, SectionAtEof, StoreForType, IgnoreTimer, Ignore

LEMMA ReaderKept ==
  ASSUME TypeOK, ReaderOK, [Next]_vars
  PROVE  TypeOK' /\ ReaderOK'
<1>1. UnitOK
  BY NewUnitFields DEF TypeOK, ReaderOK, UnitOK
<1>2. UnitOK'
  BY <1>1, UnitKept
<1>3. /\ file \in UnitFiles /\ Len(Lines) \in Nat /\ at \in 0..Len(Lines) + 1 /\ at \in Nat
      /\ file.newline \in BOOLEAN
  <2>1. file \in UnitFiles /\ at \in 0..Len(Lines) + 1
    BY DEF TypeOK
  <2> QED
    BY <2>1, FileIs
<1>4. file' = file /\ Lines' = Lines /\ file.lines = Lines
  BY DEF Next, vars, StoreAttribute, Open, SkipComment, EnterSection, InvalidHeading, Finish,
         ReadLine, SectionAtEof, StoreForType, IgnoreTimer, Ignore, EndSection, Stored, Getline,
         StoreList, StoreTarget, StoreEnvironment, StoreRestartSec, StoreTimeout, StoreStopTimeout,
         StoreInterval, StoreRestart, StoreType, StoreTime, Lines
<1> DEFINE Place == /\ pc \in {"open", "top", "section", "apply", "done", "pushes", "hangs"}
                    /\ at \in 0..Len(Lines) + 1 /\ eof \in BOOLEAN
                    /\ eof => at >= Len(Lines)
                    /\ (eof <=> at > Len(Lines) \/ (at = Len(Lines) /\ ~file.newline /\ pc # "open"))
                    /\ (pc = "open" <=> at = 0)
           Read == /\ section \in Sections \cup {""} /\ line \in FileLines \cup {EmptyLine} /\ attrs \in Seq(Attrs)
                   /\ bits \subseteq {"Type", "ExecStart", "BusName"}
<1>5. Place
  BY DEF TypeOK, ReaderOK
<1>22. Read
  BY DEF TypeOK, Attrs
<1>18. SUFFICES Place' /\ Read'
  <2>1. Place' /\ Read' => TypeOK'
    BY <1>2, <1>3, <1>4 DEF TypeOK, UnitOK, Attrs
  <2>2. Place' => ReaderOK'
    BY <1>2, <1>4 DEF ReaderOK, UnitOK
  <2> QED
    BY <2>1, <2>2
<1> HIDE DEF Read
<1>6. ASSUME Getline, ~eof, pc' # "open"
      PROVE  /\ at' \in 0..Len(Lines) + 1 /\ eof' \in BOOLEAN /\ at' # 0 /\ (eof' => at' >= Len(Lines))
             /\ (eof' <=> at' > Len(Lines) \/ (at' = Len(Lines) /\ ~file.newline))
  <2>1. at <= Len(Lines)
    BY <1>3, <1>5, <1>6
  <2>2. at' = at + 1
    BY <1>6 DEF Getline
  <2>3. eof' \in BOOLEAN /\ (eof' <=> (at + 1 > Len(Lines) \/ (at + 1 = Len(Lines) /\ ~file.newline)))
    BY <1>4, <1>6 DEF Getline
  <2> QED
    BY <1>3, <2>1, <2>2, <2>3
<1>7. NextLine \in FileLines \cup {EmptyLine}
  BY NextLineIs
<1>8. ASSUME Stored, pc' \in {pc, "pushes", "hangs"}, pc = "apply", attrs # <<>>,
             bits' \subseteq {"Type", "ExecStart", "BusName"}
      PROVE  Place' /\ Read'
  <2>1. attrs' \in Seq(Attrs)
    BY <1>8, AttributeIs DEF Stored
  <2>2. Place'
    BY <1>4, <1>5, <1>8 DEF Stored
  <2>3. Read'
    BY <1>22, <1>8, <2>1 DEF Stored, Read
  <2> QED
    BY <2>2, <2>3
<1>9. CASE Open
  <2>1. ~eof /\ pc' = "top" /\ Getline /\ line' = NextLine /\ UNCHANGED <<section, attrs, bits>>
    BY <1>3, <1>5, <1>9 DEF Open
  <2>2. Place'
    BY <1>4, <1>6, <2>1
  <2>3. Read'
    BY <1>22, <1>7, <2>1 DEF Read
  <2> QED
    BY <2>2, <2>3
<1>10. CASE SkipComment
  <2>1. ~eof /\ pc = "top" /\ pc' = pc /\ Getline /\ UNCHANGED <<line, section, attrs, bits>>
    BY <1>10 DEF SkipComment
  <2>2. Place'
    BY <1>4, <1>6, <2>1
  <2>3. Read'
    BY <1>22, <2>1 DEF Read
  <2> QED
    BY <2>2, <2>3
<1>11. CASE EnterSection
  <2>1. Place'
    BY <1>4, <1>5, <1>11 DEF EnterSection
  <2>2. Read'
    BY <1>22, <1>11, EmptySeq DEF EnterSection, Read
  <2> QED
    BY <2>1, <2>2
<1>12. CASE UNCHANGED vars
  <2>1. Place'
    BY <1>4, <1>5, <1>12 DEF vars
  <2>2. Read'
    BY <1>22, <1>12 DEF vars, Read
  <2> QED
    BY <2>1, <2>2
<1>13. CASE Finish
  <2>1. Place'
    BY <1>4, <1>5, <1>13 DEF Finish
  <2>2. Read'
    BY <1>22, <1>13 DEF Finish, Read
  <2> QED
    BY <2>1, <2>2
<1>14. CASE ReadLine
  <2>1. attrs' \in Seq(Attrs)
    <3>1. attrs \in Seq(Attrs)
      BY <1>22 DEF Read
    <3>2. NextLine.kind = "attr" => Append(attrs, NextLine) \in Seq(Attrs)
      BY <1>7, <3>1, EmptyLineIs, AppendProperties DEF Attrs
    <3> QED
      BY <1>14, <3>1, <3>2 DEF ReadLine
  <2>2. pc' \in {"section", "apply"} /\ line' = NextLine /\ ~eof /\ Getline
        /\ UNCHANGED <<file, section, bits>>
    BY <1>14 DEF ReadLine
  <2>3. Place'
    BY <1>4, <1>6, <2>2
  <2>4. Read'
    BY <1>7, <1>22, <2>1, <2>2 DEF Read
  <2> QED
    BY <2>3, <2>4
<1>15. CASE SectionAtEof
  <2>1. Place'
    BY <1>4, <1>5, <1>15 DEF SectionAtEof
  <2>2. Read'
    BY <1>22, <1>15 DEF SectionAtEof, Read
  <2> QED
    BY <2>1, <2>2
<1>16. CASE EndSection
  <2>1. Place'
    BY <1>4, <1>5, <1>16 DEF EndSection
  <2>2. Read'
    BY <1>22, <1>16 DEF EndSection, Read
  <2> QED
    BY <2>1, <2>2
<1>17. CASE StoreAttribute
  <2>1. Stored /\ pc = "apply" /\ attrs # <<>> /\ pc' \in {pc, "pushes", "hangs"}
    BY <1>17 DEF StoreAttribute, StoreList, StoreTarget, StoreEnvironment, StoreRestartSec, StoreTimeout,
         StoreStopTimeout, StoreInterval, StoreRestart, StoreType, StoreForType, IgnoreTimer, Ignore,
         StoreTime, Has, PushWord
  <2>2. bits' \subseteq {"Type", "ExecStart", "BusName"}
    <3>1. bits \subseteq {"Type", "ExecStart", "BusName"}
      BY <1>22 DEF Read
    <3> QED
      BY <1>17, <3>1 DEF StoreAttribute, StoreList, StoreTarget, StoreEnvironment, StoreRestartSec,
         StoreTimeout, StoreStopTimeout, StoreInterval, StoreRestart, StoreType, StoreForType, IgnoreTimer,
         Ignore, StoreTime, Has
  <2> QED
    BY <1>8, <2>1, <2>2
<1> HIDE DEF Place
<1> QED
  BY <1>9, <1>10, <1>11, <1>12, <1>13, <1>14, <1>15, <1>16, <1>17 DEF Next, InvalidHeading

-----------------------------------------------------------------------------
(***************************************************************************)
(* What the lines say                                                      *)
(***************************************************************************)

(* What line k adds to the list a. *)
Said(k, a) ==
  IF Says(k, "Unit", a) THEN [n \in DOMAIN Lines[k].words |-> <<Lines[k].words[n]>>] ELSE <<>>

Names == Seq(Seq(STRING))

LEMMA NamesAdd ==
  ASSUME file \in UnitFiles, NEW a
  PROVE  /\ NamesUpTo(a) \in [0..Len(Lines) -> Names]
         /\ NamesUpTo(a)[0] = <<>>
         /\ \A k \in 1..Len(Lines) : NamesUpTo(a)[k] = NamesUpTo(a)[k - 1] \o Said(k, a)
<1> DEFINE n == Len(Lines)
           S == NamesUpTo(a)
           step == [pr \in (1..n) \X Names |-> pr[2] \o Said(pr[1], a)]
<1>1. n \in Nat
  BY FileIs
<1>2. \A k \in 1..n : Said(k, a) \in Names
  <2>1. ASSUME NEW k \in 1..n, NEW w \in Seq(STRING), w = Lines[k].words
        PROVE  [i \in DOMAIN w |-> <<w[i]>>] \in Names
    <3>1. DOMAIN w = 1..Len(w) /\ Len(w) \in Nat /\ \A i \in 1..Len(w) : w[i] \in STRING
      BY LenProperties
    <3>2. [i \in 1..Len(w) |-> <<w[i]>>] \in Names
      BY <3>1 DEF Names
    <3> QED
      BY <3>1, <3>2
  <2>2. \A k \in 1..n : Lines[k].words \in Seq(STRING)
    BY FileIs, LineIs
  <2>3. <<>> \in Names
    BY DEF Names
  <2> QED
    BY <2>1, <2>2, <2>3 DEF Said
<1>3. step \in [(1..n) \X Names -> Names]
  <2>1. \A k \in 1..n, v \in Names : v \o Said(k, a) \in Names
    BY <1>2 DEF Names
  <2> QED
    BY <2>1
<1>4. PICK f \in [0..n -> Names] : f[0] = <<>> /\ \A k \in 1..n : f[k] = step[<<k, f[k - 1]>>]
  <2>1. <<>> \in Names
    BY DEF Names
  <2> HIDE DEF step, n
  <2>2. IsIteration(n, Names, <<>>, step)
    BY <1>1, <1>3, <2>1 DEF IsIteration
  <2> QED
    BY <2>2, UpToFunction
<1>5. \A k \in 1..n : f[k] = f[k - 1] \o Said(k, a)
  BY <1>1, <1>4
<1>6. f = [k \in 0..n |-> IF k = 0 THEN <<>> ELSE f[k - 1] \o Said(k, a)]
  BY <1>1, <1>4, <1>5
<1>7. S = CHOOSE g : g = [k \in 0..n |-> IF k = 0 THEN <<>> ELSE g[k - 1] \o Said(k, a)]
  BY DEF NamesUpTo, Said
<1>8. S = [k \in 0..n |-> IF k = 0 THEN <<>> ELSE S[k - 1] \o Said(k, a)]
  BY <1>6, <1>7
<1> HIDE DEF S
<1>9. S[0] = <<>> /\ \A k \in 1..n : S[k] = S[k - 1] \o Said(k, a)
  <2>1. 0 \in 0..n /\ \A k \in 1..n : k \in 0..n /\ k # 0
    BY <1>1
  <2> HIDE DEF n
  <2>2. S[0] = <<>>
    BY <1>8, <2>1, Zenon
  <2>3. ASSUME NEW k \in 1..n
        PROVE  S[k] = S[k - 1] \o Said(k, a)
    BY <1>8, <2>1, Zenon
  <2> QED
    BY <2>2, <2>3
<1>10. \A k \in 0..n : f[k] = S[k]
  <2> HIDE DEF n
  <2> HIDE DEF step
  <2>1. SameSteps(n, f, S)
    <3>1. f[0] = S[0]
      BY <1>4, <1>9, Zenon
    <3>2. ASSUME NEW k \in 1..n, f[k - 1] = S[k - 1]
          PROVE  f[k] = S[k]
      BY <1>5, <1>9, <3>2, Zenon
    <3> QED
      BY <1>1, <3>1, <3>2 DEF SameSteps
  <2> QED
    <3>1. SameValues(n, f, S)
      BY <2>1, SameUpTo
    <3> QED
      BY <3>1 DEF SameValues
<1>11. S \in [0..n -> Names]
  BY <1>4, <1>8, <1>10
<1> QED
  BY <1>9, <1>11 DEF S

(* Lines that say nothing of a list leave it alone. *)
LEMMA NamesStay ==
  ASSUME file \in UnitFiles, NEW a, NEW k \in 0..Len(Lines), NEW p \in k..Len(Lines),
         \A r \in k + 1..p : ~Says(r, "Unit", a)
  PROVE  NamesUpTo(a)[p] = NamesUpTo(a)[k]
<1> DEFINE S == NamesUpTo(a)
<1>1. Len(Lines) \in Nat
  BY FileIs
<1>2. ASSUME NEW r \in k + 1..p
      PROVE  S[r] = S[r - 1]
  <2>1. r \in 1..Len(Lines) /\ r - 1 \in 0..Len(Lines)
    BY <1>1
  <2>2. S[r] = S[r - 1] \o Said(r, a) /\ S[r - 1] \in Names
    BY <2>1, NamesAdd
  <2>3. Said(r, a) = <<>>
    BY DEF Said
  <2> HIDE DEF S
  <2> QED
    BY <2>2, <2>3 DEF Names
<1> HIDE DEF S
<1>3. S[p] = S[k]
  BY <1>1, <1>2, SameBetween
<1> QED
  BY <1>3 DEF S

(* A short list is split as it is written. *)
LEMMA ShortEntries ==
  ASSUME NEW words \in Seq(STRING), Len(words) <= 2
  PROVE  Entries(words) = [n \in DOMAIN words |-> <<words[n]>>]
<1>1. Len(words) \in Nat /\ DOMAIN words = 1..Len(words)
  BY LenProperties
<1>2. ASSUME NEW n \in DOMAIN words
      PROVE  Entry(words, n) = <<words[n]>>
  <2>1. CASE n = Len(words)
    BY <2>1 DEF Entry
  <2>2. CASE n # Len(words)
    <3>1. n = 1 /\ Len(words) = 2
      BY <1>1, <2>2
    <3>2. Entry(words, n) = SubSeq(words, 1, 1)
      BY <2>2, <3>1 DEF Entry
    <3> QED
      BY <1>1, <3>1, <3>2
  <2> QED
    BY <2>1, <2>2
<1> QED
  BY <1>2 DEF Entries

(* An attribute after the heading h, with no other heading before it, is    *)
(* one of the section of h.                                                *)
LEMMA SaysWhere ==
  ASSUME file \in UnitFiles, NEW h \in 1..Len(Lines), NEW which, Lines[h] = Heading(which),
         NEW p \in h + 1..Len(Lines), Lines[p].kind = "attr",
         \A r \in h + 1..p - 1 : Lines[r].kind # "heading", NEW s, NEW a
  PROVE  Says(p, s, a) <=> s = which /\ Lines[p].neat /\ Lines[p].name = a
<1>1. Len(Lines) \in Nat
  BY FileIs
<1>2. ASSUME NEW j \in 1..p - 1, Lines[j] = Heading(s), \A k \in j + 1..p - 1 : Lines[k].kind # "heading"
      PROVE  s = which
  <2>1. Lines[j].kind = "heading" /\ Lines[h].kind = "heading"
    BY <1>2, HeadingIs
  <2>2. ~(j < h)
    <3>1. j < h => h \in j + 1..p - 1
      BY <1>1
    <3> QED
      BY <1>2, <2>1, <3>1
  <2>3. ~(h < j)
    <3>1. h < j => j \in h + 1..p - 1
      BY <1>1
    <3> QED
      BY <2>1, <3>1
  <2>4. j = h
    BY <1>1, <2>2, <2>3
  <2> QED
    BY <1>2, <2>4, HeadingIs
<1>3. h \in 1..p - 1
  BY <1>1
<1> QED
  BY <1>2, <1>3 DEF Says

-----------------------------------------------------------------------------
(***************************************************************************)
(* The parsers of the sections: one attribute after the other              *)
(***************************************************************************)

LEMMA ReadIs ==
  ASSUME TypeOK
  PROVE  /\ LinesRead \in Nat /\ Len(Lines) \in Nat /\ at \in Nat /\ file \in UnitFiles
         /\ LinesRead <= Len(Lines) /\ LinesRead <= at /\ at <= Len(Lines) + 1
         /\ at <= Len(Lines) => LinesRead = at
         /\ at > Len(Lines) => LinesRead = Len(Lines)
         /\ DOMAIN Lines = 1..Len(Lines)
<1>1. file \in UnitFiles /\ at \in 0..Len(Lines) + 1
  BY DEF TypeOK
<1>2. Len(Lines) \in Nat /\ DOMAIN Lines = 1..Len(Lines)
  BY <1>1, FileIs
<1>3. PICK n \in Nat : n = Len(Lines)
  BY <1>2
<1>4. at \in Nat /\ at <= n + 1
  BY <1>1, <1>3
<1>5. LinesRead = IF at > n THEN n ELSE at
  BY <1>3 DEF LinesRead
<1>6. /\ LinesRead \in Nat /\ LinesRead <= n /\ LinesRead <= at
      /\ at <= n => LinesRead = at
      /\ at > n => LinesRead = n
  BY <1>3, <1>4, <1>5
<1> QED
  BY <1>1, <1>2, <1>3, <1>4, <1>6

LEMMA LineNumber ==
  ASSUME TypeOK, NEW i
  PROVE  i \in DOMAIN Lines <=> i \in Nat /\ i >= 1 /\ i <= Len(Lines)
<1>1. DOMAIN Lines = 1..Len(Lines) /\ Len(Lines) \in Nat
  BY ReadIs
<1>2. PICK n \in Nat : n = Len(Lines)
  BY <1>1
<1>3. i \in 1..n <=> i \in Nat /\ i >= 1 /\ i <= n
  OBVIOUS
<1> QED
  BY <1>1, <1>2, <1>3, Zenon

(* The next attribute is that of line K: no line between k and K says      *)
(* anything, and K says what the attribute is.                             *)
Attends(k, K) ==
  /\ K \in k + 1..LinesRead /\ Lines[K] = Attribute
  /\ \A r \in k + 1..K - 1 : \A s, a : ~Says(r, s, a)
  /\ \A s, a : Says(K, s, a) <=> s = section /\ Attribute.neat /\ Attribute.name = a

LEMMA AttributeAt ==
  ASSUME TypeOK, pc = "apply", attrs # <<>>, NEW h, NEW k, NEW place, AttrsInv(h, k, place)
  PROVE  Attends(k, place[1]) /\ k \in Nat /\ h \in Nat /\ h >= 1 /\ k >= h
<1> DEFINE K == place[1]
<1>1. /\ h \in 1..LinesRead /\ k \in h..LinesRead /\ place \in [DOMAIN attrs -> k + 1..LinesRead]
      /\ section \in Sections /\ Lines[h] = Heading(section)
      /\ \A p \in h + 1..LinesRead : Lines[p].kind = "heading" => p = at
      /\ \A i, j \in DOMAIN attrs : i < j => place[i] < place[j]
      /\ \A i \in DOMAIN attrs : attrs[i] = Lines[place[i]]
      /\ \A p \in k + 1..LinesRead : Lines[p].kind = "attr" => \E i \in DOMAIN attrs : place[i] = p
  BY DEF AttrsInv
<1>2. /\ LinesRead \in Nat /\ Len(Lines) \in Nat /\ at \in Nat /\ file \in UnitFiles
      /\ LinesRead <= Len(Lines) /\ LinesRead <= at
  BY ReadIs
<1>3. DOMAIN attrs = 1..Len(attrs) /\ Len(attrs) \in Nat \ {0} /\ Attribute = attrs[1] /\ Attribute.kind = "attr"
  <2>1. attrs \in Seq(Attrs)
    BY DEF TypeOK, Attrs
  <2> QED
    BY <2>1, AttributeIs, LenProperties
<1>4. 1 \in DOMAIN attrs /\ \A i \in DOMAIN attrs : i \in Nat /\ i >= 1
  BY <1>3
<1>5. K \in k + 1..LinesRead /\ Lines[K] = Attribute /\ Lines[K].kind = "attr"
  BY <1>1, <1>3, <1>4
<1>6. k \in Nat /\ h \in Nat /\ h >= 1 /\ k >= h /\ K \in Nat /\ \A i \in DOMAIN attrs : place[i] \in Nat
  BY <1>1, <1>2, <1>5
<1>7. ASSUME NEW r \in k + 1..K - 1
      PROVE  \A s, a : ~Says(r, s, a)
  <2>1. r \in k + 1..LinesRead /\ r < K
    BY <1>2, <1>5, <1>6
  <2>2. \A i \in DOMAIN attrs : place[i] >= K
    BY <1>1, <1>4, <1>6
  <2>3. Lines[r].kind # "attr"
    BY <1>1, <1>6, <2>1, <2>2
  <2> QED
    BY <2>3 DEF Says
<1>8. \A r \in h + 1..K - 1 : Lines[r].kind # "heading"
  BY <1>1, <1>2, <1>5, <1>6
<1>9. h \in 1..Len(Lines) /\ K \in h + 1..Len(Lines)
  BY <1>1, <1>2, <1>5, <1>6
<1> HIDE DEF K
<1>10. \A s, a : Says(K, s, a) <=> s = section /\ Lines[K].neat /\ Lines[K].name = a
  BY <1>1, <1>2, <1>5, <1>8, <1>9, SaysWhere
<1> QED
  BY <1>5, <1>6, <1>7, <1>10 DEF Attends, K

(* When it is stored, the reader goes on behind it.                        *)
LEMMA Advance ==
  ASSUME TypeOK, pc = "apply", attrs # <<>>, NEW h, NEW k, NEW place,
         AttrsInv(h, k, place), EndInv, Stored, pc' = pc,
         TypeBefore(h)', ListsUpTo(place[1])', TimesUpTo(place[1])', KeysInv(h, place[1])'
  PROVE  PlaceInv'
<1> DEFINE K == place[1]
<1>1. /\ h \in 1..LinesRead /\ k \in h..LinesRead /\ place \in [DOMAIN attrs -> k + 1..LinesRead]
      /\ section \in Sections /\ Lines[h] = Heading(section) /\ at > h
      /\ \A p \in h + 1..LinesRead : Lines[p].kind = "heading" => p = at
      /\ \A i, j \in DOMAIN attrs : i < j => place[i] < place[j]
      /\ \A i \in DOMAIN attrs : attrs[i] = Lines[place[i]]
      /\ \A p \in k + 1..LinesRead : Lines[p].kind = "attr" => \E i \in DOMAIN attrs : place[i] = p
  BY DEF AttrsInv
<1>2. /\ LinesRead \in Nat /\ LinesRead <= Len(Lines)
      /\ K \in k + 1..LinesRead /\ k \in Nat /\ h \in Nat /\ h >= 1 /\ k >= h
  BY ReadIs, AttributeAt DEF Attends
<1>3. /\ attrs' = Tail(attrs) /\ UNCHANGED <<file, at, eof, line, section>>
      /\ Lines' = Lines /\ LinesRead' = LinesRead
  BY DEF Stored, LinesRead, Lines
<1>4. /\ DOMAIN attrs = 1..Len(attrs) /\ Len(attrs) \in Nat \ {0}
      /\ DOMAIN attrs' = 1..Len(attrs) - 1
      /\ \A i \in 1..Len(attrs) - 1 : attrs'[i] = attrs[i + 1] /\ i \in DOMAIN attrs /\ i + 1 \in DOMAIN attrs
  <2>1. attrs \in Seq(Attrs) /\ Tail(attrs) \in Seq(Attrs) /\ Len(attrs) \in Nat \ {0}
        /\ Len(Tail(attrs)) = Len(attrs) - 1
        /\ \A i \in 1..Len(attrs) - 1 : Tail(attrs)[i] = attrs[i + 1]
    BY AttributeIs DEF TypeOK, Attrs
  <2>2. DOMAIN attrs = 1..Len(attrs) /\ DOMAIN Tail(attrs) = 1..Len(attrs) - 1
    BY <2>1, LenProperties
  <2> QED
    BY <1>3, <2>1, <2>2
<1>5. PICK rest : rest = [i \in 1..Len(attrs) - 1 |-> place[i + 1]]
  OBVIOUS
<1>6. \A i \in DOMAIN attrs : place[i] \in Nat /\ place[i] \in k + 1..LinesRead
  BY <1>1, <1>2
<1>7. \A i \in 1..Len(attrs) - 1 : rest[i] = place[i + 1] /\ rest[i] \in K + 1..LinesRead
  <2>1. ASSUME NEW i \in 1..Len(attrs) - 1
        PROVE  place[i + 1] \in K + 1..LinesRead
    <3>1. 1 \in DOMAIN attrs /\ i + 1 \in DOMAIN attrs /\ 1 < i + 1
      BY <1>4
    <3>2. place[1] < place[i + 1]
      BY <1>1, <3>1
    <3> QED
      BY <1>2, <1>6, <3>1, <3>2
  <2> QED
    BY <1>5, <2>1
<1>8. rest \in [DOMAIN attrs' -> K + 1..LinesRead']
  BY <1>3, <1>4, <1>5, <1>7
<1>9. \A i, j \in DOMAIN attrs' : i < j => rest[i] < rest[j]
  <2>1. ASSUME NEW i \in 1..Len(attrs) - 1, NEW j \in 1..Len(attrs) - 1, i < j
        PROVE  rest[i] < rest[j]
    <3>1. i + 1 < j + 1 /\ i + 1 \in DOMAIN attrs /\ j + 1 \in DOMAIN attrs
      BY <1>4, <2>1
    <3> QED
      BY <1>1, <1>7, <3>1
  <2> QED
    BY <1>4, <2>1
<1>10. \A i \in DOMAIN attrs' : attrs'[i] = Lines[rest[i]]
  <2>1. ASSUME NEW i \in 1..Len(attrs) - 1
        PROVE  attrs'[i] = Lines[rest[i]]
    <3>1. attrs'[i] = attrs[i + 1] /\ i + 1 \in DOMAIN attrs /\ rest[i] = place[i + 1]
      BY <1>4, <1>7
    <3>2. attrs[i + 1] = Lines[place[i + 1]]
      BY <1>1, <3>1, Zenon
    <3> QED
      BY <3>1, <3>2, Zenon
  <2> QED
    BY <1>4, <2>1
<1>11. ASSUME NEW p \in K + 1..LinesRead, Lines[p].kind = "attr"
       PROVE  \E i \in DOMAIN attrs' : rest[i] = p
  <2>1. p \in k + 1..LinesRead /\ p > K
    BY <1>2
  <2>2. PICK i \in DOMAIN attrs : place[i] = p
    BY <1>1, <1>11, <2>1
  <2>3. i \in Nat /\ i > 1 /\ i <= Len(attrs)
    BY <1>2, <1>4, <2>1, <2>2
  <2>4. i - 1 \in 1..Len(attrs) - 1 /\ (i - 1) + 1 = i
    BY <1>4, <2>3
  <2> QED
    BY <1>4, <1>7, <2>2, <2>4
<1>12. h \in 1..LinesRead' /\ K \in 1..LinesRead' /\ K \in h..LinesRead'
  BY <1>1, <1>2, <1>3
<1> HIDE DEF K
<1>13. AttrsInv(h, K, rest)'
  BY <1>1, <1>3, <1>8, <1>9, <1>10, <1>11, <1>12 DEF AttrsInv
<1>14. EndInv'
  BY <1>3 DEF EndInv
<1>15. SectionInv(h, K, rest)'
  BY <1>13, <1>14 DEF SectionInv, K
<1>16. pc' = "apply"
  OBVIOUS
<1> QED
  BY <1>8, <1>12, <1>15, <1>16 DEF PlaceInv

(* What storing the attribute of line K does to the lists, the times, and  *)
(* the type with the keys it depends on.                                   *)
ListsEffect(K) ==
  ShortLists =>
    \A a \in ListAttrs :
      unit'.lists[a] = IF Says(K, "Unit", a) THEN unit.lists[a] \o Said(K, a) ELSE unit.lists[a]

TimesEffect(K) ==
  /\ DOMAIN unit'.times = DOMAIN unit.times
  /\ \A s \in {"Service", "Timer"}, a \in DOMAIN unit.times :
       /\ a \in Known(s) /\ (s = "Timer" => file.timer)
       /\ a \in {"TimeoutStartSec", "TimeoutStopSec"} => ~Says(K, "Service", "TimeoutSec")
       => IF Says(K, s, a) THEN ReadAs(a, Lines[K].text, unit'.times[a]) = Ok(unit'.times[a])
          ELSE unit'.times[a] = unit.times[a]

KeysEffect(K) ==
  /\ bits' = bits \cup {n \in TypeKeys : Says(K, "Service", n)}
  /\ unit'.type = IF Says(K, "Service", "Type") THEN TypeNamed(Lines[K].words[1]) ELSE unit.type

LEMMA ListsGrow ==
  ASSUME TypeOK, NEW k \in Nat, NEW K, Attends(k, K), file' = file, ListsUpTo(k), ListsEffect(K)
  PROVE  ListsUpTo(K)'
<1>1. /\ LinesRead \in Nat /\ LinesRead <= Len(Lines) /\ Len(Lines) \in Nat /\ file \in UnitFiles
      /\ K \in k + 1..LinesRead
  BY ReadIs DEF Attends
<1>2. k \in 0..Len(Lines) /\ K - 1 \in k..Len(Lines) /\ K \in 1..Len(Lines) /\ K - 1 \in 0..Len(Lines)
  BY <1>1
<1>3. SUFFICES ASSUME ShortLists, NEW a \in ListAttrs
               PROVE  unit'.lists[a] = NamesUpTo(a)[K]
  BY NamesUnchanged, TidyUnchanged DEF ListsUpTo
<1>4. NamesUpTo(a)[K - 1] = NamesUpTo(a)[k]
  BY <1>1, <1>2, NamesStay DEF Attends
<1>5. NamesUpTo(a)[K] = NamesUpTo(a)[k] \o Said(K, a) /\ NamesUpTo(a)[k] \in Names
  BY <1>1, <1>2, <1>4, NamesAdd
<1>6. unit.lists[a] = NamesUpTo(a)[k]
  BY <1>3 DEF ListsUpTo
<1>7. CASE Says(K, "Unit", a)
  BY <1>3, <1>5, <1>6, <1>7 DEF ListsEffect
<1>8. CASE ~Says(K, "Unit", a)
  <2>1. Said(K, a) = <<>>
    BY <1>8 DEF Said
  <2>2. NamesUpTo(a)[K] = NamesUpTo(a)[k]
    BY <1>5, <2>1 DEF Names
  <2> QED
    BY <1>3, <1>6, <1>8, <2>2 DEF ListsEffect
<1> QED
  BY <1>7, <1>8

LEMMA TimesGrow ==
  ASSUME TypeOK, NEW k \in Nat, NEW K, Attends(k, K), file' = file, TimesUpTo(k), TimesEffect(K)
  PROVE  TimesUpTo(K)'
<1>1. K \in k + 1..LinesRead /\ K \in Nat /\ Lines' = Lines
  BY ReadIs DEF Attends, Lines
<1> DEFINE Given(s, a, i, p) ==
             /\ a \in Known(s) /\ (s = "Timer" => file.timer)
             /\ Says(i, s, a) /\ \A j \in i + 1..p : ~Says(j, s, a)
             /\ a \in {"TimeoutStartSec", "TimeoutStopSec"} => \A j \in 1..p : ~Says(j, "Service", "TimeoutSec")
<1>2. SUFFICES ASSUME NEW s \in {"Service", "Timer"}, NEW a \in DOMAIN unit.times, NEW i \in 1..K, Given(s, a, i, K)
               PROVE  ReadAs(a, Lines[i].text, unit'.times[a]) = Ok(unit'.times[a])
  BY <1>1, SaysUnchanged DEF TimesUpTo, TimesEffect
<1>3. K \in 1..K
  BY <1>1
<1>4. CASE i = K
  BY <1>2, <1>3, <1>4 DEF TimesEffect
<1>5. CASE i # K
  <2>1. Says(i, s, a)
    BY <1>2
  <2>2. i \in 1..k
    <3>1. ~(i \in k + 1..K - 1)
      BY <2>1 DEF Attends
    <3> QED
      BY <1>1, <1>5, <3>1
  <2>3. K \in i + 1..K /\ (\A j \in i + 1..k : j \in i + 1..K) /\ (\A j \in 1..k : j \in 1..K)
    BY <1>1, <2>2
  <2>4. ~Says(K, s, a)
    BY <1>2, <2>3
  <2>5. Given(s, a, i, k)
    BY <1>2, <2>3
  <2>6. unit'.times[a] = unit.times[a]
    BY <1>2, <1>3, <2>4 DEF TimesEffect
  <2>7. ReadAs(a, Lines[i].text, unit.times[a]) = Ok(unit.times[a])
    BY <2>2, <2>5 DEF TimesUpTo
  <2> QED
    BY <2>6, <2>7
<1> QED
  BY <1>4, <1>5

LEMMA KeysGrow ==
  ASSUME TypeOK, NEW h \in Nat, NEW k \in Nat, h <= k, NEW K, Attends(k, K), file' = file, section' = section,
         KeysInv(h, k), KeysEffect(K)
  PROVE  KeysInv(h, K)'
<1>1. K \in k + 1..LinesRead /\ K \in Nat /\ Lines' = Lines
  BY ReadIs DEF Attends, Lines
<1>2. \A n : Says(K, "Service", n) => section = "Service"
  BY DEF Attends
<1>3. \A n : (\E j \in h + 1..K : Says(j, "Service", n))
               <=> (\E j \in h + 1..k : Says(j, "Service", n)) \/ Says(K, "Service", n)
  <2>1. ASSUME NEW n, NEW j \in h + 1..K, Says(j, "Service", n), j # K
        PROVE  j \in h + 1..k
    <3>1. ~(j \in k + 1..K - 1)
      BY <2>1 DEF Attends
    <3> QED
      BY <1>1, <2>1, <3>1
  <2>2. K \in h + 1..K /\ \A j \in h + 1..k : j \in h + 1..K
    BY <1>1
  <2> QED
    BY <2>1, <2>2
<1>4. bits' = {n \in TypeKeys : section = "Service" /\ \E j \in h + 1..K : Says(j, "Service", n)}
  BY <1>2, <1>3 DEF KeysInv, KeysEffect
<1>5. "Type" \in bits' =>
        \E j \in h + 1..K : Says(j, "Service", "Type") /\ unit'.type = TypeNamed(Lines[j].words[1])
  <2>1. CASE Says(K, "Service", "Type")
    <3>1. K \in h + 1..K
      BY <1>1
    <3> QED
      BY <2>1, <3>1 DEF KeysEffect
  <2>2. CASE ~Says(K, "Service", "Type")
    <3>1. unit'.type = unit.type /\ ("Type" \in bits' => "Type" \in bits)
      BY <2>2 DEF KeysEffect
    <3>2. \A j \in h + 1..k : j \in h + 1..K
      BY <1>1
    <3> QED
      BY <3>1, <3>2 DEF KeysInv
  <2> QED
    BY <2>1, <2>2
<1> QED
  BY <1>1, <1>4, <1>5, SaysUnchanged DEF KeysInv

(* The type of the only [Service] section is settled when a later section  *)
(* is read, which is not a [Service] section.                              *)
LEMMA TypeStays ==
  ASSUME NEW h \in Nat, file' = file, TypeBefore(h), Lines[h] = Heading(section), h \in DOMAIN Lines,
         unit'.type = unit.type \/ section = "Service"
  PROVE  TypeBefore(h)'
<1>1. Lines' = Lines /\ (Tidy' <=> Tidy) /\ \A j, s, a : Says(j, s, a)' <=> Says(j, s, a)
  BY TidyUnchanged, SaysUnchanged DEF Lines
<1>2. \A s, a : Places(s, a)' = Places(s, a)
  BY <1>1 DEF Places
<1>3. \A i : OnlyService(i)' <=> OnlyService(i)
  BY <1>1 DEF OnlyService
<1>4. CASE unit'.type = unit.type
  <2>1. TypeSettled' <=> TypeSettled
    BY <1>1, <1>2, <1>4 DEF TypeSettled
  <2> QED
    BY <1>1, <1>3, <2>1 DEF TypeBefore
<1>5. CASE section = "Service"
  <2>1. \A i \in DOMAIN Lines : OnlyService(i) => i = h
    BY <1>5 DEF OnlyService
  <2>2. ASSUME NEW i \in DOMAIN Lines, OnlyService(i), i < h
        PROVE  FALSE
    <3>1. h < h
      BY <2>1, <2>2
    <3> QED
      BY <3>1
  <2> QED
    BY <1>1, <1>3, <2>2 DEF TypeBefore
<1> QED
  BY <1>4, <1>5

(* An attribute of other things leaves them alone. *)
LEMMA ListsQuiet ==
  ASSUME NEW k, NEW K, Attends(k, K), unit'.lists = unit.lists,
         ~(section = "Unit" /\ Attribute.neat /\ Attribute.name \in ListAttrs)
  PROVE  ListsEffect(K)
BY DEF ListsEffect, Attends

LEMMA TimesQuiet ==
  ASSUME NEW k, NEW K, Attends(k, K), unit'.times = unit.times,
         ~(/\ section \in {"Service", "Timer"} /\ Attribute.neat /\ Attribute.name \in DOMAIN unit.times
           /\ Attribute.name \in Known(section) /\ (section = "Timer" => file.timer))
  PROVE  TimesEffect(K)
<1>1. ASSUME NEW s \in {"Service", "Timer"}, NEW a \in DOMAIN unit.times,
             a \in Known(s) /\ (s = "Timer" => file.timer)
      PROVE  ~Says(K, s, a)
  BY <1>1 DEF Attends
<1> QED
  BY <1>1 DEF TimesEffect

LEMMA KeysQuiet ==
  ASSUME NEW k, NEW K, Attends(k, K), unit'.type = unit.type, bits' = bits,
         ~(section = "Service" /\ Attribute.neat /\ Attribute.name \in TypeKeys)
  PROVE  KeysEffect(K)
<1>1. \A n \in TypeKeys : ~Says(K, "Service", n)
  BY DEF Attends
<1>2. "Type" \in TypeKeys
  BY DEF TypeKeys
<1> QED
  BY <1>1, <1>2 DEF KeysEffect

LEMMA KnownNames ==
  /\ Known("Service") = ServiceTimes \cup {"Environment", "Restart", "Type", "ExecStart", "BusName"}
  /\ Known("Timer") = TimerTimes
  /\ Known("Unit") = ListAttrs /\ Known("Install") = TargetAttrs
  /\ \A a \in ServiceTimes : a \notin TimerTimes
BY DEF Known, ServiceTimes, TimerTimes

(* A time that is read is the time of its own attribute, and would be read *)
(* again as it is.                                                         *)
LEMMA TimeEffect ==
  ASSUME TypeOK, UnitOK, attrs # <<>>, NEW k, NEW K, Attends(k, K),
         \/ section = "Service" /\ Attribute.name \in ServiceTimes
         \/ section = "Timer" /\ Attribute.name \in TimerTimes,
         Attribute.neat, pc = "apply", pc' = pc, NEW result,
         Attribute.name # "TimeoutSec" => result = ReadAs(Attribute.name, Attribute.text, Old(Attribute.name)),
         StoreTime(Attribute.name, result)
  PROVE  ListsEffect(K) /\ TimesEffect(K) /\ KeysEffect(K)
<1> DEFINE name == Attribute.name
           text == Attribute.text
<1>1. result.outcome # "hangs"
  BY DEF StoreTime
<1>2. /\ unit' = [unit EXCEPT !.times = [a \in DOMAIN unit.times |->
                    IF a \in Sets(name, text) THEN result.micros ELSE unit.times[a]]]
      /\ bits' = bits
  BY <1>1 DEF StoreTime
<1>3. DOMAIN unit = DOMAIN NewUnit /\ DOMAIN unit.times = DOMAIN NewUnit.times
  BY DEF UnitOK
<1>4. /\ unit'.lists = unit.lists /\ unit'.type = unit.type /\ DOMAIN unit'.times = DOMAIN unit.times
      /\ \A a \in DOMAIN unit.times :
           unit'.times[a] = IF a \in Sets(name, text) THEN result.micros ELSE unit.times[a]
  BY <1>2, <1>3, NewUnitFields
<1>5. ListsEffect(K)
  BY <1>4, ListsQuiet
<1>6. KeysEffect(K)
  <2>1. Attribute.name \notin TypeKeys
    BY DEF TypeKeys, ServiceTimes, TimerTimes
  <2> QED
    BY <1>2, <1>4, <2>1, KeysQuiet
<1>7. ASSUME NEW s \in {"Service", "Timer"}, NEW a \in DOMAIN unit.times,
             a \in Known(s), a \in {"TimeoutStartSec", "TimeoutStopSec"} => ~Says(K, "Service", "TimeoutSec")
      PROVE  IF Says(K, s, a) THEN ReadAs(a, Lines[K].text, unit'.times[a]) = Ok(unit'.times[a])
             ELSE unit'.times[a] = unit.times[a]
  <2>1. Lines[K] = Attribute /\ (Says(K, s, a) <=> s = section /\ a = name)
        /\ (Says(K, "Service", "TimeoutSec") <=> section = "Service" /\ name = "TimeoutSec")
    BY DEF Attends
  <2>2. a # "TimeoutSec"
    BY <1>3, NewUnitFields DEF ServiceTimes, TimerTimes
  <2>3. CASE name = "TimeoutSec"
    <3>1. section = "Service"
      BY <2>3 DEF TimerTimes
    <3>2. a \notin Sets(name, text)
      BY <1>7, <2>1, <2>3, <3>1 DEF Sets
    <3> QED
      BY <1>4, <2>1, <2>2, <2>3, <3>2
  <2>4. CASE name # "TimeoutSec"
    <3>1. a \in Sets(name, text) <=> a = name
      BY <2>4 DEF Sets
    <3>2. a = name => s = section
      BY <1>7, KnownNames DEF ServiceTimes, TimerTimes
    <3>3. CASE a = name
      <4>1. Old(name) \in Micros /\ Nat \subseteq Micros /\ Forever \in Micros /\ text \in Seq(Tokens)
        BY <2>4, <3>3, AttributeIs DEF Old, UnitOK, Micros
      <4>2. result = ReadAs(name, text, Old(name)) /\ unit'.times[a] = result.micros
        BY <1>4, <2>4, <3>1, <3>3
      <4>3. ReadAs(name, text, result.micros) = Ok(result.micros)
        BY <1>1, <4>1, <4>2, ReadersRead DEF ReadAs
      <4> QED
        BY <2>1, <3>2, <3>3, <4>2, <4>3
    <3>4. CASE a # name
      BY <1>4, <2>1, <3>1, <3>4
    <3> QED
      BY <3>3, <3>4
  <2> QED
    BY <2>3, <2>4
<1>8. TimesEffect(K)
  BY <1>4, <1>7 DEF TimesEffect
<1> QED
  BY <1>5, <1>6, <1>8

LEMMA Effects ==
  ASSUME TypeOK, UnitOK, pc = "apply", attrs # <<>>, NEW k \in Nat, NEW K, Attends(k, K), StoreAttribute, pc' = pc
  PROVE  ListsEffect(K) /\ TimesEffect(K) /\ KeysEffect(K)
<1>1. DOMAIN unit = DOMAIN NewUnit /\ DOMAIN unit.times = DOMAIN NewUnit.times /\ DOMAIN unit.lists = ListAttrs
  BY DEF UnitOK
<1>2. DOMAIN unit.times = (ServiceTimes \ {"TimeoutSec"}) \cup TimerTimes
  BY <1>1, NewUnitFields
<1>3. Lines[K] = Attribute /\ K \in DOMAIN Lines
  BY ReadIs DEF Attends
<1>4. CASE StoreList
  <2>1. /\ section = "Unit" /\ Attribute.neat /\ Attribute.name \in ListAttrs /\ bits' = bits
        /\ unit' = [unit EXCEPT !.lists[Attribute.name] = @ \o Entries(Attribute.words)]
    BY <1>4 DEF StoreList, Has
  <2>2. /\ unit'.times = unit.times /\ unit'.type = unit.type
        /\ \A a \in ListAttrs : unit'.lists[a] = IF a = Attribute.name THEN unit.lists[a] \o Entries(Attribute.words)
                                                 ELSE unit.lists[a]
    BY <1>1, <2>1, NewUnitFields
  <2>3. TimesEffect(K) /\ KeysEffect(K)
    BY <2>1, <2>2, TimesQuiet, KeysQuiet
  <2>4. ASSUME ShortLists
        PROVE  Entries(Attribute.words) = [n \in DOMAIN Lines[K].words |-> <<Lines[K].words[n]>>]
    <3>1. Len(Attribute.words) <= 2 /\ Attribute.words \in Seq(STRING)
      BY <1>3, <2>1, <2>4, AttributeIs DEF ShortLists
    <3> QED
      BY <1>3, <3>1, ShortEntries
  <2>5. \A a : Says(K, "Unit", a) <=> a = Attribute.name
    BY <2>1 DEF Attends
  <2>6. ListsEffect(K)
    BY <2>2, <2>4, <2>5 DEF ListsEffect, Said
  <2> QED
    BY <2>3, <2>6
<1>5. CASE StoreTarget
  <2>1. section = "Install" /\ bits' = bits
        /\ unit'.lists = unit.lists /\ unit'.times = unit.times /\ unit'.type = unit.type
    BY <1>1, <1>5, NewUnitFields DEF StoreTarget, Has
  <2> QED
    BY <2>1, ListsQuiet, TimesQuiet, KeysQuiet
<1>6. CASE StoreEnvironment
  <2>1. section = "Service" /\ Attribute.name = "Environment" /\ bits' = bits
        /\ unit'.lists = unit.lists /\ unit'.times = unit.times /\ unit'.type = unit.type
    BY <1>1, <1>6, NewUnitFields DEF StoreEnvironment, Has
  <2>2. Attribute.name \notin DOMAIN unit.times /\ Attribute.name \notin TypeKeys
    BY <1>2, <2>1 DEF ServiceTimes, TimerTimes, TypeKeys
  <2> QED
    BY <2>1, <2>2, ListsQuiet, TimesQuiet, KeysQuiet
<1>7. CASE StoreRestartSec
  <2>1. section = "Service" /\ Attribute.neat /\ Attribute.name = "RestartSec"
        /\ StoreTime(Attribute.name, ReadAs(Attribute.name, Attribute.text, Old(Attribute.name)))
    BY <1>7 DEF StoreRestartSec, Has, ReadAs
  <2>2. Attribute.name \in ServiceTimes
    BY <2>1 DEF ServiceTimes
  <2> QED
    BY <2>1, <2>2, TimeEffect
<1>8. CASE StoreTimeout
  <2>1. section = "Service" /\ Attribute.neat /\ Attribute.name \in {"TimeoutStartSec", "TimeoutSec", "RuntimeMaxSec"}
        /\ StoreTime(Attribute.name, ReadLeading(Attribute.text, Old(Attribute.name)))
    BY <1>8 DEF StoreTimeout, Has
  <2>2. Attribute.name \in ServiceTimes
    BY <2>1 DEF ServiceTimes
  <2>3. Attribute.name # "TimeoutSec" =>
          ReadLeading(Attribute.text, Old(Attribute.name))
            = ReadAs(Attribute.name, Attribute.text, Old(Attribute.name))
    BY <2>1 DEF ReadAs
  <2> QED
    BY <2>1, <2>2, <2>3, TimeEffect
<1>9. CASE StoreStopTimeout
  <2>1. section = "Service" /\ Attribute.neat /\ Attribute.name \in {"TimeoutStopSec", "WatchdogSec"}
        /\ StoreTime(Attribute.name, ReadAs(Attribute.name, Attribute.text, Old(Attribute.name)))
    BY <1>9 DEF StoreStopTimeout, Has, ReadAs
  <2>2. Attribute.name \in ServiceTimes
    BY <2>1 DEF ServiceTimes
  <2> QED
    BY <2>1, <2>2, TimeEffect
<1>10. CASE StoreInterval
  <2>1. section = "Timer" /\ Attribute.neat /\ Attribute.name \in TimerTimes
        /\ StoreTime(Attribute.name, ReadWhole(Attribute.text, Old(Attribute.name)))
    BY <1>10 DEF StoreInterval, Has
  <2>2. ReadWhole(Attribute.text, Old(Attribute.name)) = ReadAs(Attribute.name, Attribute.text, Old(Attribute.name))
    BY <2>1 DEF ReadAs, TimerTimes
  <2> QED
    BY <2>1, <2>2, TimeEffect
<1>11. CASE StoreRestart
  <2>1. section = "Service" /\ Attribute.name = "Restart" /\ bits' = bits
        /\ unit'.lists = unit.lists /\ unit'.times = unit.times /\ unit'.type = unit.type
    BY <1>1, <1>11, NewUnitFields DEF StoreRestart, Has
  <2>2. Attribute.name \notin DOMAIN unit.times /\ Attribute.name \notin TypeKeys
    BY <1>2, <2>1 DEF ServiceTimes, TimerTimes, TypeKeys
  <2> QED
    BY <2>1, <2>2, ListsQuiet, TimesQuiet, KeysQuiet
<1>12. CASE StoreType
  <2>1. section = "Service" /\ Attribute.neat /\ Attribute.name = "Type" /\ bits' = bits \cup {"Type"}
        /\ unit'.lists = unit.lists /\ unit'.times = unit.times
        /\ unit'.type = TypeNamed(Attribute.words[1])
    BY <1>1, <1>12, NewUnitFields DEF StoreType, Has
  <2>2. Attribute.name \notin DOMAIN unit.times
    BY <1>2, <2>1 DEF ServiceTimes, TimerTimes
  <2>3. \A n : Says(K, "Service", n) <=> n = "Type"
    BY <2>1 DEF Attends
  <2>4. KeysEffect(K)
    BY <1>3, <2>1, <2>3 DEF KeysEffect, TypeKeys
  <2> QED
    BY <2>1, <2>2, <2>4, ListsQuiet, TimesQuiet
<1>13. CASE StoreForType
  <2>1. section = "Service" /\ Attribute.neat /\ Attribute.name \in {"ExecStart", "BusName"}
        /\ bits' = bits \cup {Attribute.name}
        /\ unit'.lists = unit.lists /\ unit'.times = unit.times /\ unit'.type = unit.type
    BY <1>13 DEF StoreForType, Has
  <2>2. Attribute.name \notin DOMAIN unit.times
    BY <1>2, <2>1 DEF ServiceTimes, TimerTimes
  <2>3. \A n : Says(K, "Service", n) <=> n = Attribute.name
    BY <2>1 DEF Attends
  <2>4. KeysEffect(K)
    BY <2>1, <2>3 DEF KeysEffect, TypeKeys
  <2> QED
    BY <2>1, <2>2, <2>4, ListsQuiet, TimesQuiet
<1>14. CASE IgnoreTimer
  <2>1. section = "Timer" /\ ~file.timer /\ bits' = bits /\ unit' = unit
    BY <1>14 DEF IgnoreTimer, Has
  <2> QED
    BY <2>1, ListsQuiet, TimesQuiet, KeysQuiet
<1>15. CASE Ignore
  <2>1. (~Attribute.neat \/ Attribute.name \notin Known(section)) /\ bits' = bits /\ unit' = unit
    BY <1>15 DEF Ignore
  <2>2. /\ section = "Unit" /\ Attribute.name \in ListAttrs => Attribute.name \in Known(section)
        /\ section = "Service" /\ Attribute.name \in TypeKeys => Attribute.name \in Known(section)
    BY KnownNames DEF TypeKeys
  <2> QED
    BY <2>1, <2>2, ListsQuiet, TimesQuiet, KeysQuiet
<1> QED
  BY <1>4, <1>5, <1>6, <1>7, <1>8, <1>9, <1>10, <1>11, <1>12, <1>13, <1>14, <1>15 DEF StoreAttribute

(* What the unit holds does not depend on where the reader is.             *)
LEMMA UnitSame ==
  ASSUME file' = file, unit' = unit, NEW k
  PROVE  /\ ListsUpTo(k)' <=> ListsUpTo(k)
         /\ TimesUpTo(k)' <=> TimesUpTo(k)
         /\ TypeBefore(k)' <=> TypeBefore(k)
<1>1. Lines' = Lines /\ (Tidy' <=> Tidy) /\ (ShortLists' <=> ShortLists)
  BY TidyUnchanged DEF Lines
<1>2. \A j, s, a : Says(j, s, a)' <=> Says(j, s, a)
  BY SaysUnchanged
<1>3. \A a : NamesUpTo(a)' = NamesUpTo(a)
  BY NamesUnchanged
<1>4. \A s, a : Places(s, a)' = Places(s, a)
  BY <1>1, <1>2 DEF Places
<1>5. \A i : OnlyService(i)' <=> OnlyService(i)
  BY <1>1 DEF OnlyService
<1>6. TypeSettled' <=> TypeSettled
  BY <1>1, <1>4 DEF TypeSettled
<1>7. ListsUpTo(k)' <=> ListsUpTo(k)
  BY <1>1, <1>3 DEF ListsUpTo
<1>8. TimesUpTo(k)' <=> TimesUpTo(k)
  BY <1>1, <1>2 DEF TimesUpTo
<1>9. TypeBefore(k)' <=> TypeBefore(k)
  BY <1>1, <1>5, <1>6 DEF TypeBefore
<1> QED
  BY <1>7, <1>8, <1>9

LEMMA KeysSame ==
  ASSUME file' = file, unit' = unit, bits' = bits, section' = section, NEW h, NEW k
  PROVE  KeysInv(h, k)' <=> KeysInv(h, k)
BY SaysUnchanged DEF KeysInv, Lines

(* Lines that say nothing are stored as soon as they are read.             *)
LEMMA NothingSaid ==
  ASSUME TypeOK, NEW k \in Nat, NEW n, n \in k..Len(Lines), \A r \in k + 1..n : \A s, a : ~Says(r, s, a),
         ListsUpTo(k), TimesUpTo(k)
  PROVE  ListsUpTo(n) /\ TimesUpTo(n)
<1>1. file \in UnitFiles /\ Len(Lines) \in Nat /\ n \in Nat /\ k <= n
  BY ReadIs
<1>2. ListsUpTo(n)
  <2>1. \A a : NamesUpTo(a)[n] = NamesUpTo(a)[k]
    BY <1>1, NamesStay
  <2> QED
    BY <2>1 DEF ListsUpTo
<1>3. TimesUpTo(n)
  <2>1. \A i \in 1..n : i \in 1..k \/ i \in k + 1..n
    BY <1>1
  <2>2. \A i, j \in Nat : j \in i..k => j \in i..n
    BY <1>1
  <2>3. SUFFICES ASSUME NEW s \in {"Service", "Timer"}, NEW a \in DOMAIN unit.times, NEW i \in 1..n,
                        a \in Known(s) /\ (s = "Timer" => file.timer),
                        Says(i, s, a), \A j \in i + 1..n : ~Says(j, s, a),
                        a \in {"TimeoutStartSec", "TimeoutStopSec"} =>
                          \A j \in 1..n : ~Says(j, "Service", "TimeoutSec")
                 PROVE  ReadAs(a, Lines[i].text, unit.times[a]) = Ok(unit.times[a])
    BY DEF TimesUpTo
  <2>4. i \in 1..k
    BY <2>1, <2>3
  <2>5. (\A j \in i + 1..k : j \in i + 1..n) /\ (\A j \in 1..k : j \in 1..n)
    BY <1>1, <2>4
  <2> QED
    BY <2>3, <2>4, <2>5 DEF TimesUpTo
<1> QED
  BY <1>2, <1>3

LEMMA StoreKeeps ==
  ASSUME TypeOK, ReaderOK, PlaceInv, StoreAttribute
  PROVE  PlaceInv'
<1>1. /\ Stored /\ pc = "apply" /\ attrs # <<>>
      /\ pc' = pc \/ (pc' \in {"pushes", "hangs"} /\ unit'.lists = unit.lists)
  <2>1. UnitOK
    BY NewUnitFields DEF TypeOK, ReaderOK, UnitOK
  <2> QED
    BY <2>1, NewUnitFields
       DEF StoreAttribute, StoreList, StoreTarget, StoreEnvironment, StoreRestartSec, StoreTimeout,
           StoreStopTimeout, StoreInterval, StoreRestart, StoreType, StoreForType, IgnoreTimer, Ignore,
           StoreTime, Has, PushWord, UnitOK
<1>2. PICK h \in 1..LinesRead, k \in 1..LinesRead :
        \E place \in [DOMAIN attrs -> k + 1..LinesRead] : SectionInv(h, k, place)
  BY <1>1 DEF PlaceInv
<1>3. PICK place \in [DOMAIN attrs -> k + 1..LinesRead] : SectionInv(h, k, place)
  BY <1>2
<1>4. /\ AttrsInv(h, k, place) /\ TypeBefore(h) /\ ListsUpTo(k) /\ TimesUpTo(k) /\ KeysInv(h, k) /\ EndInv
  BY <1>1, <1>3 DEF SectionInv
<1> DEFINE K == place[1]
<1>5. Attends(k, K) /\ k \in Nat /\ h \in Nat /\ h <= k
  BY <1>1, <1>4, AttributeAt
<1>6. file' = file /\ section' = section /\ Lines' = Lines
  BY <1>1 DEF Stored, Lines
<1>7. CASE pc' = pc
  <2> HIDE DEF K
  <2>1. UnitOK
    BY NewUnitFields DEF TypeOK, ReaderOK, UnitOK
  <2>2. ListsEffect(K) /\ TimesEffect(K) /\ KeysEffect(K)
    BY <1>1, <1>5, <1>7, <2>1, Effects
  <2>3. ListsUpTo(K)' /\ TimesUpTo(K)'
    BY <1>4, <1>5, <1>6, <2>2, ListsGrow, TimesGrow
  <2>4. KeysInv(h, K)'
    BY <1>4, <1>5, <1>6, <2>2, KeysGrow
  <2>5. TypeBefore(h)'
    <3>1. unit'.type = unit.type \/ section = "Service"
      BY <1>5, <2>2 DEF KeysEffect, Attends
    <3>2. Lines[h] = Heading(section) /\ h \in DOMAIN Lines
      <4>1. /\ h \in 1..LinesRead /\ LinesRead \in Nat /\ LinesRead <= Len(Lines) /\ Len(Lines) \in Nat
            /\ DOMAIN Lines = 1..Len(Lines) /\ Lines[h] = Heading(section)
        BY <1>2, <1>4, ReadIs DEF AttrsInv
      <4> QED
        BY <4>1
    <3> QED
      BY <1>4, <1>5, <1>6, <3>1, <3>2, TypeStays
  <2> QED
    BY <1>1, <1>4, <1>7, <2>3, <2>4, <2>5, Advance DEF K
<1>8. CASE pc' \in {"pushes", "hangs"} /\ unit'.lists = unit.lists
  <2>1. ListsUpTo(k)'
    BY <1>4, <1>6, <1>8, NamesUnchanged, TidyUnchanged DEF ListsUpTo
  <2>2. k \in 0..Len(Lines')
    BY <1>2, <1>6, ReadIs
  <2> QED
    BY <1>8, <2>1, <2>2 DEF PlaceInv
<1> QED
  BY <1>1, <1>7, <1>8

-----------------------------------------------------------------------------
(***************************************************************************)
(* The loops over the lines                                                *)
(***************************************************************************)

(* What follows from PlaceInv' where the reader is between the sections.   *)
LEMMA Between ==
  ASSUME pc' \in {"top", "done"}, BetweenInv'
  PROVE  PlaceInv'
BY DEF PlaceInv

LEMMA OpenKeeps ==
  ASSUME TypeOK, ReaderOK, PlaceInv, Open
  PROVE  PlaceInv'
<1>1. /\ pc = "open" /\ at = 0 /\ unit = NewUnit /\ pc' = "top" /\ file' = file /\ unit' = unit
      /\ at' = 1 /\ line' = NextLine /\ Lines' = Lines
  BY DEF Open, Getline, ReaderOK, PlaceInv, Lines
<1>2. Len(Lines) \in Nat /\ DOMAIN Lines = 1..Len(Lines) /\ file \in UnitFiles
  BY ReadIs
<1>3. (0 < Len(Lines) => line' = Lines[1] /\ at' <= Len(Lines)) /\ (~(0 < Len(Lines)) => line'.kind = "blank")
  BY <1>1, <1>2, NextLineIs, EmptyLineIs
<1>4. LinesRead' \in Nat /\ LinesRead' \in 0..Len(Lines) /\ LinesRead' <= 1
  BY <1>1, <1>2 DEF LinesRead
<1>5. \A r \in 1..LinesRead' : \A s, a : ~Says(r, s, a)
  BY <1>4 DEF Says
<1>6. ListsUpTo(0) /\ TimesUpTo(0)
  <2>1. \A a \in ListAttrs : unit.lists[a] = <<>>
    BY <1>1 DEF NewUnit
  <2> QED
    BY <1>2, <2>1, NamesAdd DEF ListsUpTo, TimesUpTo
<1>7. PICK n : n = LinesRead'
  OBVIOUS
<1>8. ListsUpTo(n)' /\ TimesUpTo(n)'
  BY <1>1, <1>4, <1>5, <1>6, <1>7, NothingSaid, UnitSame
<1>9. TypeBefore(at)'
  <2>1. \A i \in DOMAIN Lines' : ~(i < at')
    BY <1>1, <1>2
  <2> QED
    BY <2>1 DEF TypeBefore
<1>10. Tidy' => line'.kind = "heading"
  <2>1. Tidy' => Lines # <<>> /\ Lines[1].kind = "heading"
    BY <1>1 DEF Tidy
  <2>2. Lines # <<>> => 0 < Len(Lines)
    BY <1>2, FileIs, EmptySeq
  <2> QED
    BY <1>3, <2>1, <2>2
<1>11. line'.kind = "heading" => at' <= Len(Lines') /\ line' = Lines'[at']
  BY <1>1, <1>3
<1>12. BetweenInv'
  BY <1>1, <1>4, <1>7, <1>8, <1>9, <1>10, <1>11 DEF BetweenInv
<1> QED
  BY <1>1, <1>12, Between

LEMMA SkipCommentKeeps ==
  ASSUME TypeOK, ReaderOK, PlaceInv, SkipComment
  PROVE  PlaceInv'
<1>1. /\ pc = "top" /\ ~eof /\ line.kind = "comment" /\ line' = line /\ pc' = pc
      /\ file' = file /\ unit' = unit /\ at' = at + 1 /\ Lines' = Lines
  BY DEF SkipComment, Getline, Lines
<1>2. BetweenInv
  BY <1>1 DEF PlaceInv
<1>3. ~Tidy /\ ~Tidy'
  BY <1>1, <1>2, TidyUnchanged DEF BetweenInv
<1>4. LinesRead \in Nat /\ LinesRead' \in Nat /\ LinesRead <= LinesRead'
  <2>1. at \in Nat /\ Len(Lines) \in Nat
    BY ReadIs
  <2> QED
    BY <1>1, <2>1 DEF LinesRead
<1>5. PICK k \in 0..LinesRead : ListsUpTo(k) /\ TimesUpTo(k)
  BY <1>2 DEF BetweenInv
<1>6. k \in 0..LinesRead' /\ ListsUpTo(k)' /\ TimesUpTo(k)'
  BY <1>1, <1>4, <1>5, UnitSame
<1>7. TypeBefore(at)'
  BY <1>3 DEF TypeBefore, OnlyService
<1>8. BetweenInv'
  BY <1>1, <1>3, <1>6, <1>7 DEF BetweenInv
<1> QED
  BY <1>1, <1>8, Between

LEMMA EnterSectionKeeps ==
  ASSUME TypeOK, ReaderOK, PlaceInv, EnterSection
  PROVE  PlaceInv'
<1>1. /\ pc = "top" /\ ~eof /\ line.kind = "heading" /\ line.name \in Sections
      /\ pc' = "section" /\ section' = line.name /\ attrs' = <<>> /\ bits' = {}
      /\ UNCHANGED <<file, at, eof, line, unit>> /\ Lines' = Lines /\ LinesRead' = LinesRead
  BY DEF EnterSection, Lines, LinesRead
<1>2. BetweenInv
  BY <1>1 DEF PlaceInv
<1>3. at <= Len(Lines) /\ line = Lines[at] /\ at # 0
  BY <1>1, <1>2 DEF BetweenInv, ReaderOK
<1>4. at \in Nat /\ LinesRead = at /\ at \in 1..Len(Lines)
  BY <1>3, ReadIs
<1>5. Lines[at] = Heading(section')
  BY <1>1, <1>3, EmptyLineIs, LineIs DEF TypeOK
<1>6. TypeBefore(at) /\ ListsUpTo(at) /\ TimesUpTo(at)
  BY <1>1, <1>2, <1>4 DEF BetweenInv
<1>7. PICK h : h = at
  OBVIOUS
<1>8. PICK place : place = [i \in {} |-> 0]
  OBVIOUS
<1>9. place \in [DOMAIN attrs' -> h + 1..LinesRead'] /\ h \in 1..LinesRead' /\ h \in h..LinesRead' /\ DOMAIN attrs' = {}
  BY <1>1, <1>4, <1>7, <1>8
<1>10. AttrsInv(h, h, place)'
  BY <1>1, <1>4, <1>5, <1>7, <1>9 DEF AttrsInv
<1>11. KeysInv(h, h)'
  <2>1. h + 1..h = {}
    BY <1>4, <1>7
  <2> QED
    BY <1>1, <2>1 DEF KeysInv
<1>12. TypeBefore(h)' /\ ListsUpTo(h)' /\ TimesUpTo(h)'
  BY <1>1, <1>6, <1>7, UnitSame
<1>13. SectionInv(h, h, place)'
  BY <1>1, <1>10, <1>11, <1>12 DEF SectionInv
<1> QED
  BY <1>1, <1>9, <1>13 DEF PlaceInv

LEMMA FinishKeeps ==
  ASSUME TypeOK, ReaderOK, PlaceInv, Finish
  PROVE  PlaceInv'
<1>1. /\ pc = "top" /\ (eof \/ line.kind = "blank") /\ pc' = "done"
      /\ UNCHANGED <<file, at, eof, line, unit>> /\ Lines' = Lines /\ LinesRead' = LinesRead
  BY DEF Finish, Lines, LinesRead
<1>2. BetweenInv
  BY <1>1 DEF PlaceInv
<1>3. Tidy' => eof'
  BY <1>1, <1>2, TidyUnchanged DEF BetweenInv
<1>4. TypeBefore(at)'
  <2>1. PICK h : h = at
    OBVIOUS
  <2>2. TypeBefore(h)' <=> TypeBefore(h)
    BY <1>1, UnitSame
  <2>3. TypeBefore(h) /\ at' = h
    BY <1>1, <1>2, <2>1 DEF BetweenInv
  <2> QED
    BY <2>2, <2>3
<1>5. PICK k \in 0..LinesRead : ListsUpTo(k) /\ TimesUpTo(k) /\ (line.kind # "comment" \/ Tidy => k = LinesRead)
  BY <1>2 DEF BetweenInv
<1>6. ListsUpTo(k)' /\ TimesUpTo(k)'
  BY <1>1, <1>5, UnitSame
<1>7. line'.kind # "comment" \/ Tidy' => k = LinesRead'
  BY <1>1, <1>5, TidyUnchanged
<1>8. line'.kind = "heading" => at' <= Len(Lines') /\ line' = Lines'[at']
  BY <1>1, <1>2 DEF BetweenInv
<1>9. BetweenInv'
  BY <1>1, <1>3, <1>4, <1>5, <1>6, <1>7, <1>8 DEF BetweenInv
<1> QED
  BY <1>1, <1>9, Between

(* A line of a section: an attribute is put aside with its place.          *)
LEMMA ReadLineKeeps ==
  ASSUME TypeOK, ReaderOK, PlaceInv, ReadLine
  PROVE  PlaceInv'
<1>1. /\ pc = "section" /\ ~eof /\ line' = NextLine /\ at' = at + 1
      /\ attrs' = (IF NextLine.kind = "attr" THEN Append(attrs, NextLine) ELSE attrs)
      /\ pc' = (IF NextLine.kind \in {"attr", "blank", "comment"} THEN "section" ELSE "apply")
      /\ UNCHANGED <<file, section, bits, unit>> /\ Lines' = Lines
  BY DEF ReadLine, Getline, Lines
<1>2. PICK h \in 1..LinesRead, k \in 1..LinesRead :
        \E place \in [DOMAIN attrs -> k + 1..LinesRead] : SectionInv(h, k, place)
  BY <1>1 DEF PlaceInv
<1>3. PICK place \in [DOMAIN attrs -> k + 1..LinesRead] : SectionInv(h, k, place)
  BY <1>2
<1>4. /\ AttrsInv(h, k, place) /\ TypeBefore(h) /\ ListsUpTo(k) /\ TimesUpTo(k) /\ KeysInv(h, k) /\ k = h
  BY <1>1, <1>3 DEF SectionInv
<1>5. /\ LinesRead \in Nat /\ Len(Lines) \in Nat /\ at \in Nat /\ file \in UnitFiles
      /\ LinesRead = at /\ at <= Len(Lines) /\ DOMAIN Lines = 1..Len(Lines)
  <2>1. at <= Len(Lines)
    BY <1>1, ReadIs DEF ReaderOK
  <2> QED
    BY <2>1, ReadIs
<1>6. h \in Nat /\ h >= 1 /\ h <= at /\ k \in Nat
  BY <1>2, <1>4, <1>5
<1>7. /\ at < Len(Lines) => NextLine = Lines[at + 1] /\ NextLine \in FileLines /\ LinesRead' = at + 1
      /\ ~(at < Len(Lines)) => NextLine.kind = "blank" /\ LinesRead' = at
  <2>1. LinesRead' = IF at + 1 > Len(Lines) THEN Len(Lines) ELSE at + 1
    BY <1>1 DEF LinesRead
  <2>2. PICK n \in Nat : n = Len(Lines)
    BY <1>5
  <2>3. at \in Nat /\ at <= n /\ LinesRead' = IF at + 1 > n THEN n ELSE at + 1
    BY <1>5, <2>1, <2>2
  <2>4. (at < n => LinesRead' = at + 1) /\ (~(at < n) => LinesRead' = at)
    BY <2>3
  <2>5. /\ at < Len(Lines) => LinesRead' = at + 1
        /\ ~(at < Len(Lines)) => LinesRead' = at
    BY <2>2, <2>4
  <2> QED
    BY <2>5, NextLineIs, EmptyLineIs
<1>8. LinesRead' \in Nat /\ LinesRead' <= Len(Lines) /\ at <= LinesRead' /\ LinesRead' <= at + 1
  BY <1>5, <1>7
<1>9. /\ section \in Sections /\ Lines[h] = Heading(section)
      /\ \A p \in h + 1..LinesRead : Lines[p].kind # "heading"
      /\ \A i, j \in DOMAIN attrs : i < j => place[i] < place[j]
      /\ \A i \in DOMAIN attrs : attrs[i] = Lines[place[i]]
      /\ \A p \in k + 1..LinesRead : Lines[p].kind = "attr" => \E i \in DOMAIN attrs : place[i] = p
  BY <1>1, <1>4 DEF AttrsInv
<1>10. DOMAIN attrs = 1..Len(attrs) /\ Len(attrs) \in Nat /\ attrs \in Seq(Attrs)
  <2>1. attrs \in Seq(Attrs)
    BY DEF TypeOK, Attrs
  <2> QED
    BY <2>1, LenProperties
<1>11. h \in 1..LinesRead' /\ k \in h..LinesRead' /\ at' > h
  BY <1>1, <1>4, <1>5, <1>6, <1>8
<1>12. \A p \in h + 1..LinesRead' : Lines[p].kind = "heading" => p = at' /\ pc' = "apply"
  <2>1. SUFFICES ASSUME NEW p \in h + 1..LinesRead', Lines[p].kind = "heading"
                 PROVE  p = at' /\ pc' = "apply"
    OBVIOUS
  <2>2. ~(p \in h + 1..LinesRead)
    BY <1>9, <2>1
  <2>3. p = at + 1 /\ LinesRead' = at + 1
    BY <1>5, <1>6, <1>8, <2>2
  <2>4. at < Len(Lines)
    BY <1>5, <1>8, <2>3
  <2>5. NextLine.kind = "heading"
    BY <1>7, <2>1, <2>3, <2>4
  <2> QED
    BY <1>1, <2>3, <2>5
<1>13. \E rest \in [DOMAIN attrs' -> k + 1..LinesRead'] : AttrsInv(h, k, rest)'
  <2>1. CASE NextLine.kind # "attr"
    <3>1. attrs' = attrs
      BY <1>1, <2>1
    <3>2. place \in [DOMAIN attrs' -> k + 1..LinesRead']
      <4>1. \A i \in DOMAIN attrs : place[i] \in k + 1..LinesRead /\ place[i] \in k + 1..LinesRead'
        BY <1>5, <1>6, <1>8
      <4> QED
        BY <3>1, <4>1
    <3>3. \A p \in k + 1..LinesRead' : Lines[p].kind = "attr" => \E i \in DOMAIN attrs' : place[i] = p
      <4>1. ASSUME NEW p \in k + 1..LinesRead', Lines[p].kind = "attr"
            PROVE  p \in k + 1..LinesRead
        <5>1. ~(p = at + 1)
          <6>1. p = at + 1 => at < Len(Lines)
            BY <1>5, <1>8, <4>1
          <6> QED
            BY <1>7, <2>1, <4>1, <6>1
        <5>2. p \in Nat /\ p >= k + 1 /\ p <= at + 1
          BY <1>5, <1>6, <1>8, <4>1
        <5> QED
          BY <1>5, <1>6, <5>1, <5>2
      <4> QED
        BY <1>9, <3>1, <4>1
    <3>4. AttrsInv(h, k, place)'
      BY <1>1, <1>9, <1>11, <1>12, <3>1, <3>2, <3>3 DEF AttrsInv
    <3> QED
      BY <3>2, <3>4
  <2>2. CASE NextLine.kind = "attr"
    <3> DEFINE m == Len(attrs)
    <3>1. at < Len(Lines) /\ NextLine = Lines[at + 1] /\ NextLine \in Attrs /\ LinesRead' = at + 1
      BY <1>7, <2>2 DEF Attrs
    <3>2. PICK rest : rest = [i \in 1..m + 1 |-> IF i = m + 1 THEN at + 1 ELSE place[i]]
      OBVIOUS
    <3>3. /\ DOMAIN attrs' = 1..m + 1 /\ attrs'[m + 1] = NextLine
          /\ \A i \in 1..m : attrs'[i] = attrs[i]
      <4>1. attrs' = Append(attrs, NextLine)
        BY <1>1, <2>2
      <4>2. /\ Append(attrs, NextLine) \in Seq(Attrs) /\ Len(Append(attrs, NextLine)) = m + 1
            /\ \A i \in 1..m : Append(attrs, NextLine)[i] = attrs[i]
            /\ Append(attrs, NextLine)[m + 1] = NextLine
        BY <1>10, <3>1, AppendProperties
      <4>3. DOMAIN Append(attrs, NextLine) = 1..m + 1
        BY <4>2, LenProperties
      <4> QED
        BY <4>1, <4>2, <4>3
    <3>4. m \in Nat /\ DOMAIN attrs = 1..m
      BY <1>10
    <3> HIDE DEF m
    <3>5. rest[m + 1] = at + 1 /\ \A i \in 1..m : rest[i] = place[i] /\ i \in 1..m + 1
      BY <3>2, <3>4
    <3>6. \A i \in 1..m : place[i] \in k + 1..LinesRead /\ place[i] \in Nat /\ place[i] < at + 1
      BY <1>5, <1>6, <3>4
    <3>7. \A i \in 1..m + 1 : i \in 1..m \/ i = m + 1
      BY <3>4
    <3>8. \A i \in 1..m + 1 : rest[i] \in k + 1..LinesRead'
      BY <1>4, <1>5, <1>6, <3>1, <3>5, <3>6, <3>7
    <3>9. rest \in [DOMAIN attrs' -> k + 1..LinesRead']
      BY <3>2, <3>3, <3>8
    <3>10. \A i, j \in DOMAIN attrs' : i < j => rest[i] < rest[j]
      <4>1. ASSUME NEW i \in 1..m + 1, NEW j \in 1..m + 1, i < j
            PROVE  rest[i] < rest[j]
        <5>1. i \in 1..m
          BY <3>4, <4>1
        <5>2. CASE j = m + 1
          BY <3>5, <3>6, <5>1, <5>2
        <5>3. CASE j \in 1..m
          <6>1. place[i] < place[j]
            BY <1>9, <3>4, <4>1, <5>1, <5>3
          <6> QED
            BY <3>5, <5>1, <5>3, <6>1
        <5> QED
          BY <3>7, <5>2, <5>3
      <4> QED
        BY <3>3, <4>1
    <3>11. \A i \in DOMAIN attrs' : attrs'[i] = Lines[rest[i]]
      <4>1. ASSUME NEW i \in 1..m
            PROVE  attrs'[i] = Lines[rest[i]]
        <5>1. attrs'[i] = attrs[i] /\ rest[i] = place[i] /\ i \in DOMAIN attrs
          BY <3>3, <3>4, <3>5
        <5>2. attrs[i] = Lines[place[i]]
          BY <1>9, <5>1, Zenon
        <5> QED
          BY <5>1, <5>2
      <4>2. attrs'[m + 1] = Lines[rest[m + 1]]
        BY <3>1, <3>3, <3>5
      <4> QED
        BY <3>3, <3>7, <4>1, <4>2
    <3>12. ASSUME NEW p \in k + 1..LinesRead', Lines[p].kind = "attr"
           PROVE  \E i \in DOMAIN attrs' : rest[i] = p
      <4>1. CASE p = at + 1
        <5>1. m + 1 \in DOMAIN attrs'
          BY <3>3, <3>4
        <5> QED
          BY <3>5, <4>1, <5>1
      <4>2. CASE p # at + 1
        <5>1. p \in k + 1..LinesRead
          BY <1>5, <1>6, <3>1, <3>12, <4>2
        <5>2. PICK i \in 1..m : place[i] = p
          BY <1>9, <3>4, <3>12, <5>1
        <5> QED
          BY <3>3, <3>5, <5>2
      <4> QED
        BY <4>1, <4>2
    <3>13. AttrsInv(h, k, rest)'
      BY <1>1, <1>9, <1>11, <1>12, <3>9, <3>10, <3>11, <3>12 DEF AttrsInv
    <3> QED
      BY <3>9, <3>13
  <2> QED
    BY <2>1, <2>2
<1>14. PICK rest \in [DOMAIN attrs' -> k + 1..LinesRead'] : AttrsInv(h, k, rest)'
  BY <1>13
<1>15. pc' = "apply" => EndInv'
  <2>1. SUFFICES ASSUME pc' = "apply"
                 PROVE  EndInv'
    OBVIOUS
  <2>2. NextLine.kind \notin {"attr", "blank", "comment"}
    BY <1>1, <2>1
  <2>3. at < Len(Lines) /\ NextLine = Lines[at + 1] /\ NextLine \in FileLines
    BY <1>7, <2>2
  <2>4. NextLine.kind \in {"heading", "garbage"}
    BY <2>2, <2>3, LineIs DEF Kinds
  <2>5. at' <= Len(Lines') /\ line' = Lines'[at']
    BY <1>1, <1>5, <2>3
  <2> QED
    BY <1>1, <2>4, <2>5 DEF EndInv
<1>16. pc' = "section" => line'.kind # "heading"
  BY <1>1
<1>17. TypeBefore(h)' /\ ListsUpTo(k)' /\ TimesUpTo(k)' /\ KeysInv(h, k)'
  BY <1>1, <1>4, UnitSame, KeysSame
<1>18. pc' \in {"section", "apply"}
  BY <1>1
<1>19. SectionInv(h, k, rest)'
  BY <1>4, <1>14, <1>15, <1>16, <1>17, <1>18 DEF SectionInv
<1>20. h \in 1..LinesRead' /\ k \in 1..LinesRead'
  BY <1>4, <1>11
<1> QED
  BY <1>14, <1>18, <1>19, <1>20 DEF PlaceInv

LEMMA SectionAtEofKeeps ==
  ASSUME TypeOK, ReaderOK, PlaceInv, SectionAtEof
  PROVE  PlaceInv'
<1>1. /\ pc = "section" /\ eof /\ pc' = "apply"
      /\ UNCHANGED <<file, at, eof, line, section, attrs, bits, unit>>
      /\ Lines' = Lines /\ LinesRead' = LinesRead
  BY DEF SectionAtEof, Lines, LinesRead
<1>2. PICK h \in 1..LinesRead, k \in 1..LinesRead :
        \E place \in [DOMAIN attrs -> k + 1..LinesRead] : SectionInv(h, k, place)
  BY <1>1 DEF PlaceInv
<1>3. PICK place \in [DOMAIN attrs -> k + 1..LinesRead] : SectionInv(h, k, place)
  BY <1>2
<1>4. /\ AttrsInv(h, k, place) /\ TypeBefore(h) /\ ListsUpTo(k) /\ TimesUpTo(k) /\ KeysInv(h, k)
      /\ line.kind # "heading"
  BY <1>1, <1>3 DEF SectionInv
<1>5. AttrsInv(h, k, place)'
  BY <1>1, <1>4 DEF AttrsInv
<1>6. EndInv'
  BY <1>1, <1>4 DEF EndInv
<1>7. SectionInv(h, k, place)'
  BY <1>1, <1>4, <1>5, <1>6, UnitSame, KeysSame DEF SectionInv
<1> QED
  BY <1>1, <1>3, <1>7 DEF PlaceInv

(* What the section of the only heading [Service] says is all that is said *)
(* of it, and it is stored.                                                *)
LEMMA ServiceStored ==
  ASSUME TypeOK, ReaderOK, pc = "apply", attrs = <<>>, NEW h, NEW k, NEW place,
         AttrsInv(h, k, place), EndInv, Tidy, OnlyService(h), section = "Service", NEW n
  PROVE  /\ \A j \in h + 1..k : Says(j, "Service", n) => j \in Places("Service", n)
         /\ \A j \in Places("Service", n) : j \in h + 1..k
<1>1. /\ h \in 1..LinesRead /\ k \in h..LinesRead /\ Lines[h] = Heading("Service") /\ at > h
      /\ \A p \in h + 1..LinesRead : Lines[p].kind = "heading" => p = at
      /\ \A p \in k + 1..LinesRead : Lines[p].kind # "attr"
  <2>1. DOMAIN attrs = {}
    OBVIOUS
  <2> QED
    BY <2>1 DEF AttrsInv
<1>2. /\ LinesRead \in Nat /\ LinesRead <= Len(Lines) /\ Len(Lines) \in Nat /\ at \in Nat
      /\ at <= Len(Lines) => LinesRead = at
      /\ at > Len(Lines) => LinesRead = Len(Lines)
      /\ DOMAIN Lines = 1..Len(Lines)
  BY ReadIs
<1>3. PICK n0, r0 \in Nat : n0 = Len(Lines) /\ r0 = LinesRead
  BY <1>2
<1>4. /\ h \in Nat /\ h >= 1 /\ k \in Nat /\ k >= h /\ k <= r0 /\ at > h /\ at \in Nat /\ r0 <= n0
      /\ at <= n0 => r0 = at
      /\ at > n0 => r0 = n0
      /\ DOMAIN Lines = 1..n0
  <2>1. /\ h \in 1..r0 /\ k \in h..r0 /\ at > h /\ at \in Nat /\ r0 <= n0
        /\ at <= n0 => r0 = at
        /\ at > n0 => r0 = n0
        /\ DOMAIN Lines = 1..n0
    BY <1>1, <1>2, <1>3, Zenon
  <2>2. h \in Nat /\ h >= 1 /\ k \in Nat /\ k >= h /\ k <= r0
    BY <1>3, <2>1
  <2> QED
    BY <2>1, <2>2, Zenon
<1>5. (eof => r0 = n0) /\ (~eof => at <= n0 /\ at \in DOMAIN Lines)
  <2>1. eof <=> at > n0 \/ (at = n0 /\ ~file.newline)
    BY <1>3 DEF ReaderOK
  <2> QED
    BY <1>4, <2>1
<1>6. ~eof => Lines[at].kind = "heading"
  <2>1. ~eof => Lines[at].kind \in {"heading", "garbage"}
    BY DEF EndInv
  <2> QED
    BY <1>5, <2>1 DEF Tidy
<1>7. ASSUME NEW j \in Places("Service", n)
      PROVE  j \in h + 1..k
  <2>1. j \in DOMAIN Lines /\ Says(j, "Service", n) /\ Lines[j].kind = "attr"
    BY <1>7 DEF Places, Says
  <2>2. PICK g \in 1..j - 1 : Lines[g] = Heading("Service") /\ \A r \in g + 1..j - 1 : Lines[r].kind # "heading"
    BY <2>1 DEF Says
  <2>3. g \in DOMAIN Lines /\ g \in Nat /\ j \in Nat /\ g < j /\ j <= n0
    BY <1>4, <2>1
  <2>4. g = h
    BY <2>2, <2>3 DEF OnlyService
  <2>5. ~(j \in k + 1..r0)
    BY <1>1, <1>3, <2>1
  <2>6. ~(j > r0)
    <3>1. SUFFICES ASSUME j > r0
                   PROVE  FALSE
      OBVIOUS
    <3>2. ~eof
      BY <1>4, <1>5, <2>3, <3>1
    <3>3. at \in h + 1..j - 1
      BY <1>4, <1>5, <2>3, <3>1, <3>2
    <3> QED
      BY <1>6, <2>2, <2>4, <3>2, <3>3
  <2> QED
    BY <1>4, <2>3, <2>4, <2>5, <2>6
<1>8. \A j \in h + 1..k : j \in DOMAIN Lines
  BY <1>4
<1> QED
  BY <1>7, <1>8 DEF Places

LEMMA EndSectionKeeps ==
  ASSUME TypeOK, ReaderOK, PlaceInv, EndSection
  PROVE  PlaceInv'
<1>1. /\ pc = "apply" /\ attrs = <<>> /\ pc' = "top"
      /\ unit' = (IF section = "Service" /\ "Type" \notin bits
                  THEN [unit EXCEPT !.type = DefaultType(bits)] ELSE unit)
      /\ UNCHANGED <<file, at, eof, line, section, attrs, bits>>
      /\ Lines' = Lines /\ LinesRead' = LinesRead
  BY DEF EndSection, Lines, LinesRead
<1>2. PICK h \in 1..LinesRead, k \in 1..LinesRead :
        \E place \in [DOMAIN attrs -> k + 1..LinesRead] : SectionInv(h, k, place)
  BY <1>1 DEF PlaceInv
<1>3. PICK place \in [DOMAIN attrs -> k + 1..LinesRead] : SectionInv(h, k, place)
  BY <1>2
<1>4. /\ AttrsInv(h, k, place) /\ TypeBefore(h) /\ ListsUpTo(k) /\ TimesUpTo(k) /\ KeysInv(h, k) /\ EndInv
  BY <1>1, <1>3 DEF SectionInv
<1>5. /\ LinesRead \in Nat /\ LinesRead <= Len(Lines) /\ Len(Lines) \in Nat /\ at \in Nat
      /\ DOMAIN Lines = 1..Len(Lines) /\ LinesRead <= at
      /\ at <= Len(Lines) => LinesRead = at
      /\ at > Len(Lines) => LinesRead = Len(Lines)
  BY ReadIs
<1>6. /\ h \in Nat /\ h >= 1 /\ h <= LinesRead /\ k \in Nat /\ k >= h /\ k <= LinesRead /\ at > h
      /\ Lines[h] = Heading(section) /\ h \in DOMAIN Lines
      /\ \A p \in h + 1..LinesRead : Lines[p].kind = "heading" => p = at
      /\ \A p \in k + 1..LinesRead : Lines[p].kind # "attr"
  <2>1. DOMAIN attrs = {}
    BY <1>1
  <2>2. /\ k \in h..LinesRead /\ at > h /\ Lines[h] = Heading(section)
        /\ \A p \in h + 1..LinesRead : Lines[p].kind = "heading" => p = at
        /\ \A p \in k + 1..LinesRead : Lines[p].kind # "attr"
    BY <1>1, <1>4, <2>1 DEF AttrsInv
  <2>3. h \in 1..LinesRead
    BY <1>2
  <2>4. PICK n0, r0 \in Nat : n0 = Len(Lines) /\ r0 = LinesRead
    BY <1>5
  <2>5. h \in 1..r0 /\ k \in h..r0 /\ r0 <= n0
    BY <1>5, <2>2, <2>3, <2>4, Zenon
  <2>6. /\ h \in Nat /\ h >= 1 /\ h <= r0 /\ k \in Nat /\ k >= h /\ k <= r0 /\ h \in 1..n0
    BY <2>4, <2>5
  <2> QED
    BY <1>5, <2>2, <2>4, <2>6, Zenon
<1>7. unit'.lists = unit.lists /\ unit'.times = unit.times
  <2>1. DOMAIN unit = DOMAIN NewUnit
    BY DEF ReaderOK
  <2> QED
    BY <1>1, <2>1, NewUnitFields
<1>8. ListsUpTo(LinesRead) /\ TimesUpTo(LinesRead)
  <2>1. \A r \in k + 1..LinesRead : \A s, a : ~Says(r, s, a)
    BY <1>6 DEF Says
  <2>2. PICK n, m \in Nat : n = LinesRead /\ m = Len(Lines)
    BY <1>5
  <2>3. n \in k..m
    <3>1. n <= m /\ k \in Nat /\ k <= n
      BY <1>5, <1>6, <2>2, Zenon
    <3> QED
      BY <2>2, <3>1
  <2> QED
    BY <1>4, <1>6, <2>1, <2>2, <2>3, NothingSaid
<1>9. PICK n : n = LinesRead
  OBVIOUS
<1>10. ListsUpTo(n)' /\ TimesUpTo(n)'
  <2>1. ListsUpTo(n) /\ TimesUpTo(n)
    BY <1>8, <1>9
  <2>2. Lines' = Lines /\ (ShortLists' <=> ShortLists) /\ \A j, s, a : Says(j, s, a)' <=> Says(j, s, a)
    BY <1>1, TidyUnchanged, SaysUnchanged
  <2>3. \A a : NamesUpTo(a)' = NamesUpTo(a)
    BY <1>1, NamesUnchanged
  <2>4. ListsUpTo(n)'
    BY <1>7, <2>1, <2>2, <2>3 DEF ListsUpTo
  <2>5. TimesUpTo(n)'
    BY <1>1, <1>7, <2>1, <2>2 DEF TimesUpTo
  <2> QED
    BY <2>4, <2>5
<1>11. line'.kind = "heading" => at' <= Len(Lines') /\ line' = Lines'[at']
  BY <1>1, <1>4 DEF EndInv
<1>12. Tidy => eof \/ line.kind = "heading"
  <2>1. SUFFICES ASSUME Tidy, ~eof
                 PROVE  line.kind = "heading"
    OBVIOUS
  <2>2. line = Lines[at] /\ line.kind \in {"heading", "garbage"}
    BY <1>4, <2>1 DEF EndInv
  <2>3. at \in DOMAIN Lines
    <3>1. ~(at > Len(Lines))
      BY <2>1 DEF ReaderOK
    <3>2. PICK n0 \in Nat : n0 = Len(Lines)
      BY <1>5
    <3>3. at \in Nat /\ h \in Nat /\ h >= 1 /\ at > h /\ ~(at > n0)
      BY <1>5, <1>6, <3>1, <3>2, Zenon
    <3>4. at >= 1 /\ at <= n0
      BY <3>2, <3>3
    <3> QED
      BY <3>2, <3>3, <3>4, LineNumber, Zenon
  <2> QED
    BY <2>1, <2>2, <2>3 DEF Tidy
<1>13. TypeBefore(at)'
  <2>1. (Tidy' <=> Tidy) /\ \A i : OnlyService(i)' <=> OnlyService(i)
    BY <1>1, TidyUnchanged DEF OnlyService
  <2>2. \A s, a : Places(s, a)' = Places(s, a)
    BY <1>1, SaysUnchanged DEF Places
  <2>3. SUFFICES ASSUME NEW i \in DOMAIN Lines, OnlyService(i), i < at
                 PROVE  TypeSettled'
    BY <1>1, <2>1 DEF TypeBefore
  <2>4. CASE section = "Service"
    <3>1. i = h
      BY <1>6, <2>3, <2>4 DEF OnlyService
    <3>2. \A m : /\ \A j \in h + 1..k : Says(j, "Service", m) => j \in Places("Service", m)
                 /\ \A j \in Places("Service", m) : j \in h + 1..k
      BY <1>1, <1>4, <2>3, <2>4, <3>1, ServiceStored DEF OnlyService
    <3>3. \A m : Places("Service", m) # {} <=> \E j \in h + 1..k : Says(j, "Service", m)
      BY <3>2 DEF Places
    <3>4. bits = {m \in TypeKeys : Places("Service", m) # {}}
      BY <1>4, <2>4, <3>3 DEF KeysInv
    <3>5. CASE "Type" \in bits
      <4>1. PICK j \in h + 1..k : Says(j, "Service", "Type") /\ unit.type = TypeNamed(Lines[j].words[1])
        BY <1>4, <3>5 DEF KeysInv
      <4>2. j \in Places("Service", "Type") /\ unit' = unit
        BY <1>1, <3>2, <3>5, <4>1
      <4> QED
        BY <1>1, <2>2, <4>1, <4>2 DEF TypeSettled
    <3>6. CASE "Type" \notin bits
      <4>1. Places("Service", "Type") = {}
        BY <3>4, <3>6 DEF TypeKeys
      <4>2. unit'.type = DefaultType(bits)
        <5>1. DOMAIN unit = DOMAIN NewUnit
          BY DEF ReaderOK
        <5> QED
          BY <1>1, <2>4, <3>6, <5>1, NewUnitFields
      <4> QED
        BY <2>2, <3>4, <4>1, <4>2 DEF TypeSettled
    <3> QED
      BY <3>5, <3>6
  <2>5. CASE section # "Service"
    <3>1. unit' = unit
      BY <1>1, <2>5
    <3>2. i # h /\ Lines[i] = Heading("Service") /\ i \in Nat
      <4>1. Lines[i] = Heading("Service") /\ i \in Nat
        BY <2>3, LineNumber DEF OnlyService
      <4> QED
        BY <1>6, <2>5, <4>1, HeadingIs
    <3>3. ~(i > h)
      <4>1. i > h => i \in h + 1..LinesRead
        <5>1. PICK n0, r0 \in Nat : n0 = Len(Lines) /\ r0 = LinesRead
          BY <1>5
        <5>2. at \in Nat /\ i <= n0 /\ i < at /\ (at <= n0 => r0 = at) /\ (at > n0 => r0 = n0)
          BY <1>5, <2>3, <5>1, LineNumber, Zenon
        <5>3. i <= r0
          BY <3>2, <5>1, <5>2
        <5> QED
          BY <1>6, <3>2, <5>1, <5>3
      <4>2. Lines[i].kind = "heading"
        BY <3>2, HeadingIs
      <4> QED
        BY <1>6, <2>3, <3>2, <4>1, <4>2
    <3>4. i < h
      BY <1>6, <3>2, <3>3
    <3>5. TypeSettled
      BY <1>4, <2>3, <3>4 DEF TypeBefore
    <3> QED
      BY <1>1, <2>2, <3>1, <3>5 DEF TypeSettled
  <2> QED
    BY <2>4, <2>5
<1>14. n \in 0..LinesRead' /\ n = LinesRead'
  BY <1>1, <1>5, <1>9
<1>15. Tidy' => eof' \/ (pc' = "top" /\ line'.kind = "heading")
  BY <1>1, <1>12, TidyUnchanged
<1>16. BetweenInv'
  BY <1>10, <1>11, <1>13, <1>14, <1>15 DEF BetweenInv
<1> QED
  BY <1>1, <1>16, Between

-----------------------------------------------------------------------------
(***************************************************************************)
(* The reader keeps its place, and the unit what the file says up to there *)
(***************************************************************************)

LEMMA InitIInv ==
  ASSUME Init
  PROVE  IInv
<1>1. /\ file \in UnitFiles /\ pc = "open" /\ at = 0 /\ eof = FALSE /\ line = EmptyLine
      /\ section = "" /\ attrs = <<>> /\ bits = {} /\ unit = NewUnit
  BY FilesAssumption DEF Init
<1>2. Len(Lines) \in Nat
  BY <1>1, FileIs
<1>3. DOMAIN unit.lists = ListAttrs /\ unit.type \in ServiceTypes /\ unit.restart \in Restarts
      /\ \A a \in DOMAIN unit.times : unit.times[a] \in Micros
  <2>1. 100 * Millisecond \in Nat
    BY DEF Millisecond
  <2> QED
    BY <1>1, <2>1 DEF NewUnit, ServiceTypes, Restarts, Micros, Unset
<1>4. ~(at > Len(Lines)) /\ at \in 0..Len(Lines) + 1
  <2>1. at = 0
    BY <1>1
  <2> QED
    BY <1>2, <2>1
<1>5. TypeOK
  <2>1. attrs \in Seq({l \in FileLines : l.kind = "attr"})
    BY <1>1, EmptySeq
  <2> QED
    BY <1>1, <1>3, <1>4, <2>1 DEF TypeOK
<1>6. ReaderOK
  BY <1>1, <1>3, <1>4 DEF ReaderOK
<1>7. PlaceInv
  BY <1>1 DEF PlaceInv
<1> QED
  BY <1>5, <1>6, <1>7 DEF IInv

LEMMA StutterKeeps ==
  ASSUME PlaceInv, UNCHANGED vars
  PROVE  PlaceInv'
<1>1. UNCHANGED <<file, pc, at, eof, line, section, attrs, bits, unit>> /\ Lines' = Lines /\ LinesRead' = LinesRead
  BY DEF vars, Lines, LinesRead
<1>2. \A k : /\ (ListsUpTo(k)' <=> ListsUpTo(k))
             /\ (TimesUpTo(k)' <=> TimesUpTo(k))
             /\ (TypeBefore(k)' <=> TypeBefore(k))
             /\ \A h : (KeysInv(h, k)' <=> KeysInv(h, k))
  BY <1>1, UnitSame, KeysSame
<1>3. PICK a : a = at
  OBVIOUS
<1>4. BetweenInv => BetweenInv'
  <2>1. TypeBefore(at)' <=> TypeBefore(at)
    BY <1>1, <1>2, <1>3
  <2> QED
    BY <1>1, <1>2, <2>1, TidyUnchanged DEF BetweenInv
<1>5. \A h, k, place : AttrsInv(h, k, place)' <=> AttrsInv(h, k, place)
  BY <1>1 DEF AttrsInv
<1>6. EndInv' <=> EndInv
  BY <1>1 DEF EndInv
<1>7. \A h, k, place : SectionInv(h, k, place)' <=> SectionInv(h, k, place)
  BY <1>1, <1>2, <1>5, <1>6 DEF SectionInv
<1> QED
  BY <1>1, <1>2, <1>4, <1>7 DEF PlaceInv

LEMMA StepIInv ==
  ASSUME IInv, [Next]_vars
  PROVE  IInv'
<1>1. TypeOK /\ ReaderOK /\ PlaceInv
  BY DEF IInv
<1>2. SUFFICES PlaceInv'
  BY <1>1, ReaderKept DEF IInv
<1>3. CASE Open
  BY <1>1, <1>3, OpenKeeps
<1>4. CASE SkipComment
  BY <1>1, <1>4, SkipCommentKeeps
<1>5. CASE EnterSection
  BY <1>1, <1>5, EnterSectionKeeps
<1>6. CASE Finish
  BY <1>1, <1>6, FinishKeeps
<1>7. CASE ReadLine
  BY <1>1, <1>7, ReadLineKeeps
<1>8. CASE SectionAtEof
  BY <1>1, <1>8, SectionAtEofKeeps
<1>9. CASE StoreAttribute
  BY <1>1, <1>9, StoreKeeps
<1>10. CASE EndSection
  BY <1>1, <1>10, EndSectionKeeps
<1>11. CASE UNCHANGED vars
  BY <1>1, <1>11, StutterKeeps
<1> QED
  BY <1>3, <1>4, <1>5, <1>6, <1>7, <1>8, <1>9, <1>10, <1>11 DEF Next, InvalidHeading

(* Whatever the file, the reader is where a line ends, the attributes it   *)
(* still has to store are the lines behind those it has stored, and the    *)
(* unit holds what the stored lines say.                                   *)
THEOREM Inductive == Spec => []IInv
<1>1. Init => IInv
  BY InitIInv
<1>2. IInv /\ [Next]_vars => IInv'
  BY StepIInv
<1> QED
  BY <1>1, <1>2, PTL DEF Spec

-----------------------------------------------------------------------------
(***************************************************************************)
(* What the unit holds when its file is read                               *)
(***************************************************************************)

LEMMA DoneInv ==
  ASSUME IInv, pc = "done", Tidy
  PROVE  /\ ListsUpTo(Len(Lines)) /\ TimesUpTo(Len(Lines)) /\ TypeBefore(at)
         /\ at > Len(Lines) \/ (at = Len(Lines) /\ ~file.newline)
<1>1. TypeOK /\ ReaderOK /\ BetweenInv
  BY DEF IInv, PlaceInv
<1>2. eof
  BY <1>1 DEF BetweenInv
<1>3. at > Len(Lines) \/ (at = Len(Lines) /\ ~file.newline)
  BY <1>1, <1>2 DEF ReaderOK
<1>4. LinesRead = Len(Lines)
  BY <1>3 DEF LinesRead
<1>5. ListsUpTo(LinesRead) /\ TimesUpTo(LinesRead) /\ TypeBefore(at)
  BY <1>1 DEF BetweenInv
<1> QED
  BY <1>3, <1>4, <1>5

LEMMA ListsFollow ==
  ASSUME IInv
  PROVE  ListsInOrder
<1>1. TypeOK /\ PlaceInv
  BY DEF IInv
<1>2. /\ LinesRead \in Nat /\ LinesRead <= Len(Lines) /\ Len(Lines) \in Nat /\ file \in UnitFiles
  BY <1>1, ReadIs
<1>3. SUFFICES ASSUME ShortLists
               PROVE  \E k \in 0..Len(Lines) : ListsUpTo(k) /\ (pc = "done" /\ Tidy => k = Len(Lines))
  BY DEF ListsInOrder, ListsUpTo
<1>4. CASE pc = "open"
  <2>1. unit = NewUnit
    BY <1>1, <1>4 DEF PlaceInv
  <2>2. \A a \in ListAttrs : unit.lists[a] = <<>>
    BY <2>1 DEF NewUnit
  <2>3. ListsUpTo(0)
    BY <1>2, <2>2, NamesAdd DEF ListsUpTo
  <2> QED
    BY <1>2, <1>4, <2>3
<1>5. CASE pc = "done" /\ Tidy
  <2>1. ListsUpTo(Len(Lines)) /\ Len(Lines) \in 0..Len(Lines)
    BY <1>2, <1>5, DoneInv
  <2> QED
    BY <2>1
<1>6. CASE pc \in {"top", "done"} /\ ~(pc = "done" /\ Tidy)
  <2>1. PICK k \in 0..LinesRead : ListsUpTo(k)
    BY <1>1, <1>6 DEF PlaceInv, BetweenInv
  <2>2. k \in 0..Len(Lines)
    BY <1>2
  <2> QED
    BY <1>6, <2>1, <2>2
<1>7. CASE pc \in {"section", "apply"}
  <2>1. PICK k \in 1..LinesRead : ListsUpTo(k)
    BY <1>1, <1>7 DEF PlaceInv, SectionInv
  <2>2. k \in 0..Len(Lines)
    BY <1>2
  <2> QED
    BY <1>7, <2>1, <2>2
<1>8. CASE pc \in {"pushes", "hangs"}
  BY <1>1, <1>8 DEF PlaceInv
<1> QED
  BY <1>1, <1>4, <1>5, <1>6, <1>7, <1>8 DEF TypeOK

(* The last of the places of an attribute. *)
LEMMA LastIs ==
  ASSUME TypeOK, NEW s, NEW a, Places(s, a) # {}
  PROVE  /\ LastOf(Places(s, a)) \in DOMAIN Lines /\ Says(LastOf(Places(s, a)), s, a)
         /\ \A j \in DOMAIN Lines : Says(j, s, a) => j <= LastOf(Places(s, a))
<1> DEFINE n == Len(Lines)
           P == Places(s, a)
           T == {m \in Nat : n - m \in P}
<1>1. n \in Nat /\ \A i \in P : i \in Nat /\ i >= 1 /\ i <= n
  BY ReadIs, LineNumber DEF Places
<1> HIDE DEF n, P
<1>2. T \in SUBSET Nat /\ \A i \in P : n - i \in T
  BY <1>1
<1>3. T # {}
  BY <1>2 DEF P
<1>4. PICK m \in T : \A r \in T : m <= r
  BY <1>2, <1>3, LeastElement
<1>5. n - m \in P /\ \A j \in P : j <= n - m
  <2>1. ASSUME NEW j \in P
        PROVE  j <= n - m
    <3>1. m <= n - j
      BY <1>2, <1>4
    <3> QED
      BY <1>1, <1>4, <3>1
  <2> QED
    BY <1>4, <2>1
<1>6. LastOf(P) \in P /\ \A j \in P : j <= LastOf(P)
  BY <1>5 DEF LastOf
<1> QED
  BY <1>6 DEF P, Places

LEMMA SpansFollow ==
  ASSUME IInv
  PROVE  SpanIsSum
<1>1. SUFFICES ASSUME pc = "done", Tidy, NEW s \in {"Service", "Timer"}, NEW a \in {"RestartSec"} \cup TimerTimes,
                      Places(s, a) # {}, s = "Timer" <=> a \in TimerTimes, s = "Timer" => file.timer,
                      WellFormed(Lines[LastOf(Places(s, a))].text)
               PROVE  unit.times[a] = SumOf(Lines[LastOf(Places(s, a))].text)
  BY DEF SpanIsSum
<1>2. TypeOK /\ ReaderOK /\ TimesUpTo(Len(Lines))
  BY <1>1, DoneInv DEF IInv
<1>3. PICK i : i = LastOf(Places(s, a))
  OBVIOUS
<1>4. /\ i \in DOMAIN Lines /\ Says(i, s, a)
      /\ \A j \in DOMAIN Lines : Says(j, s, a) => j <= i
  BY <1>1, <1>2, <1>3, LastIs
<1>5. i \in 1..Len(Lines) /\ i \in Nat /\ Len(Lines) \in Nat /\ DOMAIN Lines = 1..Len(Lines) /\ file \in UnitFiles
  BY <1>2, <1>4, ReadIs
<1>6. \A j \in i + 1..Len(Lines) : ~Says(j, s, a)
  <2>1. \A j \in i + 1..Len(Lines) : j \in 1..Len(Lines) /\ ~(j <= i)
    BY <1>5
  <2> QED
    BY <1>4, <1>5, <2>1
<1>7. a \in DOMAIN unit.times /\ a \notin {"TimeoutStartSec", "TimeoutStopSec", "RuntimeMaxSec", "WatchdogSec"}
  BY <1>2, NewUnitFields DEF ReaderOK, ServiceTimes, TimerTimes
<1>8. a \in Known(s)
  BY <1>1, KnownNames DEF ServiceTimes
<1>9. ReadAs(a, Lines[i].text, unit.times[a]) = Ok(unit.times[a])
  BY <1>1, <1>2, <1>4, <1>5, <1>6, <1>7, <1>8 DEF TimesUpTo
<1>10. Lines[i].text \in Seq(Tokens)
  BY <1>5, FileIs, LineIs
<1>11. ReadWhole(Lines[i].text, unit.times[a]) = Ok(SumOf(Lines[i].text))
  BY <1>1, <1>3, <1>10, WellFormedIsSum
<1>12. Ok(unit.times[a]) = Ok(SumOf(Lines[i].text))
  BY <1>7, <1>9, <1>11 DEF ReadAs
<1> QED
  BY <1>3, <1>12 DEF Ok

LEMMA TimesFollow ==
  ASSUME IInv
  PROVE  TimesAgree
<1>1. SUFFICES ASSUME pc = "done", Tidy, WrapperAccepts, Places("Service", "TimeoutSec") = {},
                      NEW a \in ServiceTimes \ {"TimeoutSec"}, NEW i \in Places("Service", a),
                      WrapperReads(a).outcome = "ok",
                      a = "RestartSec" \/ OneNumber(Lines[i].text),
                      unit.times[a] \div Millisecond <= MaxInt
               PROVE  WrapperHolds(a) = unit.times[a] \div Millisecond
  BY DEF TimesAgree
<1>2. TypeOK /\ ReaderOK /\ TimesUpTo(Len(Lines))
  BY <1>1, DoneInv DEF IInv
<1>3. i \in 1..Len(Lines) /\ i \in Nat /\ Len(Lines) \in Nat /\ DOMAIN Lines = 1..Len(Lines) /\ file \in UnitFiles
  BY <1>1, <1>2, ReadIs DEF Places
<1>4. /\ Says(i, "Service", a)
      /\ \A j \in DOMAIN Lines : Says(j, "Service", a) => j = i
      /\ \A j \in DOMAIN Lines : ~Says(j, "Service", "TimeoutSec")
  <2>1. a \in OneValue
    BY DEF OneValue
  <2> QED
    BY <1>1, <2>1 DEF Places, WrapperAccepts
<1>5. (\A j \in i + 1..Len(Lines) : ~Says(j, "Service", a)) /\ (\A j \in 1..Len(Lines) : ~Says(j, "Service", "TimeoutSec"))
  <2>1. \A j \in i + 1..Len(Lines) : j \in 1..Len(Lines) /\ j # i
    BY <1>3
  <2> QED
    BY <1>3, <1>4, <2>1
<1>6. a \in DOMAIN unit.times /\ a \in Known("Service")
  BY <1>2, NewUnitFields, KnownNames DEF ReaderOK
<1>7. ReadAs(a, Lines[i].text, unit.times[a]) = Ok(unit.times[a])
  BY <1>2, <1>3, <1>4, <1>5, <1>6 DEF TimesUpTo
<1>8. Lines[i].text \in Seq(Tokens)
  BY <1>3, FileIs, LineIs
<1>9. FirstOf(Places("Service", a)) = i
  <2>1. i <= i /\ Places("Service", a) = {i}
    BY <1>1, <1>3, <1>4 DEF Places
  <2> QED
    BY <2>1 DEF FirstOf
<1>10. WrapperReads(a) = string_duration_to_millis(Trim(Lines[i].text))
  BY <1>9 DEF WrapperReads
<1>11. ReadWhole(Lines[i].text, unit.times[a]) = WrapperReads(a)
  BY <1>1, <1>8, <1>10, AcceptedIsRead
<1>12. OneNumber(Lines[i].text) => /\ ReadLeading(Lines[i].text, unit.times[a]) = WrapperReads(a)
                                   /\ ReadNumber(Lines[i].text, unit.times[a]) = WrapperReads(a)
  BY <1>1, <1>8, <1>10, OneNumberIsRead
<1>13. ReadAs(a, Lines[i].text, unit.times[a]) = WrapperReads(a)
  BY <1>1, <1>11, <1>12 DEF ReadAs
<1>14. unit.times[a] = WrapperReads(a).micros
  BY <1>7, <1>13 DEF Ok
<1> QED
  BY <1>1, <1>14 DEF WrapperHolds

LEMMA TypesFollow ==
  ASSUME IInv
  PROVE  TypesAgree
<1> DEFINE P(n) == Places("Service", n)
<1>1. SUFFICES ASSUME pc = "done", Tidy, \A i, j \in P("Type") : i = j,
                      NEW i \in DOMAIN Lines, \A j \in DOMAIN Lines : Lines[j] = Heading("Service") <=> j = i,
                      i = Len(Lines) => file.newline,
                      \A j \in P("Type") : Lines[j].words[1] \in ServiceTypes,
                      P("Type") = {} /\ P("BusName") # {} => P("ExecStart") # {}
               PROVE  unit.type = WrapperType
  BY DEF TypesAgree, WrapperAccepts, OneValue
<1>2. /\ TypeOK /\ TypeBefore(at)
      /\ at > Len(Lines) \/ (at = Len(Lines) /\ ~file.newline)
  BY <1>1, DoneInv DEF IInv
<1>3. i < at
  <2>1. i \in Nat /\ i <= Len(Lines) /\ at \in Nat /\ Len(Lines) \in Nat
    BY <1>2, ReadIs, LineNumber
  <2>2. ~(at = Len(Lines) /\ i = Len(Lines))
    BY <1>1, <1>2, <2>1
  <2> QED
    BY <1>2, <2>1, <2>2
<1>4. TypeSettled
  BY <1>1, <1>2, <1>3 DEF TypeBefore, OnlyService
<1>5. CASE P("Type") # {}
  <2>1. PICK j \in P("Type") : unit.type = TypeNamed(Lines[j].words[1])
    BY <1>4, <1>5 DEF TypeSettled
  <2>2. j \in Nat /\ j <= j
    BY <1>2, LineNumber DEF Places
  <2>3. FirstOf(P("Type")) = j
    BY <1>1, <2>1, <2>2 DEF FirstOf
  <2> QED
    BY <1>1, <1>5, <2>1, <2>3 DEF TypeNamed, WrapperType
<1>6. CASE P("Type") = {}
  <2>1. unit.type = DefaultType({n \in TypeKeys : P(n) # {}})
    BY <1>4, <1>6 DEF TypeSettled
  <2> QED
    BY <1>1, <1>6, <2>1 DEF DefaultType, WrapperType, TypeKeys
<1> QED
  BY <1>5, <1>6

(* Whatever the file, the unit's lists are those of the file's first lines, *)
(* in their order (split_elems and the parser of [Unit]).                  *)
THEOREM Ordered == Spec => []ListsInOrder
<1>1. IInv => ListsInOrder
  BY ListsFollow
<1> QED
  BY <1>1, Inductive, PTL

(* RestartSec, and the intervals of a timer, are the sums of their texts,  *)
(* for texts of any length in files of any length.                         *)
THEOREM Summed == Spec => []SpanIsSum
<1>1. IInv => SpanIsSum
  BY SpansFollow
<1> QED
  BY <1>1, Inductive, PTL

(* The time systemd-exec holds is the time systemctl has, in whole         *)
(* milliseconds, for files of any length: of a text it accepts (RestartSec) *)
(* or of a single number (the other times), while the time fits an int.    *)
THEOREM TimesAlike == Spec => []TimesAgree
<1>1. IInv => TimesAgree
  BY TimesFollow
<1> QED
  BY <1>1, Inductive, PTL

(* The type systemctl gives a unit is the type systemd-exec gives it, in   *)
(* files of any length that are as TypesAgree asks: tidy, accepted by      *)
(* systemd-exec, with one [Service] section, of a known Type if any, and   *)
(* with an ExecStart if there is a BusName without a Type.                 *)
THEOREM TypesAlike == Spec => []TypesAgree
<1>1. IInv => TypesAgree
  BY TypesFollow
<1> QED
  BY <1>1, Inductive, PTL
=============================================================================
