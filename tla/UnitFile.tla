------------------------------ MODULE UnitFile ------------------------------
(***************************************************************************)
(* systemctl reads a unit file: ParseSystemDServiceUnit finds the sections *)
(* line by line (ParseSystemDTimerUnit is the same loop for a timer),      *)
(* split_elems collects the attributes of a section, and the section's     *)
(* parser stores them in the unit.  systemd-exec reads the same file       *)
(* through boost's parse_config_file, which is external.                   *)
(*                                                                         *)
(* A value is a sequence of words (a list of names, separated by single    *)
(* blanks, all of one length; the last word is empty when a blank ends the *)
(* line), a text of TimeSpan's tokens, or one word.                        *)
(***************************************************************************)
EXTENDS Integers, Sequences, TimeSpan

CONSTANTS
  Files,     \* the unit files: [lines, timer, newline]; newline: one ends the file
  MaxInt     \* the greatest int of systemd-exec

Sections == {"Unit", "Service", "Install", "Timer"}
ListAttrs   == {"Requires", "Requisite", "Wants", "Conflicts", "Before", "After"}
TargetAttrs == {"WantedBy", "RequiredBy"}
ServiceTimes == {"RestartSec", "TimeoutStartSec", "TimeoutStopSec", "TimeoutSec",
                 "RuntimeMaxSec", "WatchdogSec"}
TimerTimes == {"OnActiveSec", "OnBootSec", "OnStartupSec", "OnUnitActiveSec",
               "OnUnitInactiveSec", "AccuracySec", "RandomizedDelaySec"}
ServiceTypes == {"simple", "forking", "oneshot", "dbus", "notify", "idle"}

(* A line.  neat: the name begins in the first column and '=' follows it.  *)
(* Its value: the words, or the text of a time span.                       *)
Line(kind, name, neat, words, text) ==
  [kind |-> kind, name |-> name, neat |-> neat, words |-> words, text |-> text]
Heading(s)         == Line("heading", s, TRUE, <<>>, <<>>)
Attr(name, words)  == Line("attr", name, TRUE, words, <<>>)
Span(name, text)   == Line("attr", name, TRUE, <<>>, text)
Loose(name, words) == Line("attr", name, FALSE, words, <<>>)
Plain(kind)        == Line(kind, "", TRUE, <<>>, <<>>)
Comment   == Plain("comment")
EmptyLine == Plain("blank")
Garbage   == Plain("garbage")     \* a line that is neither, without '='

Kinds     == {"heading", "attr", "comment", "blank", "garbage"}
FileLines == {l \in [kind: Kinds, name: STRING, neat: BOOLEAN, words: Seq(STRING), text: Seq(Tokens)] :
                l.kind = "heading" => l = Heading(l.name)}

UnitFiles == [lines: Seq(FileLines), timer: BOOLEAN, newline: BOOLEAN]

ASSUME FilesAssumption == Files \subseteq UnitFiles
ASSUME MaxIntAssumption == MaxInt \in Nat

VARIABLES
  file,    \* the unit file
  pc,      \* "open", "top" in the file, in a "section", "apply" its attributes,
           \* "done"; or for ever in a loop: "pushes", "hangs"
  at,      \* lines read
  eof,     \* fs.eof()
  line,    \* the line the loop over the sections looks at
  section, \* the section being read
  attrs,   \* its attributes still to be stored
  bits,    \* attr_bitmask: those seen in this section
  unit     \* the SystemDUnit or SystemDTimer

vars == <<file, pc, at, eof, line, section, attrs, bits, unit>>

Unset  == -2
Micros == Nat \cup {Forever, Unset}
NewUnit ==
  [lists   |-> [a \in ListAttrs |-> <<>>],
   targets |-> [a \in TargetAttrs |-> <<>>],
   env     |-> <<>>,
   type    |-> "simple",
   restart |-> "always",
   times   |-> [a \in (ServiceTimes \ {"TimeoutSec"}) \cup TimerTimes |->
                  IF a = "RestartSec" THEN 100 * Millisecond ELSE Unset]]

Init ==
  /\ file \in Files
  /\ pc = "open" /\ at = 0 /\ eof = FALSE /\ line = EmptyLine
  /\ section = "" /\ attrs = <<>> /\ bits = {}
  /\ unit = NewUnit

(* fs.getline: a line that no newline ends, or none, sets eof. *)
NextLine == IF at < Len(file.lines) THEN file.lines[at + 1] ELSE EmptyLine
Getline ==
  /\ at' = at + 1
  /\ eof' = (at + 1 > Len(file.lines) \/ (at + 1 = Len(file.lines) /\ ~file.newline))

Open ==
  /\ pc = "open"
  /\ Getline /\ line' = NextLine
  /\ pc' = "top"
  /\ UNCHANGED <<file, section, attrs, bits, unit>>

(* A comment before a section: the next line goes to BUFFER and never to   *)
(* line, so that the rest of the file is skipped.                          *)
SkipComment ==
  /\ pc = "top" /\ ~eof /\ line.kind = "comment"
  /\ Getline
  /\ UNCHANGED <<file, pc, line, section, attrs, bits, unit>>

EnterSection ==
  /\ pc = "top" /\ ~eof /\ line.kind = "heading" /\ line.name \in Sections
  /\ pc' = "section" /\ section' = line.name /\ attrs' = <<>> /\ bits' = {}
  /\ UNCHANGED <<file, at, eof, line, unit>>

(* An unknown heading, or a line that is none: warned of again and again,  *)
(* for no line is read.                                                    *)
InvalidHeading ==
  /\ pc = "top" /\ ~eof
  /\ line.kind \in {"attr", "garbage"} \/ (line.kind = "heading" /\ line.name \notin Sections)
  /\ UNCHANGED vars

(* Mutant: the end of the file is looked for in an empty line alone. *)
FinishAtBlank ==
  /\ pc = "top" /\ line.kind = "blank"
  /\ pc' = "done"
  /\ UNCHANGED <<file, at, eof, line, section, attrs, bits, unit>>

Finish ==
  /\ pc = "top" /\ (eof \/ line.kind = "blank")
  /\ pc' = "done"
  /\ UNCHANGED <<file, at, eof, line, section, attrs, bits, unit>>
-----------------------------------------------------------------------------
(***************************************************************************)
(* split_elems                                                             *)
(***************************************************************************)

(* Mutant: a blank line ends a section. *)
ReadLineToBlank ==
  /\ pc = "section" /\ ~eof
  /\ Getline /\ line' = NextLine
  /\ attrs' = IF NextLine.kind = "attr" THEN Append(attrs, NextLine) ELSE attrs
  /\ pc' = IF NextLine.kind \in {"attr", "comment"} THEN "section" ELSE "apply"
  /\ UNCHANGED <<file, section, bits, unit>>

ReadLine ==
  /\ pc = "section" /\ ~eof
  /\ Getline /\ line' = NextLine
  /\ attrs' = IF NextLine.kind = "attr" THEN Append(attrs, NextLine) ELSE attrs
  /\ pc' = IF NextLine.kind \in {"attr", "blank", "comment"} THEN "section" ELSE "apply"
  /\ UNCHANGED <<file, section, bits, unit>>

SectionAtEof ==
  /\ pc = "section" /\ eof
  /\ pc' = "apply"
  /\ UNCHANGED <<file, at, eof, line, section, attrs, bits, unit>>
-----------------------------------------------------------------------------
(***************************************************************************)
(* The parsers of the sections                                             *)
(***************************************************************************)

(* Entry k of a list: substr(start, end) takes end characters, as many as  *)
(* all the words up to k, from the beginning of word k.                    *)
Entry(words, k) ==
  IF k = Len(words) THEN <<words[k]>>
  ELSE SubSeq(words, k, IF 2 * k - 1 < Len(words) THEN 2 * k - 1 ELSE Len(words))
Entries(words) == [k \in DOMAIN words |-> Entry(words, k)]

Attribute == Head(attrs)
Has(s, names) == /\ pc = "apply" /\ attrs # <<>> /\ section = s
                 /\ Attribute.neat /\ Attribute.name \in names

(* Attribute stored; nothing else of the reader changes. *)
Stored ==
  /\ attrs' = Tail(attrs)
  /\ UNCHANGED <<file, at, eof, line, section>>

StoreList ==
  /\ Has("Unit", ListAttrs)
  /\ unit' = [unit EXCEPT !.lists[Attribute.name] = @ \o Entries(Attribute.words)]
  /\ Stored /\ UNCHANGED <<pc, bits>>

(* WantedBy, RequiredBy and Environment: start = end, and the blank found  *)
(* at end is found again; a value with a blank is pushed for ever.         *)
PushWord(words) == pc' = IF Len(words) > 1 THEN "pushes" ELSE pc

StoreTarget ==
  /\ Has("Install", TargetAttrs)
  /\ unit' = [unit EXCEPT !.targets[Attribute.name] = Append(@, Attribute.words[1])]
  /\ PushWord(Attribute.words)
  /\ Stored /\ UNCHANGED bits

StoreEnvironment ==
  /\ Has("Service", {"Environment"})
  /\ unit' = [unit EXCEPT !.env = Append(@, Attribute.words[1])]
  /\ PushWord(Attribute.words)
  /\ Stored /\ UNCHANGED bits

(* TimeoutSec sets the time to stop, and with "infinity" the time to start. *)
Sets(name, text) ==
  IF name # "TimeoutSec" THEN {name}
  ELSE {"TimeoutStopSec"} \cup (IF text = <<Infinity>> THEN {"TimeoutStartSec"} ELSE {})

Old(name) == unit.times[IF name = "TimeoutSec" THEN "TimeoutStopSec" ELSE name]

StoreTime(name, result) ==
  /\ pc' = IF result.outcome = "hangs" THEN "hangs" ELSE pc
  /\ unit' = IF result.outcome = "hangs" THEN unit
             ELSE [unit EXCEPT !.times = [a \in DOMAIN @ |->
                     IF a \in Sets(name, Attribute.text) THEN result.micros ELSE @[a]]]
  /\ Stored /\ UNCHANGED bits

(* Mutant: RestartSec is read the way TimeoutStartSec is. *)
StoreRestartSecLeading ==
  /\ Has("Service", {"RestartSec"})
  /\ StoreTime("RestartSec", ReadLeading(Attribute.text, Old("RestartSec")))

StoreRestartSec ==
  /\ Has("Service", {"RestartSec"})
  /\ StoreTime("RestartSec", ReadWhole(Attribute.text, Old("RestartSec")))

StoreTimeout ==
  /\ Has("Service", {"TimeoutStartSec", "TimeoutSec", "RuntimeMaxSec"})
  /\ StoreTime(Attribute.name, ReadLeading(Attribute.text, Old(Attribute.name)))

StoreStopTimeout ==
  /\ Has("Service", {"TimeoutStopSec", "WatchdogSec"})
  /\ StoreTime(Attribute.name, ReadNumber(Attribute.text, Old(Attribute.name)))

(* The [Timer] section of a timer; a service unit only logs its attributes. *)
StoreInterval ==
  /\ file.timer /\ Has("Timer", TimerTimes)
  /\ StoreTime(Attribute.name, ReadWhole(Attribute.text, Old(Attribute.name)))

Restarts == {"undefined", "no", "always", "on_success", "on_failure", "on_abnormal",
             "on_abort", "on_watchdog"}

(* Mutant: the name is kept as it is. *)
StoreRestartName ==
  /\ Has("Service", {"Restart"})
  /\ unit' = [unit EXCEPT !.restart = Attribute.words[1]]
  /\ Stored /\ UNCHANGED <<pc, bits>>

(* A name that is not in restart_action_translate is made UNDEFINED. *)
StoreRestart ==
  /\ Has("Service", {"Restart"})
  /\ unit' = [unit EXCEPT !.restart =
                IF Attribute.words[1] \in Restarts THEN Attribute.words[1] ELSE "undefined"]
  /\ Stored /\ UNCHANGED <<pc, bits>>

TypeNamed(word) == IF word \in ServiceTypes THEN word ELSE "undefined"

StoreType ==
  /\ Has("Service", {"Type"})
  /\ unit' = [unit EXCEPT !.type = TypeNamed(Attribute.words[1])]
  /\ bits' = bits \cup {"Type"}
  /\ Stored /\ UNCHANGED pc

(* ExecStart and BusName matter for the type alone; ExecStart may be given *)
(* again and again.                                                        *)
StoreForType ==
  /\ Has("Service", {"ExecStart", "BusName"})
  /\ bits' = bits \cup {Attribute.name}
  /\ Stored /\ UNCHANGED <<pc, unit>>

(* The attributes whose values the model keeps, by section. *)
Known(s) ==
  CASE s = "Unit"    -> ListAttrs
    [] s = "Install" -> TargetAttrs
    [] s = "Timer"   -> TimerTimes
    [] s = "Service" -> ServiceTimes \cup {"Environment", "Restart", "Type", "ExecStart", "BusName"}

(* A service unit logs the attributes of its [Timer] section.              *)
IgnoreTimer ==
  /\ ~file.timer /\ Has("Timer", TimerTimes)
  /\ Stored /\ UNCHANGED <<pc, bits, unit>>

(* Attributes whose values the model leaves out (User, the output files,   *)
(* the conditions, ...), that are only logged or unknown in this section,  *)
(* or not recognised because blanks come before the name or before '='.    *)
Ignore ==
  /\ pc = "apply" /\ attrs # <<>>
  /\ ~Attribute.neat \/ Attribute.name \notin Known(section)
  /\ Stored /\ UNCHANGED <<pc, bits, unit>>

(* Mutant: the name on the bus is not looked at. *)
DefaultTypeNoBus(seen) == IF "ExecStart" \notin seen THEN "oneshot" ELSE "simple"

(* The end of a section.  A [Service] section without Type sets the type   *)
(* by what it holds itself.                                                *)
DefaultType(seen) ==
  IF "ExecStart" \notin seen THEN "oneshot"
  ELSE IF "BusName" \in seen THEN "dbus" ELSE "simple"

EndSection ==
  /\ pc = "apply" /\ attrs = <<>>
  /\ unit' = IF section = "Service" /\ "Type" \notin bits
             THEN [unit EXCEPT !.type = DefaultType(bits)] ELSE unit
  /\ pc' = "top"
  /\ UNCHANGED <<file, at, eof, line, section, attrs, bits>>

StoreAttribute ==
  \/ StoreList \/ StoreTarget \/ StoreEnvironment \/ StoreRestartSec \/ StoreTimeout
  \/ StoreStopTimeout \/ StoreInterval \/ StoreRestart \/ StoreType \/ StoreForType
  \/ IgnoreTimer \/ Ignore

Next ==
  \/ Open \/ SkipComment \/ EnterSection \/ InvalidHeading \/ Finish
  \/ ReadLine \/ SectionAtEof \/ StoreAttribute \/ EndSection

(* The reader runs alone and goes on as long as it can. *)
Spec == Init /\ [][Next]_vars /\ WF_vars(Next)
-----------------------------------------------------------------------------
(***************************************************************************)
(* What the file says: the reference, and what systemd-exec reads.         *)
(***************************************************************************)

Lines == file.lines

(* Line i is an attribute of the section s, named name: the last heading   *)
(* before it is [s].                                                       *)
Says(i, s, name) ==
  /\ Lines[i].kind = "attr" /\ Lines[i].neat /\ Lines[i].name = name
  /\ \E j \in 1..i - 1 : /\ Lines[j] = Heading(s)
                        /\ \A k \in j + 1..i - 1 : Lines[k].kind # "heading"

Places(s, name) == {i \in DOMAIN Lines : Says(i, s, name)}
FirstOf(places) == CHOOSE i \in places : \A j \in places : i <= j
LastOf(places)  == CHOOSE i \in places : \A j \in places : j <= i

(* The names of a list in the first k lines, in order, for each k. *)
NamesUpTo(name) ==
  LET upTo[k \in 0..Len(Lines)] ==
        IF k = 0 THEN <<>>
        ELSE upTo[k - 1] \o (IF Says(k, "Unit", name)
                             THEN [n \in DOMAIN Lines[k].words |-> <<Lines[k].words[n]>>]
                             ELSE <<>>)
  IN upTo

(* Files that begin with a known heading, know every heading and have      *)
(* attributes in their lines; every list that loops has one name.          *)
Tidy ==
  /\ Lines # <<>> /\ Lines[1].kind = "heading"
  /\ \A i \in DOMAIN Lines :
       LET l == Lines[i]
       IN /\ l.kind # "garbage" /\ l.neat
          /\ l.kind = "heading" => l.name \in Sections
          /\ l.name \in TargetAttrs \cup {"Environment"} => Len(l.words) = 1
          /\ \A p \in DOMAIN l.text : l.text[p].kind # "other"

ShortLists == \A i \in DOMAIN Lines : Lines[i].name \in ListAttrs => Len(Lines[i].words) <= 2

(* systemd-exec, ParseArgs.  Most options of [Service] take one value: for *)
(* a second one boost's store throws.                                      *)
OneValue == ServiceTimes \cup
  {"Type", "Shell", "ExecStart", "ExecStop", "StandardOutput", "StandardError", "BusName",
   "Restart", "WorkingDirectory", "StartLimitInterval", "KillSignal", "PermissionStartOnly",
   "SupplementaryGroups", "User", "LogLevelMax", "SysLogLevel", "LimitNOFILE"}
WrapperAccepts == \A n \in OneValue : \A i, j \in Places("Service", n) : i = j

(* The type, and a time span of [Service], which keeps its default unless  *)
(* the reading succeeds.                                                   *)
WrapperType ==
  IF Places("Service", "Type") # {} THEN Lines[FirstOf(Places("Service", "Type"))].words[1]
  ELSE IF Places("Service", "BusName") # {} THEN "dbus"
  ELSE IF Places("Service", "ExecStart") # {} THEN "simple"
  ELSE "oneshot"
WrapperReads(name) ==
  string_duration_to_millis(Trim(Lines[FirstOf(Places("Service", name))].text))

(* The double goes to an int of milliseconds: its fraction is lost.  Beyond *)
(* an int the conversion is undefined; the x64 build stores the least int. *)
WrapperHolds(name) ==
  LET millis == WrapperReads(name).micros \div Millisecond
  IN IF millis <= MaxInt THEN millis ELSE -MaxInt - 1
-----------------------------------------------------------------------------
(***************************************************************************)
(* Properties                                                              *)
(***************************************************************************)

(* Types of the reader's state. *)
TypeOK ==
  /\ pc \in {"open", "top", "section", "apply", "done", "pushes", "hangs"}
  /\ at \in 0..Len(Lines) + 1 /\ eof \in BOOLEAN
  /\ eof => at >= Len(Lines)
  /\ section \in Sections \cup {""}
  /\ file \in UnitFiles /\ line \in FileLines \cup {EmptyLine}
  /\ attrs \in Seq({l \in FileLines : l.kind = "attr"})
  /\ bits \subseteq {"Type", "ExecStart", "BusName"}
  /\ unit.type \in ServiceTypes \cup {"undefined"} /\ unit.restart \in Restarts
  /\ \A a \in DOMAIN unit.times : unit.times[a] \in Micros

(* Whatever the file holds, the lists of dependencies hold the names of    *)
(* the [Unit] sections up to the same line, in the order of the file and   *)
(* split as written, and nothing of another section; all of them once a    *)
(* tidy file is read.  Longer lists are split wrongly: see Entry.          *)
ListsInOrder ==
  ShortLists =>
    \E k \in 0..Len(Lines) :
      /\ \A a \in ListAttrs : unit.lists[a] = NamesUpTo(a)[k]
      /\ pc = "done" /\ Tidy => k = Len(Lines)

(* The interval of a timer, and RestartSec, is the sum of the numbers of   *)
(* its text, each with the scale of the word after it: of its last line in *)
(* the section it belongs to.                                              *)
SpanIsSum ==
  pc = "done" /\ Tidy =>
    \A s \in {"Service", "Timer"}, a \in {"RestartSec"} \cup TimerTimes :
      LET text == Lines[LastOf(Places(s, a))].text
      IN /\ Places(s, a) # {} /\ (s = "Timer" <=> a \in TimerTimes) /\ (s = "Timer" => file.timer)
         /\ WellFormed(text)
         => unit.times[a] = SumOf(text)

(* When systemd-exec accepts a file and its RestartSec, it holds the time  *)
(* systemctl has, in whole milliseconds, if that time fits an int (of      *)
(* "30days" it makes a negative number), although the two loops refuse     *)
(* different texts; and the same holds of each other time whose text is    *)
(* one number, which systemctl reads in three different ways.  (Of "5min"  *)
(* it makes 5 s where systemd-exec makes 5 min: the condition leaves that  *)
(* out.)                                                                   *)
TimesAgree ==
  pc = "done" /\ Tidy /\ WrapperAccepts /\ Places("Service", "TimeoutSec") = {} =>
    \A a \in ServiceTimes \ {"TimeoutSec"} : \A i \in Places("Service", a) :
      LET millis == unit.times[a] \div Millisecond
      IN /\ WrapperReads(a).outcome = "ok"
         /\ a = "RestartSec" \/ OneNumber(Lines[i].text)
         /\ millis <= MaxInt
         => WrapperHolds(a) = millis

(* systemctl and systemd-exec give a unit the same type, given or default, *)
(* when: its file is tidy and systemd-exec accepts it, it has one          *)
(* [Service] section whose heading is not the unended last line, its Type  *)
(* is a known one, and without a Type it has something to start if it has  *)
(* a name on the bus.                                                      *)
TypesAgree ==
  /\ pc = "done" /\ Tidy /\ WrapperAccepts
  /\ \E i \in DOMAIN Lines :
       /\ \A j \in DOMAIN Lines : Lines[j] = Heading("Service") <=> j = i
       /\ i = Len(Lines) => file.newline
  /\ \A i \in Places("Service", "Type") : Lines[i].words[1] \in ServiceTypes
  /\ Places("Service", "Type") = {} /\ Places("Service", "BusName") # {}
       => Places("Service", "ExecStart") # {}
  => unit.type = WrapperType

(***************************************************************************)
(* What makes these properties inductive: where the reader is in the file, *)
(* and what the unit holds of the lines it has stored.                     *)
(***************************************************************************)

LinesRead == IF at > Len(Lines) THEN Len(Lines) ELSE at

ReaderOK ==
  /\ eof <=> at > Len(Lines) \/ (at = Len(Lines) /\ ~file.newline /\ pc # "open")
  /\ pc = "open" <=> at = 0
  /\ DOMAIN unit = DOMAIN NewUnit /\ DOMAIN unit.times = DOMAIN NewUnit.times
  /\ DOMAIN unit.lists = ListAttrs

(* The lists, and the times, hold what the first k lines say.  TimeoutSec   *)
(* changes the times of others.  Reading a text again changes no time.      *)
ListsUpTo(k) == ShortLists => \A a \in ListAttrs : unit.lists[a] = NamesUpTo(a)[k]

ReadAs(a, text, old) ==
  IF a \in {"TimeoutStartSec", "RuntimeMaxSec"} THEN ReadLeading(text, old)
  ELSE IF a \in {"TimeoutStopSec", "WatchdogSec"} THEN ReadNumber(text, old)
  ELSE ReadWhole(text, old)

TimesUpTo(k) ==
  \A s \in {"Service", "Timer"}, a \in DOMAIN unit.times, i \in 1..k :
    /\ a \in Known(s) /\ (s = "Timer" => file.timer)
    /\ Says(i, s, a) /\ \A j \in i + 1..k : ~Says(j, s, a)
    /\ a \in {"TimeoutStartSec", "TimeoutStopSec"} => \A j \in 1..k : ~Says(j, "Service", "TimeoutSec")
    => ReadAs(a, Lines[i].text, unit.times[a]) = Ok(unit.times[a])

(* The type when the only [Service] section is stored, heading and all.     *)
TypeKeys == {"Type", "ExecStart", "BusName"}
OnlyService(i) ==
  /\ Tidy /\ \A j \in DOMAIN Lines : Lines[j] = Heading("Service") <=> j = i
TypeSettled ==
  \/ \E j \in Places("Service", "Type") : unit.type = TypeNamed(Lines[j].words[1])
  \/ /\ Places("Service", "Type") = {}
     /\ unit.type = DefaultType({n \in TypeKeys : Places("Service", n) # {}})
TypeBefore(h) == \A i \in DOMAIN Lines : OnlyService(i) /\ i < h => TypeSettled

(* Between sections: all lines read are stored, but after a comment there.  *)
BetweenInv ==
  /\ line.kind = "heading" => at <= Len(Lines) /\ line = Lines[at]
  /\ Tidy => eof \/ (pc = "top" /\ line.kind = "heading")
  /\ TypeBefore(at)
  /\ \E k \in 0..LinesRead :
       /\ ListsUpTo(k) /\ TimesUpTo(k)
       /\ line.kind # "comment" \/ Tidy => k = LinesRead

(* In the section of the heading h: the lines up to k are stored, and attrs *)
(* are the attributes from there on, at the places of the file.             *)
AttrsInv(h, k, place) ==
  /\ h \in 1..LinesRead /\ k \in h..LinesRead /\ place \in [DOMAIN attrs -> k + 1..LinesRead]
  /\ section \in Sections /\ Lines[h] = Heading(section)
  /\ at > h \/ (pc = "section" /\ ~eof)
  /\ \A p \in h + 1..LinesRead : Lines[p].kind = "heading" => p = at /\ pc = "apply"
  /\ \A i, j \in DOMAIN attrs : i < j => place[i] < place[j]
  /\ \A i \in DOMAIN attrs : attrs[i] = Lines[place[i]]
  /\ \A p \in k + 1..LinesRead : Lines[p].kind = "attr" => \E i \in DOMAIN attrs : place[i] = p

(* The line that ended the section is where the next one is looked for.     *)
EndInv ==
  /\ line.kind = "heading" => at <= Len(Lines) /\ line = Lines[at]
  /\ eof \/ (line = Lines[at] /\ line.kind \in {"heading", "garbage"})

KeysInv(h, k) ==
  /\ bits = {n \in TypeKeys : section = "Service" /\ \E j \in h + 1..k : Says(j, "Service", n)}
  /\ "Type" \in bits =>
       \E j \in h + 1..k : Says(j, "Service", "Type") /\ unit.type = TypeNamed(Lines[j].words[1])

SectionInv(h, k, place) ==
  /\ AttrsInv(h, k, place) /\ TypeBefore(h) /\ ListsUpTo(k) /\ TimesUpTo(k) /\ KeysInv(h, k)
  /\ IF pc = "section" THEN k = h /\ (eof => line.kind # "heading") ELSE EndInv

PlaceInv ==
  /\ pc = "open" => unit = NewUnit
  /\ pc \in {"top", "done"} => BetweenInv
  /\ pc \in {"section", "apply"} =>
       \E h, k \in 1..LinesRead : \E place \in [DOMAIN attrs -> k + 1..LinesRead] : SectionInv(h, k, place)
  /\ pc \in {"pushes", "hangs"} => \E k \in 0..Len(Lines) : ListsUpTo(k)

(* The reader's place, and what the unit holds of the lines up to there.    *)
IInv == TypeOK /\ ReaderOK /\ PlaceInv

(* A tidy file is read to its end: no loop of the reader stays where it is. *)
ReadEnds == Tidy ~> (pc = "done")
=============================================================================
