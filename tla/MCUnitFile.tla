---- MODULE MCUnitFile ----
(* Small unit files for UnitFile: every short file over a few lines, every *)
(* short [Service] and [Install] section, and every short time span.       *)
EXTENDS UnitFile, SequencesExt

File(lines, timer, newline) == [lines |-> lines, timer |-> timer, newline |-> newline]
After(s, rest) == {<<Heading(s)>> \o r : r \in rest}

AnyLine == {Comment, EmptyLine, Garbage, Heading("Unit"), Heading("Service"), Heading("Path"),
            Attr("After", <<"a">>), Attr("After", <<"b", "c">>), Loose("After", <<"d">>),
            Attr("ExecStart", <<"x">>)}
Shapes == SeqOf(AnyLine, 3) \cup After("Unit", SeqOf(AnyLine, 3))

ServiceLine == {Attr("Type", <<"notify">>), Attr("Type", <<"exec">>), Attr("BusName", <<"n">>),
                Attr("ExecStart", <<"x">>), Attr("Restart", <<"on_failure">>),
                Attr("Restart", <<"on-failure">>), Attr("Environment", <<"v">>),
                Attr("Environment", <<"v", "w">>), Heading("Service"), Heading("Unit")}
InstallLine == {Attr(a, w) : a \in TargetAttrs, w \in {<<"t">>, <<"t", "">>}}
ListLine == {Attr(a, w) : a \in ListAttrs, w \in {<<"a">>, <<"a", "b">>, <<"a", "b", "c", "d">>}}
Shorts == After("Service", SeqOf(ServiceLine, 3)) \cup After("Install", SeqOf(InstallLine, 2))
          \cup After("Unit", SeqOf(ListLine, 2))

(* Two words never stand side by side: they would be one. *)
Word(t) == t.kind \in {"unit", "infinity"}
Texts(n) == {t \in SeqOf({Number(5), Number(2), Unit(60000000), Unit(1), Unit(0), Blank, Malformed,
                          Infinity, Other}, n) :
               t # <<>> /\ \A p \in 1..Len(t) - 1 : ~(Word(t[p]) /\ Word(t[p + 1]))}
Spans(names, n) == {<<Span(a, t)>> : a \in names, t \in Texts(n)}

MCFiles ==
  {File(l, FALSE, nl) : l \in Shapes, nl \in BOOLEAN}
  \cup {File(l, FALSE, TRUE) : l \in Shorts}
  \cup {File(l, FALSE, TRUE) : l \in After("Service", Spans({"RestartSec"}, 4))}
  \cup {File(l, FALSE, TRUE) : l \in After("Service", Spans(ServiceTimes, 2) \cup Spans(TimerTimes, 1))}
  \cup {File(l, timer, TRUE) : l \in After("Timer", Spans(TimerTimes, 2)), timer \in BOOLEAN}
====
