----------------------------- MODULE MCUnitPool -----------------------------
(* Small unit libraries for UnitPool. *)
EXTENDS UnitPool

CONSTANTS a, b, c

MCFile(requires, wants, mentions) ==
  [requires |-> requires, wants |-> wants, mentions |-> mentions]

MCLibrary(fa, fb, fc) == [n \in Names |-> CASE n = a -> fa [] n = b -> fb [] n = c -> fc]

MCPlain == MCFile({}, {}, {})

(* a needs b and b needs c; a needs c and wants b, which wants c; c is      *)
(* missing; a needs b, which wants a.                                       *)
MCChains ==
  { MCLibrary(MCFile({b}, {}, {}), MCFile({c}, {}, {}), MCPlain),
    MCLibrary(MCFile({c}, {b}, {}), MCFile({}, {c}, {}), MCPlain),
    MCLibrary(MCFile({b}, {}, {}), MCFile({c}, {}, {}), NoFile),
    MCLibrary(MCFile({b}, {}, {}), MCFile({}, {a}, {}), NoFile) }

MCOrder3 == <<a, b, c>>

(* Two units: a needs b; b is missing and a wants it. *)
MCPairs ==
  { MCLibrary(MCFile({b}, {}, {}), MCPlain, NoFile),
    MCLibrary(MCFile({}, {b}, {}), NoFile, NoFile) }

MCOrder2 == <<a, b>>

(* The unit a is changed: it comes to need b. *)
MCUpdate ==
  { MCLibrary(MCPlain, MCPlain, NoFile), MCLibrary(MCFile({b}, {}, {}), MCPlain, NoFile) }
=============================================================================
