---------------------------- MODULE MutationSites ----------------------------
(***************************************************************************)
(* Which tokens of a source file mutation_campaign.py proposes to mutate:  *)
(* the two recursive parsers behind sites(), over the tokens of a file.    *)
(* A form grows around an atom layer by layer; it is written as tokens,    *)
(* which the parsers read, and as a tree, which says what is alive.  The   *)
(* values proposed at a site and the lexer are left out.                   *)
(***************************************************************************)
EXTENDS Naturals, Sequences, SequencesExt

CONSTANTS MaxLayers   \* bound of the model: nesting of the form

SiteConstants == MaxLayers \in Nat

VARIABLES form, layers

vars == <<form, layers>>

-----------------------------------------------------------------------------
(* Forms, and the tokens they are written with.                            *)

\* A form is an atom, a list, a vector, or a form behind prefixes.  "[" stands for braces
\* as well, and "#" for the token before the bracket of a dispatch, and for #js.  Atoms
\* are a number, an operator with replacements, a string that is not empty, and the
\* symbols that the parsers know: comment, a definition, a loader.
Atoms == {"number", "operator", "string", "comment", "defn", "ns"}

Atom(a)      == [head |-> a, kids |-> <<>>]
Form(h, kids) == [head |-> h, kids |-> kids]
IsAtom(f)    == f.head \in Atoms

Closing == [b \in {"(", "["} |-> IF b = "(" THEN ")" ELSE "]"]

RECURSIVE Written(_)
Written(f) ==
  <<f.head>> \o FlattenSeq([i \in DOMAIN f.kids |-> Written(f.kids[i])])
    \o (IF f.head \in DOMAIN Closing THEN <<Closing[f.head]>> ELSE <<>>)

-----------------------------------------------------------------------------
(* _legacy_sites.                                                          *)

Site(i, kind) == [at |-> i, kind |-> kind]

\* Quotes and discards disable what follows; of metadata only the first form.  A "#" is
\* an atom here, and the bracket behind it a form of its own.
Disables == {"'", "#_"}
Passes   == {"@"}

RECURSIVE LegacyForm(_, _, _), LegacyKids(_, _, _, _, _)
LegacyForm(s, i, disabled) ==
  CASE s[i] \in Disables -> LegacyForm(s, i + 1, TRUE)
    [] s[i] \in Passes -> LegacyForm(s, i + 1, disabled)
    [] s[i] = "^" -> LET meta == LegacyForm(s, i + 1, TRUE)
                         of   == LegacyForm(s, meta.next, disabled)
                     IN [next |-> of.next, found |-> meta.found \union of.found]
    [] s[i] \in DOMAIN Closing ->
         LET inert == disabled \/ (s[i] = "(" /\ s[i + 1] = "comment")
             heads == IF s[i] = "(" /\ ~inert /\ s[i + 1] = "operator"
                        THEN {Site(i + 1, "operator")} ELSE {}
         IN LegacyKids(s, i + 1, Closing[s[i]], inert, heads)
    [] OTHER -> [next |-> i + 1, found |-> IF ~disabled /\ s[i] = "number"
                                             THEN {Site(i, "literal")} ELSE {}]
LegacyKids(s, i, closing, inert, found) ==
  IF s[i] = closing THEN [next |-> i + 1, found |-> found]
  ELSE LET kid == LegacyForm(s, i, inert)
       IN LegacyKids(s, kid.next, closing, inert, found \union kid.found)

-----------------------------------------------------------------------------
(* _string_sites: nodes first, then a walk over the ones that produce.     *)

\* A dispatch is a reader node around what follows it.
ReaderPasses == Passes \union {"#"}

Node(kind, i, disabled, kids) ==
  [kind |-> kind, at |-> i, disabled |-> disabled, kids |-> kids]
Produces(n) == n.kind # "discard"

RECURSIVE NodeAt(_, _, _), Value(_, _, _), NodeKids(_, _, _, _)
\* A form, and the token after it.
NodeAt(s, i, disabled) ==
  CASE s[i] \in Disables ->
         LET v == Value(s, i + 1, TRUE)
         IN <<Node(IF s[i] = "#_" THEN "discard" ELSE "reader", i, TRUE, v[1]), v[2]>>
    [] s[i] \in ReaderPasses ->
         LET v == Value(s, i + 1, disabled) IN <<Node("reader", i, disabled, v[1]), v[2]>>
    [] s[i] = "^" ->
         LET meta == Value(s, i + 1, TRUE)
             of   == Value(s, meta[2], disabled)
         IN <<Node("metadata", i, disabled, meta[1] \o of[1]), of[2]>>
    [] s[i] \in DOMAIN Closing ->
         LET kids == NodeKids(s, i + 1, Closing[s[i]], disabled)
         IN <<Node(s[i], i, disabled, kids[1]), kids[2]>>
    [] OTHER -> <<Node("atom", i, disabled, <<>>), i + 1>>
\* The forms up to the first that produces a value.
Value(s, i, disabled) ==
  LET n == NodeAt(s, i, disabled) IN
  IF Produces(n[1]) THEN <<<<n[1]>>, n[2]>>
  ELSE LET rest == Value(s, n[2], disabled) IN <<<<n[1]>> \o rest[1], rest[2]>>
NodeKids(s, i, closing, disabled) ==
  IF s[i] = closing THEN <<<<>>, i + 1>>
  ELSE LET n    == NodeAt(s, i, disabled)
           rest == NodeKids(s, n[2], closing, disabled)
       IN <<<<n[1]>> \o rest[1], rest[2]>>

\* The third of at least four children of a definition is its documentation.
DocumentsThree(kids) == Len(kids) >= 3
Documents(kids) == Len(kids) >= 4

RECURSIVE Walk(_, _, _)
Walk(s, n, silent) ==
  IF n.disabled THEN {}
  ELSE IF n.kind = "atom"
    THEN IF ~silent /\ s[n.at] = "string" THEN {Site(n.at, "string_literal")} ELSE {}
  ELSE LET kids  == SelectSeq(n.kids, Produces)
           name  == IF n.kind = "(" /\ kids # <<>> /\ kids[1].kind = "atom"
                      THEN s[kids[1].at] ELSE "none"
           quiet == silent \/ name = "ns"
           doc(i) == name = "defn" /\ i = 3 /\ Documents(kids) /\ s[kids[i].at] = "string"
       IN IF name = "comment" THEN {}
          ELSE UNION {Walk(s, kids[i], quiet \/ doc(i)) : i \in DOMAIN kids}

\* sites of the standard profile: every top-level form, by both parsers.
RECURSIVE SitesFrom(_, _)
SitesFrom(s, i) ==
  IF i > Len(s) THEN {}
  ELSE LET legacy == LegacyForm(s, i, FALSE) IN legacy.found \union SitesFrom(s, legacy.next)
RECURSIVE StringsFrom(_, _)
StringsFrom(s, i) ==
  IF i > Len(s) THEN {}
  ELSE LET n == NodeAt(s, i, FALSE) IN Walk(s, n[1], FALSE) \union StringsFrom(s, n[2])
Sites(s) == SitesFrom(s, 1) \union StringsFrom(s, 1)

-----------------------------------------------------------------------------
(* Growing a form.                                                         *)

Init == form \in {Atom(a) : a \in Atoms} /\ layers = 0

AtomSeqs(S, n) == UNION {[1..k -> {Atom(a) : a \in S}] : k \in 0..n}

Prefix == \E p \in Disables \union Passes : form' = Form(p, <<form>>)
Dispatch == \E b \in {"(", "["} : form' = Form("#", <<Form(b, <<form>>)>>)
Metadata ==
  \E a \in {"number", "string", "comment"} :
    form' \in {Form("^", <<form, Atom(a)>>), Form("^", <<Atom(a), form>>)}
Tails == {<<>>, <<Atom("number")>>, <<Atom("string"), Atom("number")>>}
List ==
  \E before \in AtomSeqs(Atoms, 2), after \in Tails :
    form' = Form("(", before \o <<form>> \o after)
Vector ==
  \E before \in AtomSeqs({"comment", "operator"}, 1), after \in AtomSeqs({"number"}, 1) :
    form' = Form("[", before \o <<form>> \o after)

Grow == layers < MaxLayers /\ layers' = layers + 1 /\ (Prefix \/ Dispatch \/ Metadata \/ List \/ Vector)

Next == Grow

Spec == Init /\ [][Next]_vars

-----------------------------------------------------------------------------
(* What is alive, by the tree.                                             *)

Prefixed(f) == f.head \in {"'", "#_", "@", "^"}

\* The legacy parser takes one token's form after a prefix, although the reader skips a
\* discarded form on the way, and although a dispatch needs the bracket behind it: no
\* prefix is followed by one of hs.  Both parsers know a head only as a bare symbol.
RECURSIVE Usual(_, _)
Usual(f, hs) ==
  /\ \A i \in DOMAIN f.kids : Usual(f.kids[i], hs)
  /\ Prefixed(f) => \A i \in DOMAIN f.kids : f.kids[i].head \notin hs
  /\ f.head = "(" /\ f.kids # <<>> => ~Prefixed(f.kids[1])

\* Every atom with its token position and the forms around it, each with the place in it.
RECURSIVE Occurrences(_, _)
Occurrences(f, i) ==
  IF IsAtom(f) THEN {[atom |-> f.head, at |-> i, around |-> <<>>]}
  ELSE LET start(k) == i + 1 + FoldLeft(LAMBDA n, g : n + Len(Written(g)), 0, SubSeq(f.kids, 1, k - 1))
       IN UNION {{[o EXCEPT !.around = <<[in |-> f, place |-> k]>> \o @]
                    : o \in Occurrences(f.kids[k], start(k))} : k \in DOMAIN f.kids}

Headed(f, a) == f.head = "(" /\ f.kids # <<>> /\ f.kids[1] = Atom(a)
Alive(o) ==
  \A j \in DOMAIN o.around :
    LET a == o.around[j] IN
    ~(a.in.head \in {"'", "#_"} \/ (a.in.head = "^" /\ a.place = 1) \/ Headed(a.in, "comment"))
Spoken(f, n) == Len(SelectSeq(SubSeq(f.kids, 1, n), LAMBDA g : g.head # "#_"))
Innermost(o) == o.around[Len(o.around)]

Runtime(o) ==
  CASE o.atom = "number"   -> TRUE
    [] o.atom = "operator" -> o.around # <<>> /\ Innermost(o).in.head = "(" /\ Innermost(o).place = 1
    [] o.atom = "string"   ->
         /\ \A j \in DOMAIN o.around : ~Headed(o.around[j].in, "ns")
         /\ o.around # <<>> =>
              LET f == Innermost(o).in IN
              ~(Headed(f, "defn") /\ Spoken(f, Len(f.kids)) > 3 /\ Spoken(f, Innermost(o).place) = 3)
    [] OTHER -> FALSE

\* Both parsers propose exactly the numbers, operators and strings that a program
\* evaluates: nothing quoted, discarded, commented out, of metadata, of a namespace
\* form or of documentation, and no live one is missed; but for a prefix directly
\* before a discarded form or a dispatch.
SitesExact ==
  Usual(form, {"#_", "#"}) =>
    {x.at : x \in Sites(Written(form))} =
      {o.at : o \in {p \in Occurrences(form, 1) : Alive(p) /\ Runtime(p)}}

\* "The original legacy-v1 profile finds list-head and literal candidates outside
\* strings, regular expressions, reader-discarded, quoted, and (comment ...) forms"
\* (qualification/README.md:170-172).  Behind a dispatch that is discarded or quoted,
\* as in #_#(inc 1), the bracket is a live form for the parser.
InertSkipped ==
  Usual(form, {"#_"}) =>
    \A o \in Occurrences(form, 1) :
      o.at \in {x.at : x \in SitesFrom(Written(form), 1)} => Alive(o)

=============================================================================
