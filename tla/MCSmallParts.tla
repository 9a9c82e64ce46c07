---------------------------- MODULE MCSmallParts ----------------------------
(* SmallParts with                                                          *)
(*   device - two pollers of one device code;                               *)
(*   pages - five actors, two to a page, two pages and the probe;           *)
(*   harness - one path of each kind, every pair of trees;                  *)
(*   verdicts - every outcome of compiler and driver, groups of one and     *)
(*     two tests;                                                           *)
(* and beside them, as parts of this run alone, the parsers of the          *)
(* mutation sites, which are recursive operators, and EvidenceCollection:   *)
(*   sites - forms of three layers: every parser state that a form can      *)
(*     leave behind is met by another form around it or beside it;          *)
(*   evidence - two partitions and two collectors on one output; one row    *)
(*     more than enough, so that a collected campaign can be continued.     *)
EXTENDS SmallParts, EvidenceCollection

CONSTANT MaxLayers
VARIABLES form, layers

Parsers == INSTANCE MutationSites
siteVars == <<form, layers>>

ASSUME SiteConstants == Parsers!SiteConstants

OneAndTwo  == <<1, 2>>
TwoWorkers == 1..2

\* The states that parts keep while another one runs.
NoParts    == NoDevice /\ NoPages /\ NoHarness /\ NoVerdict
NoSites    == form = "idle" /\ layers = "idle"
NoEvidence == CollectInit /\ report = [w \in Workers |-> NoReport]

MCInit ==
  \/ Init /\ NoSites /\ NoEvidence
  \/ part = "sites" /\ Parsers!Init /\ NoParts /\ NoEvidence
  \/ part = "evidence" /\ CollectInit /\ NoParts /\ NoSites

MCNext ==
  \/ Next /\ UNCHANGED <<siteVars, collectVars>>
  \/ part = "sites" /\ Parsers!Next /\ UNCHANGED <<vars, collectVars>>
  \/ part = "evidence" /\ CollectNext /\ UNCHANGED <<vars, siteVars>>

MCSpec == MCInit /\ [][MCNext]_<<vars, siteVars, collectVars>>

\* The sites are exactly the live numbers, operators and strings (MutationSites).
SitesExact == part = "sites" => Parsers!SitesExact
\* What a document says of inert forms, and the legacy parser does not keep.
InertSkipped == part = "sites" => Parsers!InertSkipped

=============================================================================
