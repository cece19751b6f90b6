------------------------------ MODULE GroundedWork ------------------------------
(***************************************************************************)
(* The two uses of evidence: reads of a catalog that changes meanwhile     *)
(* (GroundedAnswers), and a draft made from a context already retrieved    *)
(* (ItineraryDrafts), which no later change reaches.                       *)
(***************************************************************************)
EXTENDS GroundedAnswers

CONSTANTS Null, Briefs, Replies, MaxRepairAttempts, MaxWarnings

VARIABLES use, draft

Drafts == INSTANCE ItineraryDrafts

ASSUME DraftAssumption == Drafts!DraftConstants

all == <<answersVars, use, draft>>

WorkInit == AnswersInit /\ use \in {"reads", "drafts"} /\ draft = Drafts!Idle

Reading == use = "reads" /\ AnswersNext /\ UNCHANGED <<use, draft>>
Drafting == use = "drafts" /\ Drafts!DraftNext /\ UNCHANGED <<answersVars, use>>

WorkSpec == WorkInit /\ [][Reading \/ Drafting]_all

---------------------------------------------------------------------------
\* DestinationCatalog: a place hangs under a place that is there, whatever order
\* and faults its catalog had, and what a catalog got wrong is told.
CatalogIsSound == CatalogTypeOK /\ HierarchyIsRooted /\ RejectionsAreTold

\* GroundedAnswers: what is shown or given was approved, and what a context says
\* of itself is so.
EvidenceIsSound == OnlyApprovedIsGiven /\ CompleteIsComplete /\ RequiredKindsComeFirst

\* ItineraryDrafts: the check of a draft accepts what can be travelled, and
\* nothing else; what is not known of an accepted draft is told with it.
DraftsAreSound == Drafts!VerdictIsFeasibility /\ Drafts!UnknownsAreTold
=============================================================================
