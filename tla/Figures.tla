------------------------------ MODULE Figures --------------------------------
(***************************************************************************)
(* What the application counts and shows: the reports page and the outcome *)
(* of an import.  They share no row, so one moves while the other rests    *)
(* (see Office).                                                           *)
(***************************************************************************)
EXTENDS Reporting, ImportFile

VARIABLE part

vars == <<part, reportingVars, importFileVars>>

Init ==
  /\ part \in {"reports", "import"}
  /\ ReportingInit /\ ImportFileInit
  /\ part = "reports" =>
       /\ file = [defect |-> "empty", columns |-> {}, rows |-> <<>>]
       /\ updating
       /\ held = [o \in Owners |-> [n \in Numbers |-> "absent"]]

ReportsMove ==
  /\ part = "reports" /\ ReportingNext
  /\ UNCHANGED <<part, importFileVars>>

ImportMoves ==
  /\ part = "import" /\ ImportFileNext
  /\ UNCHANGED <<part, reportingVars>>

Next == ReportsMove \/ ImportMoves

Spec == Init /\ [][Next]_vars

\* The values each part can have.
TypeOK == ReportingTypeOK /\ ImportFileTypeOK

=============================================================================
