--------------------------------- MODULE Media ---------------------------------
(***************************************************************************)
(* Images and the import of colleges, which makes some: the server with    *)
(* its handlers and workers, and the command, which is a process of its    *)
(* own.  Calls may fail and each process may stop; the server starts       *)
(* again.                                                                  *)
(***************************************************************************)
EXTENDS CollegeMigration

CONSTANT MaxFaults   \* bound: failed calls, lost jobs and stops

ASSUME FaultAssumption == MaxFaults \in Nat

VARIABLE faults

vars == <<handlers, images, migration, faults>>

TypeOK == GalleryTypeOK /\ MigrationTypeOK /\ faults \in 0..MaxFaults

Init == HandlersInit /\ GalleryInit /\ MigrationInit /\ faults = 0

Handle(r) == GalleryStep(r) /\ UNCHANGED <<migration, faults>>

Migrate == MigrationStep /\ UNCHANGED faults

Fault ==
  /\ faults < MaxFaults /\ faults' = faults + 1
  /\ \/ (\E r \in Requests : CallFails(r)) /\ UNCHANGED migration
     \/ HandlersStop /\ WorkersStop
     \/ \E j \in Jobs : JobFails(j) \/ LoseJob(j)
     \/ RunnerStops

Next == (\E r \in Requests : Handle(r)) \/ Migrate \/ Fault

\* The command's loop and Bull's workers go on as long as there is work.
Fairness ==
  /\ WF_vars(FetchPage /\ UNCHANGED faults)
  /\ \A j \in Jobs : WF_vars(Arrive(j) /\ UNCHANGED faults) /\ WF_vars(Take(j) /\ UNCHANGED faults)
  /\ \A c \in Colleges : WF_vars(CollegeStep(c) /\ UNCHANGED faults)

Spec == Init /\ [][Next]_vars /\ Fairness
=============================================================================
