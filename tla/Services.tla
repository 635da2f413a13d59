------------------------------ MODULE Services ------------------------------
(***************************************************************************)
(* Services of the shim that share no state with one another: handlers,    *)
(* virtual memory, sorting, text and moving files.  A behaviour has the    *)
(* program use one of them, so that the services are checked side by side  *)
(* and not in every combination.                                           *)
(***************************************************************************)
EXTENDS Handlers, Memory, Qsort, Text, FileMove

servicesVars == <<vars, memVars, qsortVars, textVars, moveVars>>

\* A service that is not used has nothing to do.
ServicesInit ==
  /\ Init
  /\ IF service = "qsort" THEN TRUE ELSE given = <<>>
  /\ IF service = "text" THEN TRUE
     ELSE kind = "string" /\ origin = <<>> /\ room = (CHOOSE r \in Rooms : TRUE)
  /\ IF service = "move" THEN TRUE
     ELSE /\ job = (CHOOSE j \in Tasks : TRUE)
          /\ fs = (CHOOSE f \in FileSystems : TRUE)
          /\ target = None
  /\ MemInit /\ QsortInit /\ TextInit /\ MoveInit

ServicesNext ==
  \/ Next /\ UNCHANGED <<memVars, qsortVars, textVars, moveVars>>
  \/ service = "memory" /\ MemNext /\ UNCHANGED <<vars, qsortVars, textVars, moveVars>>
  \/ service = "qsort" /\ QsortNext /\ UNCHANGED <<vars, memVars, textVars, moveVars>>
  \/ service = "text" /\ TextNext /\ UNCHANGED <<vars, memVars, qsortVars, moveVars>>
  \/ service = "move" /\ MoveNext /\ UNCHANGED <<vars, memVars, qsortVars, textVars>>

\* The fairness of the handlers is all there is.
ServicesSpec == ServicesInit /\ [][ServicesNext]_servicesVars /\ WF_vars(Dispatch)
=============================================================================
