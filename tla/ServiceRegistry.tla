-------------------------- MODULE ServiceRegistry --------------------------
(***************************************************************************)
(* The rows of services (services_handlers.go) and the rules their         *)
(* configurations obey (service_rules.go).  Requests validate what they    *)
(* are sent and write it with one statement; the handlers of the Facebook  *)
(* import load the active row of the name "facebook" and validate again.   *)
(***************************************************************************)
EXTENDS ApiAccess

CONSTANTS
  ServiceIds,     \* ids of rows of services
  Configurations  \* the configurations clients send

ServiceNames == {"facebook", "twitter", "mastodon"}

(***************************************************************************)
(* A configuration, reduced to what the rules and the handlers ask of it:  *)
(* client_id and client_secret are there, api_version is absent, well      *)
(* formed or not, redirect_uri is an absolute http or https URL.           *)
(***************************************************************************)
Configuration == [keys: BOOLEAN, version: {"absent", "good", "bad"}, redirect: BOOLEAN]

ASSUME RegistryAssumption == Configurations \subseteq Configuration

VARIABLE row  \* row[i]: the row of services with id i

NoRow == [name |-> "none", config |-> "none", active |-> FALSE]

ServiceRows == [name: ServiceNames, config: Configuration, active: BOOLEAN]

RegistryTypeOK == row \in [ServiceIds -> ServiceRows \cup {NoRow}]

RegistryInit == row = [i \in ServiceIds |-> NoRow]

\* ValidateServiceConfiguration
Valid(name, config, active) ==
  /\ name \in {"facebook", "twitter"} /\ active => config.keys
  /\ name = "facebook" => config.version # "bad"

\* The UNIQUE constraint on services.name.
Free(name, i) == \A j \in ServiceIds \ {i} : row[j].name # name

CreateService(r) ==
  /\ At(r, "service", "serve")
  /\ \E i \in ServiceIds, name \in ServiceNames, config \in Configurations, active \in BOOLEAN :
       /\ Valid(name, config, active)
       /\ row[i] = NoRow /\ Free(name, i)
       /\ row' = [row EXCEPT ![i] = [name |-> name, config |-> config, active |-> active]]
  /\ Answered(r)
  /\ UNCHANGED <<users, credential, owner, granted, arrivals>>

\* Mutant of UpdateService: the rules are applied to the row as it was.
UpdateServiceOldRow(r) ==
  /\ At(r, "service", "serve")
  /\ \E i \in ServiceIds, name \in ServiceNames, config \in Configurations, active \in BOOLEAN :
       /\ row[i] # NoRow /\ Valid(row[i].name, config, row[i].active) /\ Free(name, i)
       /\ row' = [row EXCEPT ![i] = [name |-> name, config |-> config, active |-> active]]
  /\ Answered(r)
  /\ UNCHANGED <<users, credential, owner, granted, arrivals>>

\* All columns are replaced, the name too.
UpdateService(r) ==
  /\ At(r, "service", "serve")
  /\ \E i \in ServiceIds, name \in ServiceNames, config \in Configurations, active \in BOOLEAN :
       /\ Valid(name, config, active)
       /\ row[i] # NoRow /\ Free(name, i)
       /\ row' = [row EXCEPT ![i] = [name |-> name, config |-> config, active |-> active]]
  /\ Answered(r)
  /\ UNCHANGED <<users, credential, owner, granted, arrivals>>

DeleteService(r) ==
  /\ At(r, "service", "serve")
  /\ \E i \in ServiceIds :
       /\ row[i] # NoRow
       /\ row' = [row EXCEPT ![i] = NoRow]
  /\ Answered(r)
  /\ UNCHANGED <<users, credential, owner, granted, arrivals>>

ServiceStep(r) == CreateService(r) \/ UpdateService(r) \/ DeleteService(r)

\* loadActiveServiceConfiguration: the configuration of an active row.
ActiveRows(name) == {i \in ServiceIds : row[i].name = name /\ row[i].active}

LoadedConfigurations(name) == {row[i].config : i \in ActiveRows(name)}

-----------------------------------------------------------------------------
(***************************************************************************)
(* An import that loads the active configuration of a service finds one    *)
(* row, not two, and finds it valid: what the rules have let in under any  *)
(* name, switched on or off, passes them after any order of creating,      *)
(* renaming and switching services, when the import starts and when its    *)
(* callback runs.                                                          *)
(***************************************************************************)
LoadedIsValid ==
  \A name \in ServiceNames :
    \A i, j \in ActiveRows(name) : i = j /\ Valid(name, row[i].config, TRUE)
=============================================================================
