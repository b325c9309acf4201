------------------------------- MODULE Logging -------------------------------
(***************************************************************************)
(* Which messages reach the importer: cppfmu::Logger and the settings it   *)
(* shares with Component (cppfmu_common.hpp, FMI 1.0 and 2.0), the log     *)
(* members of Component (fmi3_functions.cpp), the entry points that set    *)
(* them, and the reports of an instantiation that failed.                  *)
(*                                                                         *)
(* The version of FMI is fixed when the library is compiled; here it is a  *)
(* variable that no step changes.  An exception that leaves an entry point *)
(* is taken to be caught by the importer, who knows its last request that  *)
(* was granted and the one that was not.                                   *)
(***************************************************************************)
EXTENDS Naturals

CONSTANTS
  Categories,  \* the categories the FMU declares
  Own,         \* CPPFMU_LOG_CATEGORY, the category of the library's reports
  NoCategory   \* a null category: the FMU declares none

ASSUME CategoriesAssumption ==
  /\ NoCategory \notin Categories
  /\ Own \in Categories \cup {NoCategory}

VARIABLES
  version,   \* FMI 1.0, 2.0 or 3.0
  alive,     \* does the instance exist?
  settings,  \* debugLoggingEnabled and loggedCategories
  request,   \* what the importer last asked for and was granted
  attempt,   \* what it last asked for, granted or not
  granted,   \* whether that was granted; if not, it threw
  message    \* what was logged since, and whether it reached the importer

vars == <<version, alive, settings, request, attempt, granted, message>>

Versions == {"1.0", "2.0", "3.0"}

Settings == [on : BOOLEAN, categories : SUBSET Categories]

(* A message is debug output or not (Logger::DebugLog, Logger::Log).       *)
Kinds == {"Log", "DebugLog"}

Message == [kind : Kinds, category : Categories \cup {NoCategory},
            delivered : BOOLEAN]

NoMessage == [kind |-> "None"]

(* Mutant of AsInstantiated: the list begins with one empty element.       *)
AsInstantiatedWithOne(loggingOn) == [on |-> loggingOn, categories |-> {NoCategory}]

AsInstantiated(loggingOn) == [on |-> loggingOn, categories |-> {}]

(* A null category is logged only while no categories are picked out.      *)
IsCategoryLogged(category) ==
  settings.categories = {} \/ category \in settings.categories

(* Does the message reach the importer?  FMI 1.0's Log does not ask        *)
(* whether logging is on, its DebugLog does.                               *)
Forwards(kind, category) ==
  /\ version # "1.0" \/ kind = "DebugLog" => settings.on
  /\ IsCategoryLogged(category)

Init ==
  /\ version \in Versions
  /\ alive = FALSE
  /\ settings = AsInstantiated(FALSE)
  /\ request = settings
  /\ attempt = settings
  /\ granted = TRUE
  /\ message = NoMessage

-----------------------------------------------------------------------------
(* The constructors of Component and Settings.                             *)
Instantiate(loggingOn) ==
  /\ ~alive
  /\ alive' = TRUE
  /\ settings' = AsInstantiated(loggingOn)
  /\ request' = settings'
  /\ attempt' = settings'
  /\ granted' = TRUE
  /\ message' = NoMessage
  /\ UNCHANGED version

(* There is no Component to ask when an instantiation fails: FMI 2.0 and   *)
(* 3.0 look at the argument, FMI 1.0 always reports.                       *)
FailInstantiation(loggingOn) ==
  /\ ~alive
  /\ request' = AsInstantiated(loggingOn)
  /\ attempt' = request'
  /\ granted' = TRUE
  /\ message' = [kind |-> "Log", category |-> Own,
                 delivered |-> version = "1.0" \/ loggingOn]
  /\ UNCHANGED <<version, alive, settings>>

FreeInstance ==
  /\ alive
  /\ alive' = FALSE
  /\ message' = NoMessage
  /\ UNCHANGED <<version, settings, request, attempt, granted>>

(* fmiSetDebugLogging only has the flag.                                   *)
Asked(loggingOn, categories) ==
  [on |-> loggingOn, categories |-> IF version = "1.0" THEN {} ELSE categories]

SetDebugLogging(loggingOn, categories) ==
  /\ alive
  /\ settings' = Asked(loggingOn, categories)
  /\ request' = settings'
  /\ attempt' = settings'
  /\ granted' = TRUE
  /\ message' = NoMessage
  /\ UNCHANGED <<version, alive>>

(* Mutants of AfterThrow: FMI 2.0 replaces the categories in place; FMI    *)
(* 3.0 adds to those that were chosen before.                              *)
AfterThrowInPlace(loggingOn, copied) ==
  [on |-> loggingOn, categories |-> copied]

AfterThrowAdding(loggingOn, copied) ==
  IF version = "2.0"
    THEN settings
    ELSE [on |-> loggingOn, categories |-> settings.categories \cup copied]

(* The settings left by a SetDebugLogging that ran out of memory when it   *)
(* had copied these categories: fmi2SetDebugLogging has not touched them   *)
(* yet, fmi3SetDebugLogging has cleared them and filled in as many.        *)
AfterThrow(loggingOn, copied) ==
  IF version = "2.0"
    THEN settings
    ELSE [on |-> loggingOn, categories |-> copied]

ThrowInSetDebugLogging(loggingOn, categories, copied) ==
  /\ alive
  /\ version # "1.0"
  /\ copied \subseteq categories /\ copied # categories
  /\ settings' = AfterThrow(loggingOn, copied)
  /\ attempt' = Asked(loggingOn, categories)
  /\ granted' = FALSE
  /\ message' = NoMessage
  /\ UNCHANGED <<version, alive, request>>

(* A message of the model, or the library's report of a call that failed   *)
(* or was refused.                                                         *)
Log(kind, category) ==
  /\ alive
  /\ message' = [kind |-> kind, category |-> category,
                 delivered |-> Forwards(kind, category)]
  /\ UNCHANGED <<version, alive, settings, request, attempt, granted>>

(* A report that cannot be put together is dropped; the call it is about   *)
(* returns as it would have.                                               *)
DropReport ==
  /\ alive
  /\ message' = NoMessage
  /\ UNCHANGED <<version, alive, settings, request, attempt, granted>>

-----------------------------------------------------------------------------
Next ==
  \/ \E loggingOn \in BOOLEAN : Instantiate(loggingOn)
  \/ \E loggingOn \in BOOLEAN : FailInstantiation(loggingOn)
  \/ FreeInstance
  \/ \E loggingOn \in BOOLEAN, categories \in SUBSET Categories :
       SetDebugLogging(loggingOn, categories)
  \/ \E loggingOn \in BOOLEAN, categories, copied \in SUBSET Categories :
       ThrowInSetDebugLogging(loggingOn, categories, copied)
  \/ \E kind \in Kinds, category \in Categories \cup {NoCategory} :
       Log(kind, category)
  \/ DropReport

Spec == Init /\ [][Next]_vars

-----------------------------------------------------------------------------
(* Type invariant: each variable holds a value of its type.                *)
TypeOK ==
  /\ version \in Versions
  /\ alive \in BOOLEAN
  /\ settings \in Settings
  /\ request \in Settings
  /\ attempt \in Settings
  /\ granted \in BOOLEAN
  /\ message \in Message \cup {NoMessage}

(* An FMI 3.0 request has thrown half way, and no other was granted since. *)
Partial == version = "3.0" /\ ~granted

(* What a request covers.                                                  *)
Covers(asked, kind, category) ==
  IF version = "1.0"
    THEN kind = "Log" \/ asked.on
    ELSE /\ asked.on
         /\ asked.categories # {} => category \in asked.categories

(* The importer gets exactly the messages that its last granted request    *)
(* covers, whatever request it made since and had thrown back, and also    *)
(* when the instantiation itself fails (Logger::Log, Component::Log).      *)
(*                                                                         *)
(* After an FMI 3.0 request that threw, neither that request nor the one   *)
(* before is in force, as fmi3SetDebugLogging has changed the settings     *)
(* already.  The importer then gets nothing that the request which threw   *)
(* does not cover (so logging is off if that is what it asked for), unless *)
(* not one category had been stored, which is taken for all of them.       *)
MessagesFollowRequest ==
  message # NoMessage =>
    IF Partial
      THEN message.delivered =>
             \/ Covers(attempt, message.kind, message.category)
             \/ attempt.on /\ settings.categories = {}
      ELSE message.delivered <=> Covers(request, message.kind, message.category)
=============================================================================
