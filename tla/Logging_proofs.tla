---------------------------- MODULE Logging_proofs ----------------------------
(***************************************************************************)
(* Proofs that the messages which reach the importer are those that its    *)
(* last granted request covers, for any set of categories, be it infinite, *)
(* and any sequence of requests, failures and messages; and how far an FMI *)
(* 3.0 request that threw is followed.                                     *)
(***************************************************************************)
EXTENDS Logging, TLAPS

(* The settings are what the importer was granted last or, if they are not *)
(* kept, a part of what the request that threw was for.                    *)
SettingsInv ==
  alive => IF Partial
             THEN /\ settings.on = attempt.on
                  /\ settings.categories \subseteq attempt.categories
             ELSE settings = request

(* FMI 1.0 has no categories.                                              *)
NoCategoriesIn1 ==
  version = "1.0" => settings.categories = {} /\ request.categories = {}

Inv ==
  /\ TypeOK
  /\ SettingsInv
  /\ NoCategoriesIn1
  /\ MessagesFollowRequest

-----------------------------------------------------------------------------
LEMMA SettingsTypes ==
  ASSUME NEW on \in BOOLEAN, NEW categories \in SUBSET Categories
  PROVE  /\ AsInstantiated(on) \in Settings
         /\ AsInstantiated(on).on = on /\ AsInstantiated(on).categories = {}
         /\ Asked(on, categories) \in Settings
         /\ version = "1.0" => Asked(on, categories).categories = {}
         /\ [on |-> on, categories |-> categories] \in Settings
BY DEF AsInstantiated, Asked, Settings

LEMMA MessageTypes ==
  ASSUME NEW kind \in Kinds, NEW category \in Categories \cup {NoCategory},
         NEW delivered \in BOOLEAN
  PROVE  [kind |-> kind, category |-> category, delivered |-> delivered] \in Message
BY DEF Message

(* No message is logged: nothing to say about it.                          *)
LEMMA SilentStep ==
  ASSUME message' = NoMessage
  PROVE  MessagesFollowRequest'
BY DEF MessagesFollowRequest

LEMMA OwnIsACategory == Own \in Categories \cup {NoCategory}
BY CategoriesAssumption

LEMMA InitInv == Init => Inv
<1> SUFFICES ASSUME Init PROVE Inv
  OBVIOUS
<1>1. /\ settings \in Settings /\ request = settings /\ attempt = settings
      /\ settings.categories = {}
  BY SettingsTypes DEF Init
<1> QED BY <1>1 DEF Init, Inv, TypeOK, SettingsInv, Partial, NoCategoriesIn1,
                    MessagesFollowRequest

(* What Logger::Log and Component::Log let through is what was asked for.  *)
LEMMA ForwardsWhatIsCovered ==
  ASSUME NEW kind \in Kinds, NEW category, settings = request,
         NoCategoriesIn1
  PROVE  Forwards(kind, category) <=> Covers(request, kind, category)
BY DEF NoCategoriesIn1, Forwards, IsCategoryLogged, Covers, Kinds

(* And after a request that threw, no more than that, or everything.       *)
LEMMA ForwardsNoMore ==
  ASSUME NEW kind \in Kinds, NEW category, version = "3.0",
         settings.on = attempt.on, settings.categories \subseteq attempt.categories,
         Forwards(kind, category)
  PROVE  \/ Covers(attempt, kind, category)
         \/ attempt.on /\ settings.categories = {}
BY DEF Forwards, IsCategoryLogged, Covers

LEMMA InstantiateInv ==
  ASSUME Inv, NEW loggingOn \in BOOLEAN, Instantiate(loggingOn)
  PROVE  Inv'
<1>1. AsInstantiated(loggingOn) \in Settings
      /\ AsInstantiated(loggingOn).categories = {}
  BY SettingsTypes
<1> QED
  BY <1>1, SilentStep
     DEF Instantiate, Inv, TypeOK, SettingsInv, Partial, NoCategoriesIn1

LEMMA FailInstantiationInv ==
  ASSUME Inv, NEW loggingOn \in BOOLEAN, FailInstantiation(loggingOn)
  PROVE  Inv'
<1> DEFINE m == [kind |-> "Log", category |-> Own,
                 delivered |-> version = "1.0" \/ loggingOn]
<1>1. /\ request' \in Settings /\ request'.on = loggingOn
      /\ request'.categories = {} /\ attempt' \in Settings
  BY SettingsTypes DEF FailInstantiation
<1>2. message' = m /\ version' = version /\ alive' = FALSE /\ granted' = TRUE
      /\ settings' = settings
  BY DEF FailInstantiation, Inv, TypeOK
<1>3. m \in Message
  BY OwnIsACategory, MessageTypes DEF Kinds
<1>4. m.delivered <=> Covers(request, m.kind, m.category)'
  BY <1>1, <1>2 DEF Covers
<1> QED
  BY <1>1, <1>2, <1>3, <1>4
     DEF Inv, TypeOK, SettingsInv, Partial, NoCategoriesIn1, MessagesFollowRequest

LEMMA SetDebugLoggingInv ==
  ASSUME Inv, NEW loggingOn \in BOOLEAN, NEW categories \in SUBSET Categories,
         SetDebugLogging(loggingOn, categories)
  PROVE  Inv'
<1>1. /\ Asked(loggingOn, categories) \in Settings
      /\ version = "1.0" => Asked(loggingOn, categories).categories = {}
  BY SettingsTypes
<1> QED
  BY <1>1, SilentStep
     DEF SetDebugLogging, Inv, TypeOK, SettingsInv, Partial, NoCategoriesIn1

(* FMI 2.0 has not touched the settings yet; FMI 3.0 has replaced them by  *)
(* a part of what is asked for.                                            *)
LEMMA ThrowInv ==
  ASSUME Inv, NEW loggingOn \in BOOLEAN, NEW categories \in SUBSET Categories,
         NEW copied \in SUBSET Categories,
         ThrowInSetDebugLogging(loggingOn, categories, copied)
  PROVE  Inv'
<1>1. AfterThrow(loggingOn, copied) \in Settings /\ attempt' \in Settings
  BY SettingsTypes DEF AfterThrow, ThrowInSetDebugLogging, Inv, TypeOK
<1>2. version \in {"2.0", "3.0"}
  BY DEF ThrowInSetDebugLogging, Inv, TypeOK, Versions
<1>3. version = "2.0" => AfterThrow(loggingOn, copied) = settings
  BY DEF AfterThrow
<1>4. version = "3.0" => /\ AfterThrow(loggingOn, copied).on = attempt'.on
                         /\ AfterThrow(loggingOn, copied).categories
                              \subseteq attempt'.categories
  BY DEF AfterThrow, ThrowInSetDebugLogging, Asked
<1>5. SettingsInv'
  BY <1>2, <1>3, <1>4
     DEF ThrowInSetDebugLogging, Inv, SettingsInv, Partial
<1> QED
  BY <1>1, <1>2, <1>5, SilentStep
     DEF ThrowInSetDebugLogging, Inv, TypeOK, NoCategoriesIn1

LEMMA LogInv ==
  ASSUME Inv, NEW kind \in Kinds, NEW category \in Categories \cup {NoCategory},
         Log(kind, category)
  PROVE  Inv'
<1> DEFINE m == [kind |-> kind, category |-> category,
                 delivered |-> Forwards(kind, category)]
<1>1. message' = m /\ UNCHANGED <<version, alive, settings, request, attempt, granted>>
  BY DEF Log
<1>2. Forwards(kind, category) \in BOOLEAN
  BY DEF Forwards, IsCategoryLogged
<1>3. m \in Message
  BY <1>2, MessageTypes
<1>4. ~Partial => (Forwards(kind, category) <=> Covers(request, kind, category))
  BY ForwardsWhatIsCovered DEF Log, Inv, SettingsInv, Partial
<1>5. Partial /\ Forwards(kind, category) =>
        \/ Covers(attempt, kind, category)
        \/ attempt.on /\ settings.categories = {}
  BY ForwardsNoMore DEF Log, Inv, SettingsInv, Partial
<1>6. /\ Covers(request, kind, category)' <=> Covers(request, kind, category)
      /\ Covers(attempt, kind, category)' <=> Covers(attempt, kind, category)
  BY <1>1 DEF Covers
<1>7. MessagesFollowRequest'
  BY <1>1, <1>4, <1>5, <1>6 DEF MessagesFollowRequest, Partial
<1> QED
  BY <1>1, <1>3, <1>7
     DEF Inv, TypeOK, SettingsInv, Partial, NoCategoriesIn1

LEMMA NextInv ==
  ASSUME Inv, [Next]_vars
  PROVE  Inv'
<1>1. CASE \E loggingOn \in BOOLEAN : Instantiate(loggingOn)
  BY <1>1, InstantiateInv
<1>2. CASE \E loggingOn \in BOOLEAN : FailInstantiation(loggingOn)
  BY <1>2, FailInstantiationInv
<1>3. CASE FreeInstance
  BY <1>3, SilentStep
     DEF FreeInstance, Inv, TypeOK, SettingsInv, Partial, NoCategoriesIn1
<1>4. CASE \E loggingOn \in BOOLEAN, categories \in SUBSET Categories :
             SetDebugLogging(loggingOn, categories)
  BY <1>4, SetDebugLoggingInv
<1>5. CASE \E loggingOn \in BOOLEAN, categories, copied \in SUBSET Categories :
             ThrowInSetDebugLogging(loggingOn, categories, copied)
  BY <1>5, ThrowInv
<1>6. CASE \E kind \in Kinds, category \in Categories \cup {NoCategory} :
             Log(kind, category)
  BY <1>6, LogInv
<1>7. CASE DropReport
  BY <1>7, SilentStep
     DEF DropReport, Inv, TypeOK, SettingsInv, Partial, NoCategoriesIn1
<1>8. CASE UNCHANGED vars
  BY <1>8
     DEF vars, Inv, TypeOK, SettingsInv, Partial, NoCategoriesIn1,
         MessagesFollowRequest, Covers
<1> QED
  BY <1>1, <1>2, <1>3, <1>4, <1>5, <1>6, <1>7, <1>8 DEF Next

-----------------------------------------------------------------------------
(* The settings are what the importer was granted last, unless an FMI 3.0  *)
(* request has thrown since; then they are a part of that request.         *)
THEOREM InvHolds == Spec => []Inv
BY InitInv, NextInv, PTL DEF Spec

(* Every variable keeps its type.                                          *)
THEOREM TypesHold == Spec => []TypeOK
<1>1. Inv => TypeOK
  BY DEF Inv
<1> QED BY InvHolds, <1>1, PTL

(* The importer gets the messages that its last granted request covers and *)
(* no others, however many categories there are (Logger::Log,              *)
(* Component::Log, fmi?SetDebugLogging); in FMI 3.0, once a request has    *)
(* thrown, none that this request does not cover, unless no category was   *)
(* stored.                                                                 *)
THEOREM RequestsAreFollowed == Spec => []MessagesFollowRequest
<1>1. Inv => MessagesFollowRequest
  BY DEF Inv
<1> QED BY InvHolds, <1>1, PTL
=============================================================================
