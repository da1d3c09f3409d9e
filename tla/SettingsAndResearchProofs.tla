---------------------- MODULE SettingsAndResearchProofs ----------------------
(***************************************************************************)
(* The two components that turn what others report into what Captain shows or *)
(* stores, neither of which is told much about its input: a connector's report  *)
(* becomes a plan and a notice (ConnectorSettings), a research bundle becomes     *)
(* the sources of Project State (ResearchBridge).  They share no state; the        *)
(* theorems of each are independent of the other's.                                 *)
(***************************************************************************)
EXTENDS ConnectorSettings, ResearchBridge, FiniteSetTheorems, TLAPS

-----------------------------------------------------------------------------
(* Lists of codes *)

(* A list of codes joined of two has the codes of both. *)
LEMMA RangeOfJoined ==
  ASSUME NEW S, NEW s \in Seq(S), NEW t \in Seq(S)
  PROVE  s \o t \in Seq(S) /\ Range(s \o t) = Range(s) \cup Range(t)
<1>1. s \o t \in Seq(S) /\ Len(s \o t) = Len(s) + Len(t)
  OBVIOUS
<1>2. \A i \in 1..Len(s) : (s \o t)[i] = s[i]
  OBVIOUS
<1>3. \A i \in 1..Len(t) : (s \o t)[Len(s) + i] = t[i]
  OBVIOUS
<1>4. DOMAIN s = 1..Len(s) /\ DOMAIN t = 1..Len(t) /\ DOMAIN (s \o t) = 1..(Len(s) + Len(t))
  BY <1>1
<1>5. ASSUME NEW i \in DOMAIN (s \o t)  PROVE (s \o t)[i] \in Range(s) \cup Range(t)
  <2>1. CASE i \in 1..Len(s)
    BY <2>1, <1>2, <1>4 DEF Range
  <2>2. CASE i \notin 1..Len(s)
    <3>1. i - Len(s) \in 1..Len(t) /\ i = Len(s) + (i - Len(s))
      BY <2>2, <1>4
    <3> QED
      BY <3>1, <1>3, <1>4 DEF Range
  <2> QED
    BY <2>1, <2>2
<1>6. ASSUME NEW i \in DOMAIN s  PROVE s[i] \in Range(s \o t)
  <2>1. i \in DOMAIN (s \o t)
    BY <1>4
  <2> QED
    BY <2>1, <1>2, <1>4 DEF Range
<1>7. ASSUME NEW i \in DOMAIN t  PROVE t[i] \in Range(s \o t)
  <2>1. Len(s) + i \in DOMAIN (s \o t)
    BY <1>4
  <2> QED
    BY <2>1, <1>3, <1>4 DEF Range
<1>8. Range(s \o t) \subseteq Range(s) \cup Range(t)
  BY <1>5 DEF Range
<1>9. Range(s) \subseteq Range(s \o t) /\ Range(t) \subseteq Range(s \o t)
  BY <1>6, <1>7 DEF Range
<1> QED
  BY <1>1, <1>8, <1>9

(* A list of the codes of a set. *)
Lists(s, S, codes) == s \in Seq(S) /\ Range(s) = codes

(* Two lists joined. *)
LEMMA JoinedLists ==
  ASSUME NEW S, NEW s, NEW t, NEW codes, NEW more, Lists(s, S, codes), Lists(t, S, more)
  PROVE  Lists(s \o t, S, codes \cup more)
BY RangeOfJoined DEF Lists

(* A code is listed exactly when its condition holds. *)
LEMMA WhenLists ==
  ASSUME NEW S, NEW code \in S, NEW condition
  PROVE  Lists(When(condition, code), S, IF condition THEN {code} ELSE {})
<1>1. CASE condition
  <2>1. << code >> \in Seq(S)
    OBVIOUS
  <2>2. DOMAIN << code >> = {1} /\ << code >>[1] = code
    OBVIOUS
  <2>3. Range(<< code >>) = {code}
    BY <2>2 DEF Range
  <2> QED
    BY <1>1, <2>1, <2>3 DEF When, Lists
<1>2. CASE ~ condition
  <2>1. << >> \in Seq(S) /\ DOMAIN << >> = {}
    OBVIOUS
  <2>2. Range(<< >>) = {}
    BY <2>1 DEF Range
  <2> QED
    BY <1>2, <2>1, <2>2 DEF When, Lists
<1> QED
  BY <1>1, <1>2

(* The first code of a list is one of it. *)
LEMMA HeadIsListed ==
  ASSUME NEW S, NEW s \in Seq(S), s # << >>
  PROVE  Head(s) \in Range(s) /\ Head(s) \in S
BY DEF Range

-----------------------------------------------------------------------------
(* One check *)

(* The codes of what blocks a connector. *)
BlockerCodes(state, r) ==
  (IF ~ state.installed THEN {"not_installed"} ELSE {})
    \cup (IF state.installed /\ ~ state.connected THEN {"not_connected"} ELSE {})
    \cup (IF state.connected /\ ~ state.enabled THEN {"disabled"} ELSE {})
    \cup (IF r.auth_method \notin AUTH_METHODS THEN {"auth_method_invalid"} ELSE {})
    \cup (IF r.auth_method \in AUTH_METHODS /\ ~ AuthOk(r) THEN {"auth_unhealthy"} ELSE {})
    \cup (IF state.status # "healthy" THEN {"health_unhealthy"} ELSE {})
    \cup (IF state.version_status # "current" THEN {"provider_compatibility_unverified"} ELSE {})

(* Every blocker is listed exactly when it holds, whatever was reported. *)
LEMMA BlockersListed ==
  ASSUME NEW state, NEW r
  PROVE  Lists(Blockers(state, r), DOMAIN Actions, BlockerCodes(state, r))
<1> DEFINE S == DOMAIN Actions
           a == When(~ state.installed, "not_installed")
           b == When(state.installed /\ ~ state.connected, "not_connected")
           c == When(state.connected /\ ~ state.enabled, "disabled")
           d == When(r.auth_method \notin AUTH_METHODS, "auth_method_invalid")
           e == When(r.auth_method \in AUTH_METHODS /\ ~ AuthOk(r), "auth_unhealthy")
           f == When(state.status # "healthy", "health_unhealthy")
           g == When(state.version_status # "current", "provider_compatibility_unverified")
           A == IF ~ state.installed THEN {"not_installed"} ELSE {}
           B == IF state.installed /\ ~ state.connected THEN {"not_connected"} ELSE {}
           C == IF state.connected /\ ~ state.enabled THEN {"disabled"} ELSE {}
           D == IF r.auth_method \notin AUTH_METHODS THEN {"auth_method_invalid"} ELSE {}
           E == IF r.auth_method \in AUTH_METHODS /\ ~ AuthOk(r) THEN {"auth_unhealthy"} ELSE {}
           F == IF state.status # "healthy" THEN {"health_unhealthy"} ELSE {}
           G == IF state.version_status # "current" THEN {"provider_compatibility_unverified"} ELSE {}
<1>1. /\ "not_installed" \in S /\ "not_connected" \in S /\ "disabled" \in S /\ "auth_method_invalid" \in S
      /\ "auth_unhealthy" \in S /\ "health_unhealthy" \in S /\ "provider_compatibility_unverified" \in S
  BY DEF Actions
<1>2. Lists(a, S, A)
  BY <1>1, WhenLists
<1>3. Lists(b, S, B)
  BY <1>1, WhenLists
<1>4. Lists(c, S, C)
  BY <1>1, WhenLists
<1>5. Lists(d, S, D)
  BY <1>1, WhenLists
<1>6. Lists(e, S, E)
  BY <1>1, WhenLists
<1>7. Lists(f, S, F)
  BY <1>1, WhenLists
<1>8. Lists(g, S, G)
  BY <1>1, WhenLists
<1>9. Blockers(state, r) = (((((a \o b) \o c) \o d) \o e) \o f) \o g
  BY DEF Blockers, SetupBlocker
<1> HIDE DEF a, b, c, d, e, f, g, A, B, C, D, E, F, G, S
<1>10. Lists((((((a \o b) \o c) \o d) \o e) \o f) \o g, S, BlockerCodes(state, r))
  <2>1. Lists(a \o b, S, A \cup B)
    BY <1>2, <1>3, JoinedLists
  <2>2. Lists((a \o b) \o c, S, (A \cup B) \cup C)
    BY <2>1, <1>4, JoinedLists
  <2>3. Lists(((a \o b) \o c) \o d, S, ((A \cup B) \cup C) \cup D)
    BY <2>2, <1>5, JoinedLists
  <2>4. Lists((((a \o b) \o c) \o d) \o e, S, (((A \cup B) \cup C) \cup D) \cup E)
    BY <2>3, <1>6, JoinedLists
  <2>5. Lists(((((a \o b) \o c) \o d) \o e) \o f, S, ((((A \cup B) \cup C) \cup D) \cup E) \cup F)
    BY <2>4, <1>7, JoinedLists
  <2>6. Lists((((((a \o b) \o c) \o d) \o e) \o f) \o g, S, (((((A \cup B) \cup C) \cup D) \cup E) \cup F) \cup G)
    BY <2>5, <1>8, JoinedLists
  <2>7. BlockerCodes(state, r) = (((((A \cup B) \cup C) \cup D) \cup E) \cup F) \cup G
    BY DEF BlockerCodes, A, B, C, D, E, F, G
  <2> QED
    BY <2>6, <2>7
<1> QED
  BY <1>9, <1>10 DEF S

(* The plan has the action of every blocker and no other. *)
LEMMA PlanAnswers ==
  ASSUME NEW readiness, NEW codes, ~ readiness.ready, Lists(readiness.blockers, DOMAIN Actions, codes)
  PROVE  /\ Range(Remediation(readiness)) \subseteq Range(Actions)
         /\ \A code \in codes : Actions[code] \in Range(Remediation(readiness))
<1> DEFINE blockers == readiness.blockers
           made == Remediation(readiness)
<1>1. made = [i \in DOMAIN blockers |->
                IF blockers[i] \in DOMAIN Actions THEN Actions[blockers[i]] ELSE "review_setup"]
  BY DEF Remediation
<1>2. \A i \in DOMAIN blockers : blockers[i] \in DOMAIN Actions
  BY DEF Lists
<1>3. codes = {blockers[i] : i \in DOMAIN blockers}
  BY DEF Lists, Range
<1> HIDE DEF blockers, made
<1>4. DOMAIN made = DOMAIN blockers /\ \A i \in DOMAIN blockers : made[i] = Actions[blockers[i]]
  BY <1>1, <1>2
<1>5. Range(made) \subseteq Range(Actions)
  BY <1>2, <1>4 DEF Range
<1>6. \A code \in codes : Actions[code] \in Range(made)
  BY <1>3, <1>4 DEF Range
<1> QED
  BY <1>5, <1>6 DEF made

(* The codes of what a notice may complain of, and the first of them. *)
LEMMA NoticeCodeIsTrouble ==
  ASSUME NEW readiness, NoticeCode(readiness) # NoCode
  PROVE  LET code == NoticeCode(readiness)  state == readiness.state
         IN  /\ ~ readiness.ready /\ code \in IMPORTANT
             /\ \/ code = "auth_expired" /\ state.auth_status = "expired"
                \/ code = "auth_invalid" /\ state.auth_status = "invalid"
                \/ code = "reauth_required" /\ state.auth_status = "reauth_required"
                \/ code = "migration_required" /\ state.version_status = "migration_required"
                \/ code = "provider_deprecated" /\ state.version_status = "deprecated"
                \/ code = "setup_incomplete" /\ state.installed /\ ~ state.connected
<1> DEFINE state == readiness.state
           a == When(state.auth_status = "expired", "auth_expired")
           b == When(state.auth_status = "invalid", "auth_invalid")
           c == When(state.auth_status = "reauth_required", "reauth_required")
           d == When(state.version_status = "migration_required", "migration_required")
           e == When(state.version_status = "deprecated", "provider_deprecated")
           f == When(state.installed /\ ~ state.connected, "setup_incomplete")
           A == IF state.auth_status = "expired" THEN {"auth_expired"} ELSE {}
           B == IF state.auth_status = "invalid" THEN {"auth_invalid"} ELSE {}
           C == IF state.auth_status = "reauth_required" THEN {"reauth_required"} ELSE {}
           D == IF state.version_status = "migration_required" THEN {"migration_required"} ELSE {}
           E == IF state.version_status = "deprecated" THEN {"provider_deprecated"} ELSE {}
           F == IF state.installed /\ ~ state.connected THEN {"setup_incomplete"} ELSE {}
           S == IMPORTANT
           codes == ((((a \o b) \o c) \o d) \o e) \o f
<1>1. /\ "auth_expired" \in S /\ "auth_invalid" \in S /\ "reauth_required" \in S
      /\ "migration_required" \in S /\ "provider_deprecated" \in S /\ "setup_incomplete" \in S
  BY DEF IMPORTANT
<1>2. /\ Lists(a, S, A) /\ Lists(b, S, B) /\ Lists(c, S, C)
      /\ Lists(d, S, D) /\ Lists(e, S, E) /\ Lists(f, S, F)
  BY <1>1, WhenLists
<1>3. ~ readiness.ready /\ codes # << >> /\ NoticeCode(readiness) = Head(codes)
  BY DEF NoticeCode
<1> HIDE DEF a, b, c, d, e, f, A, B, C, D, E, F, S
<1>4. Lists(codes, S, ((((A \cup B) \cup C) \cup D) \cup E) \cup F)
  <2>1. Lists(a \o b, S, A \cup B)
    BY <1>2, JoinedLists
  <2>2. Lists((a \o b) \o c, S, (A \cup B) \cup C)
    BY <2>1, <1>2, JoinedLists
  <2>3. Lists(((a \o b) \o c) \o d, S, ((A \cup B) \cup C) \cup D)
    BY <2>2, <1>2, JoinedLists
  <2>4. Lists((((a \o b) \o c) \o d) \o e, S, (((A \cup B) \cup C) \cup D) \cup E)
    BY <2>3, <1>2, JoinedLists
  <2> QED
    BY <2>4, <1>2, JoinedLists
<1> HIDE DEF codes
<1>5. Head(codes) \in ((((A \cup B) \cup C) \cup D) \cup E) \cup F
  BY <1>3, <1>4, HeadIsListed DEF Lists
<1>6. /\ \A x \in A : x = "auth_expired" /\ state.auth_status = "expired"
      /\ \A x \in B : x = "auth_invalid" /\ state.auth_status = "invalid"
      /\ \A x \in C : x = "reauth_required" /\ state.auth_status = "reauth_required"
      /\ \A x \in D : x = "migration_required" /\ state.version_status = "migration_required"
      /\ \A x \in E : x = "provider_deprecated" /\ state.version_status = "deprecated"
      /\ \A x \in F : x = "setup_incomplete" /\ state.installed /\ ~ state.connected
  BY DEF A, B, C, D, E, F
<1> DEFINE code == NoticeCode(readiness)
<1>7. code \in ((((A \cup B) \cup C) \cup D) \cup E) \cup F
  BY <1>3, <1>5
<1> HIDE DEF code, state
<1>8. \/ code = "auth_expired" /\ state.auth_status = "expired"
      \/ code = "auth_invalid" /\ state.auth_status = "invalid"
      \/ code = "reauth_required" /\ state.auth_status = "reauth_required"
      \/ code = "migration_required" /\ state.version_status = "migration_required"
      \/ code = "provider_deprecated" /\ state.version_status = "deprecated"
      \/ code = "setup_incomplete" /\ state.installed /\ ~ state.connected
  BY <1>6, <1>7
<1>9. code \in IMPORTANT
  BY <1>8 DEF IMPORTANT
<1> QED
  BY <1>3, <1>8, <1>9 DEF code, state

(* A plan has only known actions, whatever was reported. *)
LEMMA PlanIsKnown ==
  ASSUME NEW r
  PROVE  Range(Remediation(Evaluate(r))) \subseteq Range(Actions)
<1>1. CASE Evaluate(r).ready
  <2>1. Remediation(Evaluate(r)) = << >>
    BY <1>1 DEF Remediation
  <2>2. Range(<< >>) = {}
    BY DEF Range
  <2> QED
    BY <2>1, <2>2
<1>2. CASE ~ Evaluate(r).ready
  <2> DEFINE codes == BlockerCodes(Normalised(r), r)
  <2>1. Evaluate(r).blockers = Blockers(Normalised(r), r)
    BY <1>2 DEF Evaluate
  <2>2. Lists(Evaluate(r).blockers, DOMAIN Actions, codes)
    BY <2>1, BlockersListed
  <2> HIDE DEF codes
  <2> QED
    BY <1>2, <2>2, PlanAnswers
<1> QED
  BY <1>1, <1>2

(* What a notice complains of, the plan made of the same report answers. *)
LEMMA TroubleIsAnswered ==
  ASSUME NEW r, NoticeCode(Evaluate(r)) # NoCode
  PROVE  Remedies[NoticeCode(Evaluate(r))] \cap Range(Remediation(Evaluate(r))) # {}
<1> DEFINE code == NoticeCode(Evaluate(r))
           state == Normalised(r)
           codes == BlockerCodes(state, r)
           plan_made == Range(Remediation(Evaluate(r)))
<1>1. Evaluate(r).state = state
  BY DEF Evaluate
<1>2. /\ ~ Evaluate(r).ready
      /\ \/ code = "auth_expired" /\ state.auth_status = "expired"
         \/ code = "auth_invalid" /\ state.auth_status = "invalid"
         \/ code = "reauth_required" /\ state.auth_status = "reauth_required"
         \/ code = "migration_required" /\ state.version_status = "migration_required"
         \/ code = "provider_deprecated" /\ state.version_status = "deprecated"
         \/ code = "setup_incomplete" /\ state.installed /\ ~ state.connected
  BY <1>1, NoticeCodeIsTrouble
<1>3. Evaluate(r).blockers = Blockers(state, r)
  BY <1>2 DEF Evaluate
<1>4. Lists(Evaluate(r).blockers, DOMAIN Actions, codes)
  BY <1>3, BlockersListed
<1> HIDE DEF code, codes, plan_made
<1>5. \A c \in codes : Actions[c] \in plan_made
  BY <1>2, <1>4, PlanAnswers DEF plan_made
<1> HIDE DEF state
<1>6. CASE code \in {"auth_expired", "auth_invalid", "reauth_required"}
  <2>1. state.auth_status \in {"expired", "invalid", "reauth_required"}
    BY <1>2, <1>6
  <2>2. r.auth_status = state.auth_status
    BY <2>1 DEF state, Normalised, Enum
  <2>3. ~ AuthOk(r)
    BY <2>1, <2>2 DEF AuthOk
  <2>4. "auth_unhealthy" \in codes \/ "auth_method_invalid" \in codes
    BY <2>3 DEF codes, BlockerCodes
  <2>5. "reconnect" \in plan_made \/ "review_setup" \in plan_made
    BY <2>4, <1>5 DEF Actions
  <2>6. Remedies[code] = {"reconnect", "review_setup"}
    BY <1>6 DEF Remedies
  <2> QED
    BY <2>5, <2>6 DEF code, plan_made
<1>7. CASE code \in {"migration_required", "provider_deprecated"}
  <2>1. state.version_status # "current"
    BY <1>2, <1>7
  <2>2. "provider_compatibility_unverified" \in codes
    BY <2>1 DEF codes, BlockerCodes
  <2>3. "review_provider" \in plan_made
    BY <2>2, <1>5 DEF Actions
  <2>4. Remedies[code] = {"review_provider"}
    BY <1>7 DEF Remedies
  <2> QED
    BY <2>3, <2>4 DEF code, plan_made
<1>8. CASE code = "setup_incomplete"
  <2>1. "not_connected" \in codes
    BY <1>2, <1>8 DEF codes, BlockerCodes
  <2>2. "connect" \in plan_made
    BY <2>1, <1>5 DEF Actions
  <2>3. Remedies[code] = {"connect"}
    BY <1>8 DEF Remedies
  <2> QED
    BY <2>2, <2>3 DEF code, plan_made
<1> QED
  BY <1>2, <1>6, <1>7, <1>8

-----------------------------------------------------------------------------
(* The theorems *)

(* The inductive invariant is the one of the theorems. *)
SettingsInv == TypeOK /\ NoticeHasRemedy

(* The statuses of any report are brought into their sets. *)
LEMMA StatusesAreKnown ==
  ASSUME NEW r
  PROVE  /\ Normalised(r).status \in HEALTH_STATUSES
         /\ Normalised(r).auth_status \in AUTH_STATUSES
         /\ Normalised(r).version_status \in VERSION_STATUSES
BY DEF Normalised, Enum, HEALTH_STATUSES, AUTH_STATUSES, VERSION_STATUSES

(* A check makes a plan and a notice that go together. *)
LEMMA CheckKeepsInv ==
  ASSUME TypeOK, Check
  PROVE  SettingsInv'
<1> DEFINE readiness == Evaluate(report)
<1>1. /\ plan' = Remediation(readiness) /\ notice' = NoticeFor(readiness)
      /\ dismissed' \in {dismissed, NotDismissed}
      /\ report' = report /\ remind' = remind /\ epoch' = epoch
      /\ ~ NoticeRaises(readiness)
  BY DEF Check, world
<1>2. Range(plan') \subseteq Range(Actions)
  BY <1>1, PlanIsKnown
<1>3. notice' # NoNotice => notice'.code = NoticeCode(readiness) /\ NoticeCode(readiness) # NoCode
  BY <1>1 DEF NoticeFor
<1>4. NoticeHasRemedy'
  BY <1>1, <1>3, TroubleIsAnswered DEF NoticeHasRemedy
<1>5. notice' \in Notice \cup {NoNotice}
  <2>1. CASE NoticeCode(readiness) = NoCode
    BY <2>1, <1>1 DEF NoticeFor
  <2>2. CASE NoticeCode(readiness) # NoCode
    <3>1. NoticeCode(readiness) \in IMPORTANT
      BY <2>2, NoticeCodeIsTrouble
    <3>2. remind \in Reminder /\ epoch \in 1..MaxEpoch
      BY <2>2, <1>1 DEF NoticeRaises, TypeOK
    <3>3. notice' = [code |-> NoticeCode(readiness), remind_after |-> remind, state_epoch |-> epoch]
      BY <2>2, <1>1 DEF NoticeFor
    <3> HIDE DEF readiness
    <3> QED
      BY <3>1, <3>2, <3>3 DEF Notice
  <2> QED
    BY <2>1, <2>2
<1> QED
  BY <1>1, <1>2, <1>4, <1>5, StatusesAreKnown DEF SettingsInv, TypeOK

(* The time that passes brings the ends of reminders nearer and no more. *)
LEMMA TickKeepsInv ==
  ASSUME SettingsInv, Tick
  PROVE  SettingsInv'
<1>1. /\ remind' = Nearer(remind)
      /\ notice' = IF notice = NoNotice THEN NoNotice ELSE [notice EXCEPT !.remind_after = Nearer(@)]
      /\ report' = report /\ epoch' = epoch /\ plan' = plan
  BY DEF Tick
<1>2. \A left \in Reminder \cup {MalformedReminder} : Nearer(left) \in {left} \cup 0..MaxRemindAfter
  BY TimesAssumption DEF Nearer
<1>3. remind' \in Reminder \cup {MalformedReminder}
  BY <1>1, <1>2 DEF SettingsInv, TypeOK, Reminder
<1>4. dismissed' \in 0..DefaultReminder \cup {NotDismissed}
  BY TimesAssumption DEF Tick, SettingsInv, TypeOK
<1>5. ASSUME notice # NoNotice
      PROVE  notice' \in Notice /\ notice'.code = notice.code
  <2>1. notice \in Notice
    BY <1>5 DEF SettingsInv, TypeOK
  <2>2. notice.remind_after \in Reminder
    BY <2>1 DEF Notice
  <2>3. Nearer(notice.remind_after) \in Reminder
    BY <2>2, <1>2 DEF Reminder
  <2>4. notice' = [notice EXCEPT !.remind_after = Nearer(notice.remind_after)]
    BY <1>1, <1>5
  <2> QED
    BY <2>1, <2>3, <2>4 DEF Notice
<1>6. notice = NoNotice => notice' = NoNotice
  BY <1>1
<1>7. NoticeHasRemedy'
  BY <1>1, <1>5, <1>6 DEF SettingsInv, NoticeHasRemedy
<1> QED
  BY <1>1, <1>3, <1>4, <1>5, <1>6, <1>7 DEF SettingsInv, TypeOK

(* Every step keeps the invariant. *)
LEMMA SettingsStep ==
  ASSUME SettingsInv, [Next]_vars
  PROVE  SettingsInv'
<1>1. CASE ProviderChanges
  <2>1. remind' \in Reminder \cup {MalformedReminder}
    BY <1>1, TimesAssumption DEF ProviderChanges, Reminder
  <2> QED
    BY <1>1, <2>1, StatusesAreKnown DEF ProviderChanges, SettingsInv, TypeOK, NoticeHasRemedy
<1>2. CASE AdvanceProjectState
  <2>1. epoch' \in 1..MaxEpoch
    BY <1>2, EpochAssumption DEF AdvanceProjectState, SettingsInv, TypeOK
  <2> QED
    BY <1>2, <2>1 DEF AdvanceProjectState, SettingsInv, TypeOK, NoticeHasRemedy
<1>3. CASE Check
  BY <1>3, CheckKeepsInv DEF SettingsInv
<1>4. CASE UserDismisses
  BY <1>4, TimesAssumption DEF UserDismisses, world, SettingsInv, TypeOK, NoticeHasRemedy
<1>5. CASE UserFollowsPlan
  BY <1>5, StatusesAreKnown DEF UserFollowsPlan, SettingsInv, TypeOK, NoticeHasRemedy
<1>6. CASE Tick
  BY <1>6, TickKeepsInv
<1>7. CASE UNCHANGED vars
  BY <1>7 DEF vars, SettingsInv, TypeOK, NoticeHasRemedy
<1> QED
  BY <1>1, <1>2, <1>3, <1>4, <1>5, <1>6, <1>7 DEF Next

(* Before the first check there is neither plan nor notice. *)
LEMMA SettingsInit ==
  ASSUME Init
  PROVE  SettingsInv
<1>1. Range(<< >>) = {}
  BY DEF Range
<1> QED
  BY <1>1, EpochAssumption, StatusesAreKnown DEF Init, SettingsInv, TypeOK, NoticeHasRemedy, Reminder

(* Every state Captain shows of a connector has its type: statuses in their    *)
(* sets, known actions, notices with a code of IMPORTANT and a reminder that is   *)
(* in bounds, whatever the provider reports.                                       *)
THEOREM SettingsTypeOK == Spec => []TypeOK
<1>1. SettingsInv => TypeOK
  BY DEF SettingsInv
<1> QED
  BY <1>1, SettingsInit, SettingsStep, PTL DEF Spec

(* Whatever a provider reports, in whatever order checks, reminders, epochs and  *)
(* the user come, the plan beside a notice answers what the notice complains of.   *)
THEOREM NoticesHaveRemedies == Spec => []NoticeHasRemedy
<1>1. SettingsInv => NoticeHasRemedy
  BY DEF SettingsInv
<1> QED
  BY <1>1, SettingsInit, SettingsStep, PTL DEF Spec

-----------------------------------------------------------------------------
(* ResearchBridge: what the loop has kept *)

(* The first sources of their url among those looked at, and what the loop has  *)
(* made of a source by its place among all first ones.                          *)
Kept == {n \in Fresh : n <= position}

Rank(n) == Cardinality({e \in Fresh : e <= n})

(* The inductive invariant: the urls kept are those of the first sources looked  *)
(* at, each at its rank, and no other url has been seen.                          *)
LoopInv ==
  /\ position \in 0..Limit
  /\ safe \in Seq({CanonicalAt(n) : n \in 1..Limit})
  /\ Len(safe) <= MaxSources
  /\ Len(safe) = Cardinality(Kept)
  /\ \A n \in Kept : safe[Rank(n)] = CanonicalAt(n)
  /\ {safe[n] : n \in DOMAIN safe} = {CanonicalAt(n) : n \in 1..position} \ {NoUrl}

BridgeInv ==
  /\ bundle \in Bundles \cup {NotAList}
  /\ bundle = NotAList => outcome # "returned"
  /\ bundle # NotAList => LoopInv
  /\ SourcesFaithful

-----------------------------------------------------------------------------
(* Ranks *)

(* As many sources are looked at as there are, and at most twice the limit. *)
LEMMA LimitIsNat ==
  ASSUME bundle \in Bundles
  PROVE  Limit \in Nat
BY BundlesAssumption, MaxSourcesAssumption DEF Limit

(* The first sources up to a position are finitely many. *)
LEMMA FreshIsFinite ==
  ASSUME bundle \in Bundles, NEW S, S \subseteq Fresh
  PROVE  IsFiniteSet(S) /\ Cardinality(S) \in Nat
<1>1. Limit \in Nat
  BY LimitIsNat
<1>2. IsFiniteSet(1..Limit)
  BY <1>1, FS_Interval
<1>3. Fresh \subseteq 1..Limit
  BY DEF Fresh
<1> QED
  BY <1>2, <1>3, FS_Subset, FS_CardinalityType

(* A first source looked at has a rank among those kept. *)
LEMMA KeptHasRank ==
  ASSUME bundle \in Bundles, position \in 0..Limit, NEW n \in Kept
  PROVE  Rank(n) \in 1..Cardinality(Kept)
<1> DEFINE below == {e \in Fresh : e <= n}
<1>1. Limit \in Nat
  BY LimitIsNat
<1>2. Fresh \subseteq Nat /\ Kept \subseteq Fresh
  BY <1>1 DEF Fresh, Kept
<1>3. below \subseteq Kept /\ n \in below
  <2>1. n \in Fresh /\ n \in Nat /\ n <= position /\ position \in Nat
    BY <1>1, <1>2 DEF Kept
  <2>2. \A e \in Nat : e <= n => e <= position
    BY <2>1
  <2>3. \A e : (e \in Kept <=> e \in Fresh /\ e <= position) /\ (e \in below <=> e \in Fresh /\ e <= n)
    BY DEF Kept
  <2> HIDE DEF below
  <2>4. below \subseteq Kept
    BY <2>2, <2>3, <1>2
  <2> QED
    BY <2>1, <2>3, <2>4
<1>4. IsFiniteSet(Kept) /\ Cardinality(Kept) \in Nat
  BY <1>2, FreshIsFinite
<1>5. IsFiniteSet(below) /\ Cardinality(below) \in Nat /\ Cardinality(below) <= Cardinality(Kept)
  BY <1>3, <1>4, FS_Subset, FS_CardinalityType
<1>6. Cardinality(below) # 0
  BY <1>3, <1>5, FS_EmptySet
<1> QED
  BY <1>4, <1>5, <1>6 DEF Rank

(* A first source not yet looked at ranks behind all that are kept. *)
LEMMA LaterRanksBehind ==
  ASSUME bundle \in Bundles, position \in 0..Limit, NEW n \in Fresh, n > position
  PROVE  Rank(n) > Cardinality(Kept)
<1> DEFINE below == {e \in Fresh : e <= n}
<1>1. Limit \in Nat
  BY LimitIsNat
<1>2. Fresh \subseteq Nat /\ Kept \subseteq Fresh /\ below \subseteq Fresh
  BY <1>1 DEF Fresh, Kept
<1>3. Kept \subseteq below /\ n \in below /\ n \notin Kept
  <2>1. n \in Nat /\ position \in Nat
    BY <1>1, <1>2
  <2>2. \A e \in Nat : e <= position => e <= n
    BY <2>1
  <2>3. \A e : (e \in Kept <=> e \in Fresh /\ e <= position) /\ (e \in below <=> e \in Fresh /\ e <= n)
    BY DEF Kept
  <2>4. n <= n /\ ~ (n <= position)
    BY <2>1
  <2> HIDE DEF below
  <2>5. Kept \subseteq below
    BY <2>2, <2>3, <1>2
  <2> QED
    BY <2>3, <2>4, <2>5
<1>4. IsFiniteSet(Kept) /\ Cardinality(Kept) \in Nat /\ IsFiniteSet(below) /\ Cardinality(below) \in Nat
  BY <1>2, FreshIsFinite
<1>5. Cardinality(Kept) < Cardinality(below)
  BY <1>3, <1>4, FS_Subset
<1> QED
  BY <1>5 DEF Rank

-----------------------------------------------------------------------------
(* The turns of the loop *)

(* The source of the turn. *)
LEMMA TurnIsInBounds ==
  ASSUME BridgeInv, Looking
  PROVE  /\ bundle \in Bundles /\ LoopInv /\ Limit \in Nat
         /\ position \in Nat /\ position + 1 \in 1..Limit
         /\ Fresh \subseteq Nat
<1>1. bundle \in Bundles /\ LoopInv
  BY DEF BridgeInv, Looking
<1>2. Limit \in Nat
  BY <1>1, LimitIsNat
<1>3. position \in Nat /\ position + 1 \in 1..Limit
  BY <1>1, <1>2 DEF LoopInv, Looking
<1> QED
  BY <1>1, <1>2, <1>3 DEF Fresh

(* A url has been seen exactly if it is of an earlier source. *)
LEMMA SeenIsEarlier ==
  ASSUME BridgeInv, Looking, CanonicalAt(position + 1) # NoUrl
  PROVE  /\ bundle[position + 1] # NotADict
         /\ Seen(bundle[position + 1]) <=> position + 1 \notin Fresh
<1> USE TurnIsInBounds
<1>1. bundle[position + 1] # NotADict
  BY DEF CanonicalAt
<1>2. CanonicalHttpUrl(bundle[position + 1].url) = CanonicalAt(position + 1)
  BY <1>1 DEF CanonicalAt
<1>3. Seen(bundle[position + 1]) <=> \E e \in 1..position : CanonicalAt(e) = CanonicalAt(position + 1)
  <2> HIDE DEF CanonicalAt
  <2> QED
    BY <1>2 DEF Seen, LoopInv
<1>4. position + 1 \in Fresh <=> \A e \in 1..position : CanonicalAt(e) # CanonicalAt(position + 1)
  BY DEF Fresh
<1> QED
  BY <1>1, <1>3, <1>4

(* A source passed over is not the first of any url. *)
LEMMA SkippedIsNotFresh ==
  ASSUME BridgeInv, SkipSource
  PROVE  /\ position + 1 \notin Fresh
         /\ {CanonicalAt(n) : n \in 1..(position + 1)} \ {NoUrl} = {CanonicalAt(n) : n \in 1..position} \ {NoUrl}
<1>1. Looking
  BY DEF SkipSource
<1> USE TurnIsInBounds, <1>1
<1>2. 1..(position + 1) = 1..position \cup {position + 1}
  OBVIOUS
<1>3. CASE CanonicalAt(position + 1) = NoUrl
  BY <1>2, <1>3 DEF Fresh
<1>4. CASE CanonicalAt(position + 1) # NoUrl
  <2>1. Seen(bundle[position + 1])
    BY <1>4, SeenIsEarlier DEF SkipSource, Usable, CanonicalAt
  <2>2. position + 1 \notin Fresh
    BY <1>4, <2>1, SeenIsEarlier
  <2>3. \E e \in 1..position : CanonicalAt(e) = CanonicalAt(position + 1)
    BY <1>4, <2>2 DEF Fresh
  <2> QED
    BY <1>2, <2>2, <2>3
<1> QED
  BY <1>3, <1>4

(* A source kept is the first of its url, and joins what has been seen. *)
LEMMA KeptIsFresh ==
  ASSUME BridgeInv, KeepSource
  PROVE  /\ position + 1 \in Fresh
         /\ safe' = Append(safe, CanonicalAt(position + 1))
         /\ CanonicalAt(position + 1) # NoUrl
<1>1. Looking
  BY DEF KeepSource
<1>2. CanonicalAt(position + 1) = CanonicalHttpUrl(bundle[position + 1].url)
  BY DEF KeepSource, Usable, CanonicalAt
<1>3. CanonicalAt(position + 1) # NoUrl /\ ~ Seen(bundle[position + 1])
  BY <1>2 DEF KeepSource, Usable
<1> QED
  BY <1>1, <1>2, <1>3, SeenIsEarlier DEF KeepSource

(* The sources of a call stay, and with them what is first of its url. *)
LEMMA SameBundle ==
  ASSUME bundle' = bundle
  PROVE  /\ Limit' = Limit /\ Fresh' = Fresh
         /\ \A n : CanonicalAt(n)' = CanonicalAt(n)
         /\ \A n : Rank(n)' = Rank(n)
<1>1. Limit' = Limit /\ \A n : CanonicalAt(n)' = CanonicalAt(n)
  BY DEF Limit, CanonicalAt
<1>2. Fresh' = Fresh
  BY <1>1 DEF Fresh
<1> QED
  BY <1>1, <1>2 DEF Rank

(* A turn that passes a source over keeps the loop's invariant. *)
LEMMA SkipKeepsLoopInv ==
  ASSUME BridgeInv, SkipSource
  PROVE  LoopInv'
<1>1. Looking /\ bundle' = bundle /\ safe' = safe /\ position' = position + 1
  BY DEF SkipSource
<1> USE TurnIsInBounds, SkippedIsNotFresh, SameBundle, <1>1
<1>2. Kept' = Kept
  <2>1. \A n \in Nat : n <= position + 1 <=> n <= position \/ n = position + 1
    OBVIOUS
  <2> QED
    BY <2>1 DEF Kept
<1>3. /\ LoopInv
      /\ {CanonicalAt(n) : n \in 1..(position + 1)} \ {NoUrl} = {CanonicalAt(n) : n \in 1..position} \ {NoUrl}
  OBVIOUS
<1>4. Limit' = Limit /\ \A n : CanonicalAt(n)' = CanonicalAt(n) /\ Rank(n)' = Rank(n)
  OBVIOUS
<1> HIDE DEF Kept
<1>5. position' \in 0..Limit'
  BY <1>4
<1>6. (safe \in Seq({CanonicalAt(n) : n \in 1..Limit}))'
  BY <1>3, <1>4 DEF LoopInv
<1>7. ({safe[n] : n \in DOMAIN safe} = {CanonicalAt(n) : n \in 1..position} \ {NoUrl})'
  BY <1>3, <1>4 DEF LoopInv
<1>8. (\A n \in Kept : safe[Rank(n)] = CanonicalAt(n))'
  BY <1>2, <1>3, <1>4 DEF LoopInv
<1> QED
  BY <1>2, <1>3, <1>5, <1>6, <1>7, <1>8 DEF LoopInv

(* A turn that keeps a source gives it the next rank. *)
LEMMA KeepKeepsLoopInv ==
  ASSUME BridgeInv, KeepSource
  PROVE  LoopInv'
<1>1. Looking /\ bundle' = bundle /\ position' = position + 1
  BY DEF KeepSource
<1>2. bundle \in Bundles /\ LoopInv /\ Limit \in Nat /\ position \in Nat
        /\ position + 1 \in 1..Limit /\ Fresh \subseteq Nat
  BY <1>1, TurnIsInBounds
<1>3. Limit' = Limit /\ Fresh' = Fresh /\ \A n : CanonicalAt(n)' = CanonicalAt(n) /\ Rank(n)' = Rank(n)
  BY <1>1, SameBundle
<1> DEFINE url == CanonicalAt(position + 1)
<1>4. position + 1 \in Fresh /\ safe' = Append(safe, url) /\ url # NoUrl
  BY KeptIsFresh
<1>5. Kept' = Kept \cup {position + 1} /\ position + 1 \notin Kept
  <2>1. \A n \in Nat : n <= position + 1 <=> n <= position \/ n = position + 1
    BY <1>2
  <2>2. \A n : n \in Kept <=> n \in Fresh /\ n <= position
    BY DEF Kept
  <2>3. \A n : n \in Kept' <=> n \in Fresh /\ n <= position + 1
    BY <1>1, <1>3 DEF Kept
  <2>4. ~ (position + 1 <= position)
    BY <1>2
  <2> QED
    BY <2>1, <2>2, <2>3, <2>4, <1>2, <1>4
<1>6. Cardinality(Kept') = Cardinality(Kept) + 1 /\ Cardinality(Kept) \in Nat
  <2>1. IsFiniteSet(Kept) /\ Cardinality(Kept) \in Nat
    BY <1>2, FreshIsFinite DEF Kept
  <2> QED
    BY <2>1, <1>5, FS_AddElement
<1>7. Rank(position + 1) = Cardinality(Kept')
  BY <1>1, <1>3 DEF Rank, Kept
<1>8. \A n \in Kept : Rank(n) \in 1..Len(safe)
  BY <1>2, KeptHasRank DEF LoopInv
<1> HIDE DEF url
<1>9. safe \in Seq({CanonicalAt(n) : n \in 1..Limit}) /\ url \in {CanonicalAt(n) : n \in 1..Limit}
  BY <1>2 DEF LoopInv, url
<1>10. /\ safe' \in Seq({CanonicalAt(n) : n \in 1..Limit})
       /\ Len(safe') = Len(safe) + 1
       /\ safe'[Len(safe) + 1] = url
       /\ \A n \in 1..Len(safe) : safe'[n] = safe[n]
       /\ DOMAIN safe' = 1..(Len(safe) + 1) /\ DOMAIN safe = 1..Len(safe) /\ Len(safe) \in Nat
  BY <1>4, <1>9
<1>11. (position \in 0..Limit)'
  BY <1>1, <1>2, <1>3
<1>12. (safe \in Seq({CanonicalAt(n) : n \in 1..Limit}))'
  BY <1>3, <1>10
<1>13. (Len(safe) <= MaxSources)'
  BY <1>1, <1>10, MaxSourcesAssumption DEF Looking
<1>14. (Len(safe) = Cardinality(Kept))'
  BY <1>2, <1>6, <1>10 DEF LoopInv
<1>15. (\A n \in Kept : safe[Rank(n)] = CanonicalAt(n))'
  <2>1. \A n \in Kept : safe'[Rank(n)] = CanonicalAt(n)
    BY <1>2, <1>8, <1>10 DEF LoopInv
  <2>2. safe'[Rank(position + 1)] = CanonicalAt(position + 1)
    BY <1>2, <1>6, <1>7, <1>10 DEF LoopInv, url
  <2> QED
    BY <2>1, <2>2, <1>3, <1>5
<1>16. ({safe[n] : n \in DOMAIN safe} = {CanonicalAt(n) : n \in 1..position} \ {NoUrl})'
  <2>1. {safe'[n] : n \in DOMAIN safe'} = {safe[n] : n \in DOMAIN safe} \cup {url}
    BY <1>10
  <2>2. 1..(position + 1) = 1..position \cup {position + 1}
    BY <1>2
  <2>3. {CanonicalAt(n) : n \in 1..(position + 1)} \ {NoUrl}
          = ({CanonicalAt(n) : n \in 1..position} \ {NoUrl}) \cup {url}
    BY <2>2, <1>4 DEF url
  <2>4. {safe[n] : n \in DOMAIN safe} = {CanonicalAt(n) : n \in 1..position} \ {NoUrl}
    BY <1>2 DEF LoopInv
  <2>5. {safe'[n] : n \in DOMAIN safe'} = {CanonicalAt(n) : n \in 1..(position + 1)} \ {NoUrl}
    BY <2>1, <2>3, <2>4
  <2>6. ({CanonicalAt(n) : n \in 1..position})' = {CanonicalAt(n) : n \in 1..(position + 1)}
    BY <1>1, <1>3
  <2> QED
    BY <2>5, <2>6
<1> QED
  BY <1>11, <1>12, <1>13, <1>14, <1>15, <1>16 DEF LoopInv

(* Where the loop ends, what it kept is what should be kept. *)
LEMMA EndIsFaithful ==
  ASSUME bundle \in Bundles, LoopInv, ~ (position < Limit /\ Len(safe) < MaxSources)
  PROVE  /\ Len(safe) = IF Cardinality(Fresh) < MaxSources THEN Cardinality(Fresh) ELSE MaxSources
         /\ \A n \in Fresh : Rank(n) <= Len(safe) => safe[Rank(n)] = CanonicalAt(n)
<1>1. /\ Limit \in Nat /\ position \in 0..Limit /\ Len(safe) <= MaxSources
      /\ Len(safe) = Cardinality(Kept) /\ MaxSources \in Nat
  BY LimitIsNat, MaxSourcesAssumption DEF LoopInv
<1>2. Fresh \subseteq 1..Limit /\ Kept \subseteq Fresh
  BY DEF Fresh, Kept
<1>3. /\ IsFiniteSet(Fresh) /\ Cardinality(Fresh) \in Nat
      /\ Cardinality(Kept) \in Nat /\ Cardinality(Kept) <= Cardinality(Fresh)
  BY <1>2, FreshIsFinite, FS_Subset
<1>4. Len(safe) = IF Cardinality(Fresh) < MaxSources THEN Cardinality(Fresh) ELSE MaxSources
  <2>1. CASE position < Limit
    BY <2>1, <1>1, <1>3
  <2>2. CASE ~ (position < Limit)
    <3>1. \A n \in 1..Limit : n <= position
      BY <2>2, <1>1
    <3>2. Kept = Fresh
      BY <3>1, <1>2 DEF Kept
    <3> QED
      BY <3>2, <1>1, <1>3
  <2> QED
    BY <2>1, <2>2
<1>5. ASSUME NEW n \in Fresh, Rank(n) <= Len(safe)  PROVE safe[Rank(n)] = CanonicalAt(n)
  <2>1. n \in Nat /\ position \in Nat
    BY <1>1, <1>2
  <2>2. Rank(n) \in Nat
    BY <1>2, FreshIsFinite DEF Rank
  <2>3. ~ (n > position)
    BY <1>1, <1>3, <1>5, <2>2, LaterRanksBehind
  <2>4. n \in Kept
    BY <2>1, <2>3 DEF Kept
  <2> QED
    BY <2>4 DEF LoopInv
<1> QED
  BY <1>4, <1>5

-----------------------------------------------------------------------------
(* The theorem *)

(* The loop starts with no source looked at. *)
LEMMA LoopStarts ==
  ASSUME BridgeInit
  PROVE  BridgeInv
<1>1. ASSUME bundle \in Bundles  PROVE LoopInv
  <2>1. Limit \in Nat /\ MaxSources \in Nat
    BY <1>1, LimitIsNat, MaxSourcesAssumption
  <2>2. Kept = {}
    <3>1. \A n \in 1..Limit : ~ (n <= 0)
      BY <2>1
    <3> QED
      BY <3>1 DEF Kept, Fresh, BridgeInit
  <2>3. Cardinality(Kept) = 0
    BY <2>2, FS_EmptySet
  <2>4. safe = << >> /\ position = 0
    BY DEF BridgeInit
  <2>5. {safe[n] : n \in DOMAIN safe} = {} /\ 1..position = {}
    BY <2>4
  <2>6. safe \in Seq({CanonicalAt(n) : n \in 1..Limit}) /\ Len(safe) = 0
    BY <2>4
  <2> QED
    BY <2>1, <2>2, <2>3, <2>4, <2>5, <2>6 DEF LoopInv
<1> QED
  BY <1>1 DEF BridgeInv, BridgeInit, SourcesFaithful

(* How a call ends changes nothing that the loop has kept. *)
LEMMA EndKeepsLoopInv ==
  ASSUME LoopInv, UNCHANGED <<bundle, position, safe>>
  PROVE  LoopInv'
<1>1. /\ Limit' = Limit /\ Fresh' = Fresh
      /\ \A n : CanonicalAt(n)' = CanonicalAt(n) /\ Rank(n)' = Rank(n)
  BY SameBundle
<1>2. Kept' = Kept
  BY <1>1 DEF Kept
<1> QED
  BY <1>1, <1>2 DEF LoopInv

(* Every step of a call keeps the invariant. *)
LEMMA BridgeStep ==
  ASSUME BridgeInv, [BridgeNext]_bridgeVars
  PROVE  BridgeInv'
<1>1. CASE SkipSource
  <2>1. LoopInv'
    BY <1>1, SkipKeepsLoopInv
  <2>2. bundle' = bundle /\ outcome' = outcome /\ outcome = "running"
    BY <1>1 DEF SkipSource, Looking
  <2> QED
    BY <2>1, <2>2 DEF BridgeInv, SourcesFaithful
<1>2. CASE KeepSource
  <2>1. LoopInv'
    BY <1>2, KeepKeepsLoopInv
  <2>2. bundle' = bundle /\ outcome' = outcome /\ outcome = "running"
    BY <1>2 DEF KeepSource, Looking
  <2> QED
    BY <2>1, <2>2 DEF BridgeInv, SourcesFaithful
<1>3. CASE RaiseInLoop \/ RaiseAtStart
  <2>1. UNCHANGED <<bundle, position, safe>> /\ outcome' = "raised"
    BY <1>3 DEF RaiseInLoop, RaiseAtStart, End
  <2>2. bundle # NotAList => LoopInv'
    BY <2>1, EndKeepsLoopInv DEF BridgeInv
  <2> QED
    BY <2>1, <2>2 DEF BridgeInv, SourcesFaithful
<1>4. CASE Finish
  <2>1. UNCHANGED <<bundle, position, safe>> /\ bundle # NotAList /\ outcome = "running" /\ ~ Looking
    BY <1>4 DEF Finish, End
  <2>2. bundle \in Bundles /\ LoopInv
    BY <2>1 DEF BridgeInv
  <2>3. LoopInv'
    BY <2>1, <2>2, EndKeepsLoopInv
  <2>4. /\ Len(safe) = IF Cardinality(Fresh) < MaxSources THEN Cardinality(Fresh) ELSE MaxSources
        /\ \A n \in Fresh : Rank(n) <= Len(safe) => safe[Rank(n)] = CanonicalAt(n)
    BY <2>1, <2>2, EndIsFaithful DEF Looking
  <2>5. Fresh' = Fresh /\ \A n : CanonicalAt(n)' = CanonicalAt(n)
    BY <2>1, SameBundle
  <2>6. SourcesFaithful'
    BY <2>1, <2>4, <2>5 DEF SourcesFaithful, Rank
  <2> QED
    BY <2>1, <2>2, <2>3, <2>6 DEF BridgeInv
<1>5. CASE UNCHANGED bridgeVars
  <2>1. UNCHANGED <<bundle, position, safe, outcome>>
    BY <1>5 DEF bridgeVars
  <2>2. bundle # NotAList => LoopInv'
    BY <2>1, EndKeepsLoopInv DEF BridgeInv
  <2>3. Fresh' = Fresh /\ \A n : CanonicalAt(n)' = CanonicalAt(n)
    BY <2>1, SameBundle
  <2>4. SourcesFaithful'
    BY <2>1, <2>3 DEF BridgeInv, SourcesFaithful
  <2> QED
    BY <2>1, <2>2, <2>4 DEF BridgeInv
<1> QED
  BY <1>1, <1>2, <1>3, <1>4, <1>5 DEF BridgeNext

(* A call that returns has kept the first source of every url in order, each    *)
(* once, up to MAX_SOURCES: what build_research_state hands to Project State is   *)
(* what research found, for any bundle and any limit.                              *)
THEOREM SourcesAlwaysFaithful == BridgeSpec => []SourcesFaithful
<1>1. BridgeInit => BridgeInv
  BY LoopStarts
<1>2. BridgeInv /\ [BridgeNext]_bridgeVars => BridgeInv'
  BY BridgeStep
<1>3. BridgeInv => SourcesFaithful
  BY DEF BridgeInv
<1> QED
  BY <1>1, <1>2, <1>3, PTL DEF BridgeSpec
=============================================================================
