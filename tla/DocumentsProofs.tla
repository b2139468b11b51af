--------------------------- MODULE DocumentsProofs ---------------------------
(***************************************************************************)
(* What every history of a document satisfies, for any number of versions. *)
(***************************************************************************)
EXTENDS Documents, TLAPS

\* Every step of the document keeps its rows well typed.
LEMMA DocTypeStep == DocTypeOK /\ [DocNext]_docVars => DocTypeOK'
<1> USE MaxVersionAssumption DEF DocTypeOK, VersionState, DocumentStatus, Version, NoVersion
<1> SUFFICES ASSUME DocTypeOK, [DocNext]_docVars
             PROVE  DocTypeOK'
  OBVIOUS
<1>1. ASSUME NEW v \in Version, CreateVersion(v)
      PROVE  DocTypeOK'
  BY <1>1 DEF CreateVersion
<1>2. ASSUME NEW v \in Version, ConfirmVersion(v)
      PROVE  DocTypeOK'
  BY <1>2 DEF ConfirmVersion
<1>3. ASSUME NEW v \in Version, CompletedEffect(v)
      PROVE  DocTypeOK'
  <2>1. versionState' \in [Version -> VersionState] /\ reviewed' \in SUBSET Version
    BY <1>3 DEF CompletedEffect
  <2>2. CASE v > current
    BY <1>3, <2>1, <2>2 DEF CompletedEffect
  <2>3. CASE ~(v > current)
    BY <1>3, <2>1, <2>3 DEF CompletedEffect
  <2> QED BY <2>2, <2>3
<1>4. ASSUME NEW v \in Version, RejectedEffect(v)
      PROVE  DocTypeOK'
  <2>1. versionState' \in [Version -> VersionState]
    BY <1>4 DEF RejectedEffect
  <2>2. status' \in DocumentStatus
    BY <1>4, <2>1 DEF RejectedEffect
  <2> QED BY <1>4, <2>1, <2>2 DEF RejectedEffect
<1>5. CASE UNCHANGED docVars
  BY <1>5 DEF docVars
<1> QED BY <1>1, <1>2, <1>3, <1>4, <1>5 DEF DocNext, CompleteVersion, RejectVersion

\* The newest ready version stays the current one under every step.
LEMMA NewestReadyStep ==
  DocTypeOK /\ CurrentIsNewestReady /\ [DocNext]_docVars => CurrentIsNewestReady'
<1> USE MaxVersionAssumption DEF DocTypeOK, CurrentIsNewestReady, Version, NoVersion
<1> SUFFICES ASSUME DocTypeOK, CurrentIsNewestReady, [DocNext]_docVars
             PROVE  CurrentIsNewestReady'
  OBVIOUS
<1>1. ASSUME NEW v \in Version, CreateVersion(v)
      PROVE  CurrentIsNewestReady'
  BY <1>1 DEF CreateVersion
<1>2. ASSUME NEW v \in Version, ConfirmVersion(v)
      PROVE  CurrentIsNewestReady'
  BY <1>2 DEF ConfirmVersion
<1>3. ASSUME NEW v \in Version, CompleteVersion(v)
      PROVE  CurrentIsNewestReady'
  <2>1. CASE v > current
    BY <1>3, <2>1 DEF CompleteVersion, CompletedEffect
  <2>2. CASE ~(v > current)
    BY <1>3, <2>2 DEF CompleteVersion, CompletedEffect
  <2> QED BY <2>1, <2>2
<1>4. ASSUME NEW v \in Version, RejectVersion(v)
      PROVE  CurrentIsNewestReady'
  BY <1>4 DEF RejectVersion, RejectedEffect
<1>5. CASE UNCHANGED docVars
  BY <1>5 DEF docVars
<1> QED BY <1>1, <1>2, <1>3, <1>4, <1>5 DEF DocNext

\* The status keeps agreeing with the versions; that a rejected version falls
\* back to a usable one needs the current version to be the newest ready one.
LEMMA StatusStep ==
  DocTypeOK /\ CurrentIsNewestReady /\ StatusIsJustified /\ [DocNext]_docVars
    => StatusIsJustified'
<1> USE MaxVersionAssumption DEF DocTypeOK, CurrentIsNewestReady, StatusIsJustified, Version, NoVersion
<1> SUFFICES ASSUME DocTypeOK, CurrentIsNewestReady, StatusIsJustified, [DocNext]_docVars
             PROVE  StatusIsJustified'
  OBVIOUS
<1>1. ASSUME NEW v \in Version, CreateVersion(v)
      PROVE  StatusIsJustified'
  BY <1>1 DEF CreateVersion
<1>2. ASSUME NEW v \in Version, ConfirmVersion(v)
      PROVE  StatusIsJustified'
  BY <1>2 DEF ConfirmVersion
<1>3. ASSUME NEW v \in Version, CompleteVersion(v)
      PROVE  StatusIsJustified'
  <2>1. CASE v > current
    BY <1>3, <2>1 DEF CompleteVersion, CompletedEffect
  <2>2. CASE ~(v > current)
    BY <1>3, <2>2 DEF CompleteVersion, CompletedEffect
  <2> QED BY <2>1, <2>2
<1>4. ASSUME NEW v \in Version, RejectVersion(v)
      PROVE  StatusIsJustified'
  BY <1>4 DEF RejectVersion, RejectedEffect
<1>5. CASE UNCHANGED docVars
  BY <1>5 DEF docVars
<1> QED BY <1>1, <1>2, <1>3, <1>4, <1>5 DEF DocNext

\* Initially nothing is current and nothing is ready.
LEMMA DocInitially ==
  DocInit => DocTypeOK /\ CurrentIsNewestReady /\ StatusIsJustified
BY MaxVersionAssumption DEF DocInit, DocTypeOK, VersionState, DocumentStatus, CurrentIsNewestReady,
       StatusIsJustified, Version, NoVersion

\* The rows of a document are always well typed.
THEOREM DocTypeCorrect == DocSpec => []DocTypeOK
BY DocInitially, DocTypeStep, PTL DEF DocSpec

\* The current version is always the newest one that is ready for review,
\* whatever the order of confirmations and results.
THEOREM CurrentIsNewest == DocSpec => []CurrentIsNewestReady
BY DocInitially, NewestReadyStep, DocTypeCorrect, PTL DEF DocSpec

\* The status shown always agrees with the versions.
THEOREM StatusJustified == DocSpec => []StatusIsJustified
BY DocInitially, StatusStep, CurrentIsNewest, DocTypeCorrect, PTL DEF DocSpec

\* No step goes back to an older version or makes the current one unreadable.
THEOREM CurrentOnlyAdvances == DocSpec => CurrentNeverRegresses
<1>1. DocTypeOK /\ CurrentIsNewestReady /\ [DocNext]_docVars
        => [/\ current' >= current
            /\ current # NoVersion => versionState'[current] = "READY_FOR_REVIEW"]_docVars
  <2> USE MaxVersionAssumption DEF DocTypeOK, CurrentIsNewestReady, Version, NoVersion
  <2> SUFFICES ASSUME DocTypeOK, CurrentIsNewestReady, DocNext
               PROVE  /\ current' >= current
                      /\ current # NoVersion => versionState'[current] = "READY_FOR_REVIEW"
    OBVIOUS
  <2>1. ASSUME NEW v \in Version, CreateVersion(v) \/ ConfirmVersion(v)
        PROVE  /\ current' >= current
               /\ current # NoVersion => versionState'[current] = "READY_FOR_REVIEW"
    BY <2>1 DEF CreateVersion, ConfirmVersion
  <2>2. ASSUME NEW v \in Version, CompleteVersion(v) \/ RejectVersion(v)
        PROVE  /\ current' >= current
               /\ current # NoVersion => versionState'[current] = "READY_FOR_REVIEW"
    BY <2>2 DEF CompleteVersion, CompletedEffect, RejectVersion, RejectedEffect
  <2> QED BY <2>1, <2>2 DEF DocNext
<1> QED BY <1>1, CurrentIsNewest, DocTypeCorrect, PTL DEF DocSpec, CurrentNeverRegresses
==============================================================================
