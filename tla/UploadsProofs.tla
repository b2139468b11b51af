---------------------------- MODULE UploadsProofs ----------------------------
(***************************************************************************)
(* What every history of uploads satisfies, for any number of versions,    *)
(* browsers, other clients, contents and failures.                         *)
(***************************************************************************)
EXTENDS Uploads, TLAPS

\* Numbers are given without gaps.
Contiguous ==
  \A v, w \in Version : v < w /\ state[v] = "absent" => state[w] = "absent"

\* A confirmation that is about to be saved has seen the object.
VerifiedIsStored ==
  \A r \in Requester : request[r].step = "save" => request[r].version \in stored

CurrentIsReady ==
  document.current # NoVersion => state[document.current] = "READY_FOR_REVIEW"

\* A browser that waits is being served, about its own version; past its
\* confirmation, its version is received; what it has seen as current is ready.
BrowserInv(c) ==
  /\ client[c].step = "confirming" =>
       request[c].step # "none" /\ request[c].version = client[c].version
  /\ client[c].step = "done" => client[c].version # NoVersion
  /\ client[c].step \in {"document", "versions", "done"} /\ client[c].version # NoVersion =>
       state[client[c].version] \in Received
  /\ client[c].step \in {"versions", "version"} /\ client[c].seen # NoVersion =>
       state[client[c].seen] = "READY_FOR_REVIEW"

UInv ==
  /\ TypeOK
  /\ Contiguous
  /\ ConfirmedIsStored
  /\ VerifiedIsStored
  /\ NoSilentDuplicate
  /\ CurrentIsReady
  /\ \A c \in Client : BrowserInv(c)

-----------------------------------------------------------------------------
\* One is a version, none is not.
LEMMA VersionFacts == Version \subseteq Nat /\ 1 \in Version /\ NoVersion \notin Version
BY MaxVersionAssumption DEF Version, NoVersion

\* What a client is after a call that failed has the type of a client.
LEMMA IdleTyped ==
  /\ Idle.step = "idle" /\ Idle.version = NoVersion /\ Idle.file = NoContent /\ Idle.seen = NoVersion
  /\ Idle \in Browser
BY DEF Idle, At, Browser, Step, AtRest

\* Initially one browser may upload version 1.
LEMMA UInitially == Init => UInv
<1> SUFFICES ASSUME Init PROVE UInv
  OBVIOUS
<1> USE VersionFacts, UploadsAssumption
<1>1. PICK f \in Content : sha256 = [v \in Version |-> IF v = 1 THEN f ELSE NoContent]
  BY DEF Init
<1>2. PICK creator \in Client :
        client = [c \in Client |-> IF c = creator THEN At("put", 1, NoContent, NoVersion) ELSE Idle]
  BY DEF Init
<1>3. \A c \in Client : client[c] = IF c = creator THEN At("put", 1, NoContent, NoVersion) ELSE Idle
  BY <1>2
<1>4. TypeOK
  <2>1. \A v \in Version : state[v] = "absent" <=> sha256[v] = NoContent
    BY <1>1 DEF Init
  <2>2. client \in [Client -> Browser]
    BY <1>2, IdleTyped DEF At, Browser, Step, Calling, AtRest
  <2>3. \A c \in Client : /\ client[c].step \notin {"create", "ask", "recreate"}
                          /\ client[c].step \in {"put", "confirm", "confirming"} => client[c].version = 1
    BY <1>3, IdleTyped DEF At
  <2>4. request \in [Requester -> Confirmation]
    BY DEF Init, NoRequest, Confirmation
  <2>5. \A r \in Requester : request[r].step = "none"
    BY DEF Init, NoRequest
  <2> QED BY <1>1, <2>1, <2>2, <2>3, <2>4, <2>5 DEF Init, TypeOK, State
<1>5. Contiguous /\ NoSilentDuplicate /\ CurrentIsReady /\ ConfirmedIsStored
  <2>1. \A v \in Version : state[v] = IF v = 1 THEN "UPLOADING" ELSE "absent"
    BY DEF Init
  <2>2. Contiguous /\ NoSilentDuplicate
    BY <2>1 DEF Version, Contiguous, NoSilentDuplicate
  <2> QED BY <2>1, <2>2 DEF Init, CurrentIsReady, ConfirmedIsStored, Received, State
<1>6. VerifiedIsStored
  BY DEF Init, NoRequest, VerifiedIsStored
<1>7. ASSUME NEW c \in Client PROVE BrowserInv(c)
  BY <1>3, IdleTyped DEF BrowserInv, At
<1> QED BY <1>4, <1>5, <1>6, <1>7 DEF UInv

-----------------------------------------------------------------------------
\* What a browser's step may make of it: nothing happens to the others.
LEMMA ClientTyped ==
  ASSUME TypeOK, NEW c \in Client, NEW k \in Browser, client' = [client EXCEPT ![c] = k],
         k.step \in {"create", "ask", "recreate"} => k.file # NoContent,
         k.step \in {"put", "confirm", "confirming"} => k.version # NoVersion
  PROVE  /\ client' \in [Client -> Browser]
         /\ \A d \in Client : client'[d].step \in {"create", "ask", "recreate"} => client'[d].file # NoContent
         /\ \A d \in Client : client'[d].step \in {"put", "confirm", "confirming"} => client'[d].version # NoVersion
BY DEF TypeOK

\* An answer is what it says or a failure.
LEMMA AnswerTyped ==
  ASSUME TypeOK, NEW c \in Client, NEW k \in Browser, Answered(c, k),
         k.step \in {"create", "ask", "recreate"} => k.file # NoContent,
         k.step \in {"put", "confirm", "confirming"} => k.version # NoVersion
  PROVE  /\ client' \in [Client -> Browser]
         /\ \A d \in Client : client'[d].step \in {"create", "ask", "recreate"} => client'[d].file # NoContent
         /\ \A d \in Client : client'[d].step \in {"put", "confirm", "confirming"} => client'[d].version # NoVersion
         /\ failures' \in 0 .. MaxFailures
<1>1. failures' \in 0 .. MaxFailures
  BY UploadsAssumption DEF Answered, Fails, TypeOK
<1>2. CASE client' = [client EXCEPT ![c] = k]
  BY <1>1, <1>2, ClientTyped
<1>3. CASE client' = [client EXCEPT ![c] = Idle]
  BY <1>1, <1>3, ClientTyped, IdleTyped
<1> QED BY <1>2, <1>3 DEF Answered, Fails

\* So is the end of a request, for the client that waits for it.
LEMMA EndTyped ==
  ASSUME TypeOK, NEW r \in Requester, NEW step \in {"idle", "done", "document"}, EndRequest(r, step)
  PROVE  /\ client' \in [Client -> Browser]
         /\ \A d \in Client : client'[d].step \in {"create", "ask", "recreate"} => client'[d].file # NoContent
         /\ \A d \in Client : client'[d].step \in {"put", "confirm", "confirming"} => client'[d].version # NoVersion
         /\ request' \in [Requester -> Confirmation]
         /\ \A q \in Requester : request'[q].step # "none" => request'[q].version # NoVersion
<1>1. /\ request' \in [Requester -> Confirmation]
      /\ \A q \in Requester : request'[q].step # "none" => request'[q].version # NoVersion
  BY DEF EndRequest, TypeOK, NoRequest, Confirmation
<1>2. CASE r \in Client /\ client[r].step = "confirming"
  <2>1. PICK k : k = IF step = "idle" THEN Idle ELSE [client[r] EXCEPT !.step = step]
    OBVIOUS
  <2>2. k \in Browser /\ k.step \in {"idle", "done", "document"}
    BY <1>2, <2>1, IdleTyped DEF TypeOK, Browser, Step, AtRest, Calling
  <2>3. client' = [client EXCEPT ![r] = k]
    BY <1>2, <2>1 DEF EndRequest
  <2> QED BY <1>1, <1>2, <2>2, <2>3, ClientTyped
<1>3. CASE ~(r \in Client /\ client[r].step = "confirming")
  BY <1>1, <1>3 DEF EndRequest, TypeOK
<1> QED BY <1>2, <1>3

\* Every step keeps the rows, the browsers and the requests well typed.
LEMMA TypeStep == TypeOK /\ [Next]_vars => TypeOK'
<1> USE VersionFacts, UploadsAssumption
<1> SUFFICES ASSUME TypeOK, [Next]_vars PROVE TypeOK'
  OBVIOUS
<1>1. ASSUME NEW c \in Client, CallFails(c) PROVE TypeOK'
  <2>1. Answered(c, Idle)
    BY <1>1 DEF CallFails, Answered
  <2> QED BY <1>1, <2>1, AnswerTyped, IdleTyped DEF CallFails, TypeOK
<1>2. ASSUME NEW c \in Client, NEW f \in Content, Submit(c, f) PROVE TypeOK'
  <2>1. PICK k \in Browser : k = At("create", NoVersion, f, NoVersion)
    BY DEF At, Browser, Step, Calling
  <2>2. k.step = "create" /\ k.file = f
    BY <2>1 DEF At
  <2> QED BY <1>2, <2>1, <2>2, ClientTyped DEF Submit, TypeOK
<1>3. ASSUME NEW c \in Client, OpenPage(c) PROVE TypeOK'
  <2>1. PICK k \in Browser : k = At("document", NoVersion, NoContent, NoVersion)
    BY DEF At, Browser, Step, Calling
  <2>2. k.step = "document"
    BY <2>1 DEF At
  <2> QED BY <1>3, <2>1, <2>2, ClientTyped DEF OpenPage, TypeOK
<1>4. ASSUME NEW c \in Client, RefuseDuplicate(c) PROVE TypeOK'
  <2>1. PICK k : k = At("ask", NoVersion, client[c].file, NoVersion)
    OBVIOUS
  <2>2. k \in Browser /\ k.step = "ask" /\ k.file # NoContent
    BY <1>4, <2>1 DEF At, Browser, Step, RefuseDuplicate, TypeOK
  <2> QED BY <1>4, <2>1, <2>2, AnswerTyped DEF RefuseDuplicate, TypeOK
<1>5. ASSUME NEW c \in Client, AnswerDialog(c) PROVE TypeOK'
  <2>1. PICK k \in {[client[c] EXCEPT !.step = "recreate"], Idle} : client' = [client EXCEPT ![c] = k]
    BY <1>5 DEF AnswerDialog
  <2>2. k \in Browser /\ k.step \in {"recreate", "idle"} /\ (k.step = "recreate" => k.file # NoContent)
    BY <1>5, <2>1, IdleTyped DEF AnswerDialog, TypeOK, Browser, Step, Calling
  <2> QED BY <1>5, <2>1, <2>2, ClientTyped DEF AnswerDialog, TypeOK
<1>6. ASSUME NEW c \in Client, NEW v \in Version, InsertVersion(c, v) PROVE TypeOK'
  <2>1. PICK k : k = Uploading(v)
    OBVIOUS
  <2>2. k \in Browser /\ k.step = "put" /\ k.version # NoVersion
    BY <2>1 DEF Uploading, At, Browser, Step, Calling
  <2>3. client[c].file \in Content
    BY <1>6 DEF InsertVersion, TypeOK, Browser
  <2>4. /\ state' \in [Version -> State] /\ sha256' \in [Version -> Content \cup {NoContent}]
        /\ \A w \in Version : state'[w] = "absent" <=> sha256'[w] = NoContent
        /\ agreed' \in SUBSET Version
    BY <1>6, <2>3 DEF InsertVersion, TypeOK, State
  <2> QED BY <1>6, <2>1, <2>2, <2>4, AnswerTyped DEF InsertVersion, TypeOK
<1>7. ASSUME NEW c \in Client, NoNumberLeft(c) PROVE TypeOK'
  BY <1>7, ClientTyped, IdleTyped DEF NoNumberLeft, TypeOK
<1>8. ASSUME NEW c \in Client, Put(c) PROVE TypeOK'
  <2>1. PICK k : k = [client[c] EXCEPT !.step = "confirm"]
    OBVIOUS
  <2>2. k \in Browser /\ k.step = "confirm" /\ k.version # NoVersion
    BY <1>8, <2>1 DEF Put, TypeOK, Browser, Step, Calling
  <2>3. stored' \in SUBSET Version
    BY <1>8 DEF Put, TypeOK, Browser
  <2> QED BY <1>8, <2>1, <2>2, <2>3, AnswerTyped DEF Put, TypeOK
<1>9. ASSUME NEW c \in Client, PostConfirmation(c) PROVE TypeOK'
  <2>1. PICK k : k = [client[c] EXCEPT !.step = "confirming"]
    OBVIOUS
  <2>2. k \in Browser /\ k.step = "confirming" /\ k.version # NoVersion
    BY <1>9, <2>1 DEF PostConfirmation, TypeOK, Browser, Step, Calling
  <2>3. client' = [client EXCEPT ![c] = k]
    BY <1>9, <2>1 DEF PostConfirmation, TypeOK
  <2>4. /\ request' \in [Requester -> Confirmation]
        /\ \A q \in Requester : request'[q].step # "none" => request'[q].version # NoVersion
    BY <1>9 DEF PostConfirmation, TypeOK, Confirmation, Browser
  <2> QED BY <1>9, <2>2, <2>3, <2>4, ClientTyped DEF PostConfirmation, TypeOK
<1>10. ASSUME NEW c \in Client, ReadDocument(c) PROVE TypeOK'
  <2>1. PICK k : k = [client[c] EXCEPT !.step = "versions", !.seen = document.current]
    OBVIOUS
  <2>2. k \in Browser /\ k.step = "versions"
    <3>1. document.current \in Version \cup {NoVersion} /\ client[c] \in Browser
      BY DEF TypeOK
    <3> QED BY ONLY <2>1, <3>1 DEF Browser, Step, Calling
  <2>3. client' = [client EXCEPT ![c] = k]
    BY <1>10, <2>1 DEF ReadDocument, TypeOK, Browser
  <2> QED BY <1>10, <2>2, <2>3, ClientTyped DEF ReadDocument, TypeOK
<1>11. ASSUME NEW c \in Client, ReadVersions(c) PROVE TypeOK'
  <2>1. PICK k : k = [client[c] EXCEPT !.seen = NoVersion,
                        !.step = IF client[c].version = NoVersion THEN "idle" ELSE "done"]
    OBVIOUS
  <2>2. k \in Browser /\ k.step \in {"idle", "done"}
    BY <1>11, <2>1 DEF ReadVersions, TypeOK, Browser, Step, AtRest
  <2>3. client' = [client EXCEPT ![c] = k]
    BY <1>11, <2>1 DEF ReadVersions, TypeOK, Browser
  <2> QED BY <1>11, <2>2, <2>3, ClientTyped DEF ReadVersions, TypeOK
<1>12. ASSUME NEW d \in Direct, NEW v \in Version, ConfirmDirectly(d, v) PROVE TypeOK'
  <2>1. /\ request' \in [Requester -> Confirmation]
        /\ \A q \in Requester : request'[q].step # "none" => request'[q].version # NoVersion
    BY <1>12 DEF ConfirmDirectly, TypeOK, Confirmation, Requester
  <2> QED BY <1>12, <2>1 DEF ConfirmDirectly, TypeOK
<1>13. ASSUME NEW r \in Requester, Verify(r) PROVE TypeOK'
  <2>1. CASE request[r].version \in stored
    <3>1. /\ request' \in [Requester -> Confirmation]
          /\ \A q \in Requester : request'[q].step # "none" => request'[q].version # NoVersion
      BY <1>13, <2>1 DEF Verify, TypeOK, Confirmation
    <3> QED BY <1>13, <2>1, <3>1 DEF Verify, TypeOK
  <2>2. CASE request[r].version \notin stored
    BY <1>13, <2>2, EndTyped DEF Verify, TypeOK
  <2> QED BY <2>1, <2>2
<1>14. ASSUME NEW r \in Requester, SaveConfirmation(r) PROVE TypeOK'
  <2>1. CASE state[request[r].version] = "UPLOADING"
    <3>1. request[r].version \in Version
      BY <1>14 DEF SaveConfirmation, TypeOK, Confirmation
    <3>2. /\ state' \in [Version -> State]
          /\ \A v \in Version : state'[v] = "absent" <=> sha256'[v] = NoContent
          /\ document' \in [current : Version \cup {NoVersion}, status : State \cup {"PROCESSING"}]
      BY <1>14, <2>1, <3>1 DEF SaveConfirmation, TypeOK, State
    <3>3. PICK step \in {"done", "document"} : EndRequest(r, step)
      BY <1>14, <2>1 DEF SaveConfirmation
    <3> QED BY <1>14, <3>2, <3>3, EndTyped DEF SaveConfirmation, TypeOK
  <2>2. CASE state[request[r].version] # "UPLOADING"
    BY <1>14, <2>2, EndTyped DEF SaveConfirmation, TypeOK
  <2> QED BY <2>1, <2>2
<1>15. ASSUME NEW r \in Requester, ApiStops(r) PROVE TypeOK'
  BY <1>15, EndTyped DEF ApiStops, TypeOK
<1>16. ASSUME NEW v \in Version, Complete(v) PROVE TypeOK'
  BY <1>16 DEF Complete, TypeOK, State
<1>17. ASSUME NEW v \in Version, Reject(v) PROVE TypeOK'
  <2>1. document' \in [current : Version \cup {NoVersion}, status : State \cup {"PROCESSING"}]
    BY <1>17 DEF Reject, TypeOK, State
  <2> QED BY <1>17, <2>1 DEF Reject, TypeOK, State
<1>18. ASSUME NEW c \in Client, OpenVersion(c) PROVE TypeOK'
  <2>1. PICK k : k = [client[c] EXCEPT !.step = "version"]
    OBVIOUS
  <2>2. k \in Browser /\ k.step = "version"
    BY <1>18, <2>1 DEF OpenVersion, TypeOK, Browser, Step, Calling
  <2>3. client' = [client EXCEPT ![c] = k]
    BY <1>18, <2>1 DEF OpenVersion, TypeOK, Browser
  <2> QED BY <1>18, <2>2, <2>3, ClientTyped DEF OpenVersion, TypeOK
<1>19. ASSUME NEW c \in Client, ReadVersion(c) PROVE TypeOK'
  BY <1>19, ClientTyped, IdleTyped DEF ReadVersion, TypeOK
<1>20. CASE UNCHANGED vars
  BY <1>20 DEF vars, TypeOK
<1> QED BY <1>1, <1>2, <1>3, <1>4, <1>5, <1>6, <1>7, <1>8, <1>9, <1>10, <1>11, <1>12, <1>13,
           <1>14, <1>15, <1>16, <1>17, <1>18, <1>19, <1>20 DEF Next, UserStep, ClientStep, ApiStep

-----------------------------------------------------------------------------
\* What no step takes back.
Advances ==
  /\ stored \subseteq stored'
  /\ \A v \in Version :
       /\ state[v] \in Received => state'[v] \in Received
       /\ state[v] = "READY_FOR_REVIEW" => state'[v] = "READY_FOR_REVIEW"

\* The rows are written by four transactions.
LEMMA RowWriters ==
  ASSUME [Next]_vars
  PROVE  /\ stored' = stored \/ \E c \in Client : Put(c)
         /\ \/ UNCHANGED <<state, sha256, agreed, document>>
            \/ \E c \in Client, v \in Version : InsertVersion(c, v)
            \/ \E r \in Requester : SaveConfirmation(r) /\ state[request[r].version] = "UPLOADING"
            \/ \E v \in Version : Complete(v) \/ Reject(v)
<1>1. ASSUME NEW c \in Client, UserStep(c) \/ CallFails(c)
      PROVE  UNCHANGED <<state, sha256, agreed, document, stored>>
  BY <1>1 DEF UserStep, CallFails, OpenPage, AnswerDialog, Submit
<1>2. ASSUME NEW c \in Client, ClientStep(c)
      PROVE  /\ stored' = stored \/ Put(c)
             /\ UNCHANGED <<state, sha256, agreed, document>> \/ \E v \in Version : InsertVersion(c, v)
  BY <1>2 DEF ClientStep, RefuseDuplicate, NoNumberLeft, InsertVersion, Put, PostConfirmation,
              ReadDocument, ReadVersions, OpenVersion, ReadVersion
<1>3. ASSUME NEW r \in Requester, ApiStep(r) \/ ApiStops(r)
      PROVE  /\ UNCHANGED stored
             /\ \/ UNCHANGED <<state, sha256, agreed, document>>
                \/ SaveConfirmation(r) /\ state[request[r].version] = "UPLOADING"
  BY <1>3 DEF ApiStep, ApiStops, Verify, SaveConfirmation
<1>4. ASSUME NEW d \in Direct, NEW v \in Version, ConfirmDirectly(d, v)
      PROVE  UNCHANGED <<state, sha256, agreed, document, stored>>
  BY <1>4 DEF ConfirmDirectly
<1>5. ASSUME NEW v \in Version, Complete(v) \/ Reject(v)
      PROVE  UNCHANGED stored
  BY <1>5 DEF Complete, Reject
<1>6. CASE UNCHANGED vars
  BY <1>6 DEF vars
<1> QED BY <1>1, <1>2, <1>3, <1>4, <1>5, <1>6 DEF Next

\* What the invariant says of the rows.
RowInv == Contiguous /\ ConfirmedIsStored /\ NoSilentDuplicate /\ CurrentIsReady

\* A step keeps it; a duplicate gets a row only from a request that agreed.
LEMMA RowStep == UInv /\ [Next]_vars => RowInv' /\ Advances
<1> USE VersionFacts DEF RowInv
<1> SUFFICES ASSUME UInv, [Next]_vars PROVE RowInv' /\ Advances
  OBVIOUS
<1>0. stored \subseteq stored'
  BY RowWriters DEF Put
<1>1. CASE UNCHANGED <<state, sha256, agreed, document>>
  BY <1>0, <1>1 DEF UInv, Contiguous, ConfirmedIsStored, NoSilentDuplicate, CurrentIsReady, Advances
<1>2. ASSUME NEW c \in Client, NEW v \in Version, InsertVersion(c, v)
      PROVE  RowInv' /\ Advances
  <2> USE <1>2 DEF UInv, TypeOK
  <2>1. /\ state[v] = "absent" /\ state' = [state EXCEPT ![v] = "UPLOADING"]
        /\ \A w \in Version : w < v => state[w] # "absent"
        /\ sha256' = [sha256 EXCEPT ![v] = client[c].file] /\ UNCHANGED document
    BY DEF InsertVersion
  <2>2. \A w \in Version : v < w => state[w] = "absent"
    BY <2>1 DEF Contiguous
  <2>3. Contiguous'
    BY <2>1, <2>2 DEF Contiguous
  <2>4. ConfirmedIsStored' /\ CurrentIsReady' /\ Advances
    BY <1>0, <2>1 DEF ConfirmedIsStored, CurrentIsReady, Advances, Received
  <2>5. ASSUME NEW u \in Version, NEW w \in Version, u < w, sha256'[u] = sha256'[w], state'[w] # "absent"
        PROVE  w \in agreed'
    <3>1. CASE w = v
      <4>1. sha256[u] = client[c].file
        BY <2>1, <2>5, <3>1
      <4>2. client[c].step = "recreate"
        BY <4>1 DEF InsertVersion, AlreadyExists
      <4> QED BY <3>1, <4>2 DEF InsertVersion
    <3>2. CASE w # v
      <4>1. state[w] # "absent" /\ u # v
        BY <2>1, <2>2, <2>5, <3>2
      <4>2. sha256[u] = sha256[w]
        BY <2>1, <2>5, <3>2, <4>1
      <4>3. w \in agreed
        BY <2>5, <4>1, <4>2 DEF NoSilentDuplicate
      <4> QED BY <4>3 DEF InsertVersion
    <3> QED BY <3>1, <3>2
  <2>6. NoSilentDuplicate'
    BY <2>5 DEF NoSilentDuplicate
  <2> QED BY <2>3, <2>4, <2>6
<1>3. ASSUME NEW r \in Requester, SaveConfirmation(r), state[request[r].version] = "UPLOADING"
      PROVE  RowInv' /\ Advances
  <2>1. PICK v \in Version : v = request[r].version /\ v \in stored
    BY <1>3 DEF UInv, TypeOK, Confirmation, VerifiedIsStored, SaveConfirmation
  <2>2. /\ state' = [state EXCEPT ![v] = "SCAN_QUEUED"] /\ state[v] = "UPLOADING"
        /\ document'.current = document.current /\ UNCHANGED <<sha256, agreed>>
    BY <1>3, <2>1 DEF SaveConfirmation, UInv, TypeOK
  <2> QED BY <1>0, <2>1, <2>2 DEF UInv, TypeOK, Contiguous, ConfirmedIsStored, NoSilentDuplicate,
                                  CurrentIsReady, Advances, Received, State
<1>4. ASSUME NEW v \in Version, Complete(v) \/ Reject(v)
      PROVE  RowInv' /\ Advances
  <2>1. PICK new \in {"READY_FOR_REVIEW", "REJECTED"} :
          /\ state' = [state EXCEPT ![v] = new] /\ state[v] = "SCAN_QUEUED" /\ UNCHANGED <<sha256, agreed>>
          /\ \/ document'.current = document.current
             \/ document'.current = v /\ new = "READY_FOR_REVIEW"
    BY <1>4 DEF Complete, Reject, UInv, TypeOK
  <2> QED BY <1>0, <2>1 DEF UInv, TypeOK, Contiguous, ConfirmedIsStored, NoSilentDuplicate,
                            CurrentIsReady, Advances, Received, State
<1> QED BY <1>1, <1>2, <1>3, <1>4, RowWriters

\* Only Verify lets a request go on to its transaction.
LEMMA VerifiedStep == UInv /\ [Next]_vars => VerifiedIsStored'
<1> SUFFICES ASSUME UInv, [Next]_vars PROVE VerifiedIsStored'
  OBVIOUS
<1> USE DEF UInv, TypeOK, VerifiedIsStored
<1>0. stored \subseteq stored'
  BY RowStep DEF Advances
<1>1. CASE UNCHANGED request
  BY <1>0, <1>1
<1>2. ASSUME NEW r \in Requester, NEW next, request' = [request EXCEPT ![r] = next],
             next.step = "save" => next.version \in stored
      PROVE  VerifiedIsStored'
  BY <1>0, <1>2
<1>3. ASSUME NEW c \in Client, PostConfirmation(c)
      PROVE  VerifiedIsStored'
  BY <1>2, <1>3 DEF PostConfirmation, Requester
<1>4. ASSUME NEW d \in Direct, NEW v \in Version, ConfirmDirectly(d, v)
      PROVE  VerifiedIsStored'
  BY <1>2, <1>4 DEF ConfirmDirectly, Requester
<1>5. ASSUME NEW r \in Requester, NEW step, EndRequest(r, step)
      PROVE  VerifiedIsStored'
  BY <1>2, <1>5 DEF EndRequest, NoRequest
<1>6. ASSUME NEW r \in Requester, Verify(r) /\ request[r].version \in stored
      PROVE  VerifiedIsStored'
  <2>1. PICK next : next = [request[r] EXCEPT !.step = "save"]
    OBVIOUS
  <2>2. request' = [request EXCEPT ![r] = next] /\ next.version \in stored
    BY <1>6, <2>1 DEF Verify, Confirmation
  <2> QED BY <1>2, <2>2
<1>7. ASSUME NEW r \in Requester, ApiStep(r) \/ ApiStops(r)
      PROVE  VerifiedIsStored'
  BY <1>5, <1>6, <1>7 DEF ApiStep, ApiStops, Verify, SaveConfirmation
<1>8. ASSUME NEW c \in Client, ClientStep(c) \/ UserStep(c) \/ CallFails(c)
      PROVE  VerifiedIsStored'
  BY <1>1, <1>3, <1>8 DEF ClientStep, UserStep, CallFails, OpenPage, AnswerDialog, Submit, RefuseDuplicate,
                     NoNumberLeft, InsertVersion, Put, ReadDocument, ReadVersions, OpenVersion, ReadVersion
<1>9. CASE UNCHANGED vars
  BY <1>1, <1>9 DEF vars
<1>10. ASSUME NEW v \in Version, Complete(v) \/ Reject(v)
       PROVE  VerifiedIsStored'
  BY <1>1, <1>10 DEF Complete, Reject
<1> QED BY <1>4, <1>7, <1>8, <1>9, <1>10 DEF Next

-----------------------------------------------------------------------------
\* A browser that a step leaves alone keeps its invariant.
LEMMA BrowserKept ==
  ASSUME UInv, Advances, NEW c \in Client, client'[c] = client[c],
         client[c].step = "confirming" =>
           request'[c].step # "none" /\ request'[c].version = client[c].version
  PROVE  BrowserInv(c)'
<1>1. BrowserInv(c) /\ client[c] \in Browser
  BY DEF UInv, TypeOK
<1> QED BY <1>1 DEF BrowserInv, Advances, Browser

\* So does one that has not been answered, or starts anew.
LEMMA BrowserFresh ==
  ASSUME NEW c \in Client,
         \/ client'[c].step \in {"idle", "create", "ask", "recreate", "put", "confirm"}
         \/ client'[c].step = "document" /\ client'[c].version = NoVersion
  PROVE  BrowserInv(c)'
BY DEF BrowserInv

\* A step of browser b leaves it fresh, unless it is about its confirmation
\* or a reload.
LEMMA FreshSteps ==
  ASSUME UInv, NEW b \in Client,
         \/ UserStep(b) \/ CallFails(b) \/ RefuseDuplicate(b) \/ NoNumberLeft(b) \/ Put(b)
         \/ \E v \in Version : InsertVersion(b, v)
  PROVE  /\ UNCHANGED request
         /\ \A c \in Client \ {b} : client'[c] = client[c]
         /\ \/ client'[b].step \in {"idle", "create", "ask", "recreate", "put", "confirm"}
            \/ client'[b].step = "document" /\ client'[b].version = NoVersion
<1> USE IdleTyped DEF UInv, TypeOK
<1>1. ASSUME NEW k, client' = [client EXCEPT ![b] = k]
      PROVE  client'[b] = k /\ \A c \in Client \ {b} : client'[c] = client[c]
  BY <1>1
<1>2. CASE CallFails(b) \/ NoNumberLeft(b)
  BY <1>1, <1>2 DEF CallFails, NoNumberLeft, Fails
<1>3. CASE UserStep(b)
  <2>1. CASE OpenPage(b)
    BY <1>1, <2>1 DEF OpenPage, At
  <2>2. CASE AnswerDialog(b)
    <3>1. PICK k \in {[client[b] EXCEPT !.step = "recreate"], Idle} : client' = [client EXCEPT ![b] = k]
      BY <2>2 DEF AnswerDialog
    <3>2. k.step \in {"recreate", "idle"}
      BY <3>1 DEF Browser
    <3> QED BY <1>1, <2>2, <3>1, <3>2 DEF AnswerDialog
  <2>3. ASSUME NEW f \in Content, Submit(b, f)
        PROVE  UNCHANGED request /\ client' = [client EXCEPT ![b] = At("create", NoVersion, f, NoVersion)]
    BY <2>3 DEF Submit
  <2>4. CASE \E f \in Content : Submit(b, f)
    BY <1>1, <2>3, <2>4 DEF At
  <2> QED BY <1>3, <2>1, <2>2, <2>4 DEF UserStep
<1>4. ASSUME NEW k, Answered(b, k)
      PROVE  /\ client'[b] = k \/ client'[b].step = "idle"
             /\ \A c \in Client \ {b} : client'[c] = client[c]
  BY <1>1, <1>4 DEF Answered, Fails
<1>5. CASE RefuseDuplicate(b)
  BY <1>4, <1>5 DEF RefuseDuplicate, At
<1>6. ASSUME NEW v \in Version, InsertVersion(b, v)
      PROVE  /\ UNCHANGED request /\ client'[b].step \in {"put", "idle"}
             /\ \A c \in Client \ {b} : client'[c] = client[c]
  BY <1>4, <1>6 DEF InsertVersion, Uploading, At
<1>7. CASE Put(b)
  <2>1. PICK k : k = [client[b] EXCEPT !.step = "confirm"]
    OBVIOUS
  <2>2. k.step = "confirm"
    BY <2>1 DEF Browser
  <2> QED BY <1>4, <1>7, <2>1, <2>2 DEF Put
<1> QED BY <1>2, <1>3, <1>5, <1>6, <1>7

\* The end of a confirmation is an answer for the browser that waits for it,
\* and concerns no other.
LEMMA EndStep ==
  ASSUME UInv, Advances, NEW r \in Requester, NEW step \in {"idle", "done", "document"},
         EndRequest(r, step), step # "idle" => state'[request[r].version] \in Received,
         NEW c \in Client
  PROVE  BrowserInv(c)'
<1> USE DEF UInv, TypeOK, EndRequest
<1>1. CASE r = c /\ client[c].step = "confirming"
  <2>1. CASE step = "idle"
    BY <1>1, <2>1, BrowserFresh, IdleTyped
  <2>2. CASE step # "idle"
    <3>1. PICK k : k = [client[c] EXCEPT !.step = step]
      OBVIOUS
    <3>2. k.step = step /\ k.version = client[c].version /\ k.version # NoVersion
      BY <1>1, <3>1 DEF Browser
    <3>3. client'[c] = k
      BY <1>1, <2>2, <3>1
    <3>4. request[r].version = k.version
      BY <1>1, <3>2 DEF BrowserInv
    <3> QED BY <2>2, <3>2, <3>3, <3>4 DEF BrowserInv
  <2> QED BY <2>1, <2>2
<1>2. CASE r # c \/ client[c].step # "confirming"
  <2>1. client'[c] = client[c]
    BY <1>2
  <2>2. client[c].step = "confirming" => request'[c] = request[c]
    BY <1>2 DEF Requester
  <2> QED BY <2>1, <2>2, BrowserKept DEF BrowserInv
<1> QED BY <1>1, <1>2

\* Every browser keeps its invariant.
LEMMA BrowserStep == UInv /\ [Next]_vars => \A c \in Client : BrowserInv(c)'
<1> SUFFICES ASSUME UInv, [Next]_vars, NEW c \in Client PROVE BrowserInv(c)'
  OBVIOUS
<1> USE DEF UInv, TypeOK
<1>0. Advances /\ BrowserInv(c) /\ client[c] \in Browser
  BY RowStep
<1>1. CASE client'[c] = client[c] /\ request'[c] = request[c]
  BY <1>0, <1>1, BrowserKept DEF BrowserInv
<1>2. ASSUME NEW b \in Client,
             \/ UserStep(b) \/ CallFails(b) \/ RefuseDuplicate(b) \/ NoNumberLeft(b) \/ Put(b)
             \/ \E v \in Version : InsertVersion(b, v)
      PROVE  BrowserInv(c)'
  BY <1>1, <1>2, FreshSteps, BrowserFresh
<1>3. ASSUME NEW b \in Client, PostConfirmation(b)
      PROVE  BrowserInv(c)'
  <2>1. CASE b = c
    <3>1. /\ client'[c].step = "confirming" /\ client'[c].version = client[c].version
          /\ request'[c].step = "verify" /\ request'[c].version = client[c].version
      BY <1>0, <1>3, <2>1 DEF PostConfirmation, Browser, Requester
    <3> QED BY <3>1 DEF BrowserInv
  <2>2. CASE b # c
    BY <1>1, <1>3, <2>2 DEF PostConfirmation, Requester
  <2> QED BY <2>1, <2>2
<1>4. ASSUME NEW b \in Client, ReadDocument(b)
      PROVE  BrowserInv(c)'
  <2>1. CASE b = c
    <3>1. /\ client'[c].step = "versions" /\ client'[c].version = client[c].version
          /\ client'[c].seen = document.current /\ UNCHANGED state /\ client[c].step = "document"
      BY <1>0, <1>4, <2>1 DEF ReadDocument, Browser
    <3> QED BY <1>0, <3>1 DEF BrowserInv, CurrentIsReady
  <2>2. CASE b # c
    BY <1>1, <1>4, <2>2 DEF ReadDocument
  <2> QED BY <2>1, <2>2
<1>5. ASSUME NEW b \in Client, ReadVersions(b)
      PROVE  BrowserInv(c)'
  <2>1. CASE b = c
    <3>1. /\ client'[c].step = IF client[c].version = NoVersion THEN "idle" ELSE "done"
          /\ client'[c].version = client[c].version
          /\ UNCHANGED state /\ client[c].step = "versions"
      BY <1>0, <1>5, <2>1 DEF ReadVersions, Browser
    <3> QED BY <1>0, <3>1 DEF BrowserInv
  <2>2. CASE b # c
    BY <1>1, <1>5, <2>2 DEF ReadVersions
  <2> QED BY <2>1, <2>2
<1>6. ASSUME NEW d \in Direct, NEW v \in Version, ConfirmDirectly(d, v)
      PROVE  BrowserInv(c)'
  BY <1>1, <1>6, UploadsAssumption DEF ConfirmDirectly, Requester
<1>7. ASSUME NEW r \in Requester, Verify(r)
      PROVE  BrowserInv(c)'
  <2>1. CASE request[r].version \in stored
    <3>1. client'[c] = client[c] /\ (request'[c] = request[c] \/ c = r)
      BY <1>7, <2>1 DEF Verify, Requester
    <3>2. c = r => request'[c].step = "save" /\ request'[c].version = request[c].version
      BY <1>7, <2>1 DEF Verify, Requester, Confirmation
    <3> QED BY <1>0, <3>1, <3>2, BrowserKept DEF BrowserInv
  <2>2. CASE request[r].version \notin stored
    BY <1>0, <1>7, <2>2, EndStep DEF Verify
  <2> QED BY <2>1, <2>2
<1>8. ASSUME NEW r \in Requester, SaveConfirmation(r)
      PROVE  BrowserInv(c)'
  <2>1. CASE state[request[r].version] = "UPLOADING"
    <3>1. PICK step \in {"done", "document"} : EndRequest(r, step)
      BY <1>8, <2>1 DEF SaveConfirmation
    <3>2. request[r].version \in Version
      BY <1>8 DEF SaveConfirmation, Confirmation
    <3>3. state'[request[r].version] \in Received
      BY <1>8, <2>1, <3>2 DEF SaveConfirmation, Received, State
    <3> QED BY <1>0, <3>1, <3>3, EndStep
  <2>2. CASE state[request[r].version] # "UPLOADING"
    BY <1>0, <1>8, <2>2, EndStep DEF SaveConfirmation
  <2> QED BY <2>1, <2>2
<1>9. ASSUME NEW r \in Requester, ApiStops(r)
      PROVE  BrowserInv(c)'
  BY <1>0, <1>9, EndStep DEF ApiStops
<1>10. ASSUME NEW v \in Version, Complete(v) \/ Reject(v)
       PROVE  BrowserInv(c)'
  BY <1>1, <1>10 DEF Complete, Reject
<1>11. ASSUME NEW b \in Client, OpenVersion(b)
       PROVE  BrowserInv(c)'
  <2>1. CASE b = c
    <3>1. /\ client'[c].step = "version" /\ client'[c].version = client[c].version
          /\ client'[c].seen = client[c].seen
          /\ UNCHANGED state /\ client[c].step = "versions"
      BY <1>0, <1>11, <2>1 DEF OpenVersion, Browser
    <3> QED BY <1>0, <3>1 DEF BrowserInv
  <2>2. CASE b # c
    BY <1>1, <1>11, <2>2 DEF OpenVersion
  <2> QED BY <2>1, <2>2
<1>12. ASSUME NEW b \in Client, ReadVersion(b)
       PROVE  BrowserInv(c)'
  BY <1>1, <1>12, BrowserFresh, IdleTyped DEF ReadVersion
<1>13. CASE UNCHANGED vars
  BY <1>1, <1>13 DEF vars
<1> QED BY <1>2, <1>3, <1>4, <1>5, <1>6, <1>7, <1>8, <1>9, <1>10, <1>11,
           <1>12, <1>13 DEF Next, ClientStep, ApiStep

\* The invariant is inductive.
THEOREM UploadsInvariant == Spec => []UInv
<1>1. UInv /\ [Next]_vars => UInv'
  BY TypeStep, RowStep, VerifiedStep, BrowserStep DEF UInv, RowInv
<1> QED BY <1>1, UInitially, PTL DEF Spec

\* The rows, the browsers and the requests are always well typed.
THEOREM UploadsTyped == Spec => []TypeOK
BY UploadsInvariant, PTL DEF UInv

\* The worker is never sent for bytes that were not uploaded.
THEOREM ConfirmedAreStored == Spec => []ConfirmedIsStored
BY UploadsInvariant, PTL DEF UInv

\* No content is uploaded a second time without the user's agreement.
THEOREM DuplicatesAreAgreed == Spec => []NoSilentDuplicate
BY UploadsInvariant, PTL DEF UInv

\* An upload that is reported as done was received.
THEOREM SuccessIsTrue == Spec => []SuccessIsReceived
<1>1. UInv => SuccessIsReceived
  BY DEF UInv, BrowserInv, SuccessIsReceived
<1> QED BY <1>1, UploadsInvariant, PTL

\* What a page shows as current is ready for review.
THEOREM CurrentIsShown == Spec => []CurrentIsShownReady
<1>1. UInv => CurrentIsShownReady
  BY DEF UInv, BrowserInv, CurrentIsShownReady
<1> QED BY <1>1, UploadsInvariant, PTL

-----------------------------------------------------------------------------
\* A browser that waits for its confirmation is being served, about the version
\* it waits for.
WaitingIsServed ==
  \A c \in Client : client[c].step = "confirming" =>
    request[c].step # "none" /\ request[c].version = client[c].version

\* No page waits for a confirmation nobody serves: what UploadEnds needs of the
\* API's end, for any number of clients (uploadDocumentVersion awaits it).
THEOREM NobodyWaitsUnserved == Spec => []WaitingIsServed
<1>1. UInv => WaitingIsServed
  BY DEF UInv, BrowserInv, WaitingIsServed
<1> QED BY <1>1, UploadsInvariant, PTL

\* Browser c is between the row of version v and the end of its upload.
Attends(c, v) ==
  client[c].version = v /\ client[c].step \in {"put", "confirm", "confirming"}

\* While no call has failed: an object is there before its confirmation is
\* asked for, and no version is uploading without a browser that goes on.
UploadingIsAttended ==
  failures = 0 =>
    /\ \A c \in Client : client[c].step \in {"confirm", "confirming"} => client[c].version \in stored
    /\ \A v \in Version : state[v] = "UPLOADING" => \E c \in Client : Attends(c, v)

\* The row of version 1 comes with the browser that got the URL for it.
LEMMA InitAttended == Init => UploadingIsAttended
<1> SUFFICES ASSUME Init PROVE UploadingIsAttended
  OBVIOUS
<1>1. PICK creator \in Client :
        client = [c \in Client |-> IF c = creator THEN At("put", 1, NoContent, NoVersion) ELSE Idle]
  BY DEF Init
<1>2. \A c \in Client : client[c].step \in {"put", "idle"}
  BY <1>1, IdleTyped DEF At
<1>3. Attends(creator, 1)
  BY <1>1 DEF Attends, At
<1>4. \A v \in Version : state[v] = "UPLOADING" => v = 1
  BY DEF Init
<1> QED BY <1>2, <1>3, <1>4 DEF UploadingIsAttended

\* The step of one browser keeps it, if the version the browser attended is
\* still attended by it and a new row is its own.
LEMMA AttendedKept ==
  ASSUME UploadingIsAttended, failures = 0, stored \subseteq stored', NEW b \in Client,
         \A c \in Client \ {b} : client'[c] = client[c],
         client'[b].step \in {"confirm", "confirming"} => client'[b].version \in stored',
         \A v \in Version : Attends(b, v) => Attends(b, v)' \/ state'[v] # "UPLOADING",
         \A v \in Version : state'[v] = "UPLOADING" => state[v] = "UPLOADING" \/ Attends(b, v)'
  PROVE  UploadingIsAttended'
<1> USE DEF UploadingIsAttended
<1>1. \A c \in Client : client'[c].step \in {"confirm", "confirming"} => client'[c].version \in stored'
  OBVIOUS
<1>2. ASSUME NEW v \in Version, state'[v] = "UPLOADING"
      PROVE  \E c \in Client : Attends(c, v)'
  <2>1. CASE Attends(b, v)'
    BY <2>1
  <2>2. CASE ~Attends(b, v)'
    <3>1. PICK c \in Client : Attends(c, v)
      BY <1>2, <2>2
    <3>2. c # b
      BY <1>2, <2>2, <3>1
    <3> QED BY <3>1, <3>2 DEF Attends
  <2> QED BY <2>1, <2>2
<1> QED BY <1>1, <1>2

\* So does a step of the API or of the worker that answers no browser.
LEMMA UnansweredKept ==
  ASSUME UploadingIsAttended, UNCHANGED <<client, failures, stored>>,
         \A v \in Version : state'[v] = "UPLOADING" => state[v] = "UPLOADING"
  PROVE  UploadingIsAttended'
BY DEF UploadingIsAttended, Attends

\* And the end of a request about a version that is no longer uploading.
LEMMA AnsweredKept ==
  ASSUME UInv, UploadingIsAttended, UNCHANGED <<failures, stored>>, failures = 0,
         \A v \in Version : state'[v] = "UPLOADING" => state[v] = "UPLOADING",
         NEW r \in Requester, NEW step \in {"idle", "done", "document"}, EndRequest(r, step),
         state'[request[r].version] # "UPLOADING"
  PROVE  UploadingIsAttended'
<1>1. CASE r \in Client /\ client[r].step = "confirming"
  <2>1. PICK k : k = IF step = "idle" THEN Idle ELSE [client[r] EXCEPT !.step = step]
    OBVIOUS
  <2>2. k.step = step
    BY <1>1, <2>1, IdleTyped DEF UInv, TypeOK, Browser
  <2>3. client'[r] = k /\ \A c \in Client \ {r} : client'[c] = client[c]
    BY <1>1, <2>1 DEF EndRequest, UInv, TypeOK
  <2>4. request[r].version = client[r].version
    BY <1>1 DEF UInv, BrowserInv
  <2> QED BY <1>1, <2>2, <2>3, <2>4, AttendedKept DEF Attends
<1>2. CASE ~(r \in Client /\ client[r].step = "confirming")
  BY <1>2, UnansweredKept DEF EndRequest
<1> QED BY <1>1, <1>2

\* Every step keeps it: a step that fails a call is under no obligation, a HEAD
\* finds the object of the browser it answers, and a transaction that finds
\* another state finds the version received.
LEMMA AttendedStep == UInv /\ UploadingIsAttended /\ [Next]_vars => UploadingIsAttended'
<1> USE VersionFacts, IdleTyped
<1> SUFFICES ASSUME UInv, UploadingIsAttended, [Next]_vars, failures' = 0 PROVE UploadingIsAttended'
  BY DEF UploadingIsAttended
<1>0. TypeOK /\ stored \subseteq stored' /\ \A c \in Client : client[c] \in Browser
  BY RowStep DEF Advances, UInv, TypeOK
<1>1. ASSUME NEW c \in Client, Fails(c) PROVE FALSE
  BY <1>0, <1>1 DEF Fails, TypeOK
<1>2. ASSUME NEW c \in Client, NEW k, client' = [client EXCEPT ![c] = k], UNCHANGED <<failures, state>>,
             client[c].step \notin {"put", "confirm", "confirming"},
             k.step \notin {"confirm", "confirming"}
      PROVE  UploadingIsAttended'
  <2>1. client'[c] = k /\ \A b \in Client \ {c} : client'[b] = client[b]
    BY <1>0, <1>2 DEF TypeOK
  <2> QED BY <1>0, <1>2, <2>1, AttendedKept DEF Attends
<1>3. ASSUME NEW c \in Client, UserStep(c)
      PROVE  UploadingIsAttended'
  <2>1. CASE OpenPage(c)
    BY <1>2, <2>1 DEF OpenPage, At, AtRest
  <2>2. CASE AnswerDialog(c)
    <3>1. PICK k \in {[client[c] EXCEPT !.step = "recreate"], Idle} : client' = [client EXCEPT ![c] = k]
      BY <2>2 DEF AnswerDialog
    <3>2. k.step \in {"recreate", "idle"}
      BY <1>0, <3>1 DEF Browser
    <3> QED BY <1>2, <2>2, <3>1, <3>2 DEF AnswerDialog
  <2>3. ASSUME NEW f \in Content, Submit(c, f)
        PROVE  UploadingIsAttended'
    BY <1>2, <2>3 DEF Submit, At, AtRest
  <2> QED BY <1>3, <2>1, <2>2, <2>3 DEF UserStep
<1>4. ASSUME NEW c \in Client, RefuseDuplicate(c) \/ NoNumberLeft(c) \/ ReadVersion(c)
      PROVE  UploadingIsAttended'
  BY <1>1, <1>2, <1>4 DEF RefuseDuplicate, Answered, NoNumberLeft, ReadVersion, At
<1>5. ASSUME NEW c \in Client, NEW v \in Version, InsertVersion(c, v)
      PROVE  UploadingIsAttended'
  <2>1. PICK k : k = Uploading(v)
    OBVIOUS
  <2>2. k.step = "put" /\ k.version = v
    BY <2>1 DEF Uploading, At
  <2>3. client'[c] = k /\ (\A b \in Client \ {c} : client'[b] = client[b]) /\ UNCHANGED failures
    BY <1>0, <1>1, <1>5, <2>1 DEF InsertVersion, Answered, TypeOK
  <2>4. client[c].step \notin {"put", "confirm", "confirming"}
    BY <1>5 DEF InsertVersion
  <2>5. \A w \in Version : state'[w] = "UPLOADING" => state[w] = "UPLOADING" \/ w = v
    BY <1>0, <1>5 DEF InsertVersion, TypeOK
  <2> QED BY <1>0, <2>2, <2>3, <2>4, <2>5, AttendedKept DEF Attends
<1>6. ASSUME NEW c \in Client, Put(c)
      PROVE  UploadingIsAttended'
  <2>1. PICK k : k = [client[c] EXCEPT !.step = "confirm"]
    OBVIOUS
  <2>2. k.step = "confirm" /\ k.version = client[c].version
    BY <1>0, <2>1 DEF Browser
  <2>3. /\ client'[c] = k /\ \A b \in Client \ {c} : client'[b] = client[b]
        /\ UNCHANGED <<failures, state>> /\ k.version \in stored'
    BY <1>0, <1>1, <1>6, <2>1, <2>2 DEF Put, Answered, TypeOK
  <2> QED BY <1>0, <2>2, <2>3, AttendedKept DEF Attends
<1>7. ASSUME NEW c \in Client, PostConfirmation(c)
      PROVE  UploadingIsAttended'
  <2>1. PICK k : k = [client[c] EXCEPT !.step = "confirming"]
    OBVIOUS
  <2>2. k.step = "confirming" /\ k.version = client[c].version
    BY <1>0, <2>1 DEF Browser
  <2>3. /\ client'[c] = k /\ \A b \in Client \ {c} : client'[b] = client[b]
        /\ UNCHANGED <<failures, state, stored>>
    BY <1>0, <1>7, <2>1 DEF PostConfirmation, TypeOK
  <2>4. k.version \in stored'
    BY <1>7, <2>2, <2>3 DEF PostConfirmation, UploadingIsAttended
  <2> QED BY <1>0, <2>2, <2>3, <2>4, AttendedKept DEF Attends
<1>8. ASSUME NEW c \in Client, ReadDocument(c) \/ ReadVersions(c) \/ OpenVersion(c)
      PROVE  UploadingIsAttended'
  <2>1. \E k : client' = [client EXCEPT ![c] = k] /\ k.step \in {"versions", "idle", "done", "version"}
    <3>1. CASE ReadDocument(c)
      <4>1. PICK k : k = [client[c] EXCEPT !.step = "versions", !.seen = document.current]
        OBVIOUS
      <4>2. k.step = "versions" /\ client' = [client EXCEPT ![c] = k]
        BY <1>0, <3>1, <4>1 DEF ReadDocument, Browser
      <4> QED BY <4>2
    <3>2. CASE ReadVersions(c)
      <4>1. PICK k : k = [client[c] EXCEPT !.seen = NoVersion,
                            !.step = IF client[c].version = NoVersion THEN "idle" ELSE "done"]
        OBVIOUS
      <4>2. k.step \in {"idle", "done"} /\ client' = [client EXCEPT ![c] = k]
        BY <1>0, <3>2, <4>1 DEF ReadVersions, Browser
      <4> QED BY <4>2
    <3>3. CASE OpenVersion(c)
      <4>1. PICK k : k = [client[c] EXCEPT !.step = "version"]
        OBVIOUS
      <4>2. k.step = "version" /\ client' = [client EXCEPT ![c] = k]
        BY <1>0, <3>3, <4>1 DEF OpenVersion, Browser
      <4> QED BY <4>2
    <3> QED BY <1>8, <3>1, <3>2, <3>3
  <2> QED BY <1>2, <1>8, <2>1 DEF ReadDocument, ReadVersions, OpenVersion
<1>9. ASSUME NEW r \in Requester, Verify(r)
      PROVE  UploadingIsAttended'
  <2>1. CASE request[r].version \in stored
    BY <1>9, <2>1, UnansweredKept DEF Verify
  <2>2. CASE request[r].version \notin stored
    <3>1. ~(r \in Client /\ client[r].step = "confirming")
      BY <1>9, <2>2 DEF Verify, UInv, BrowserInv, UploadingIsAttended
    <3> QED BY <1>9, <2>2, <3>1, UnansweredKept DEF Verify, EndRequest
  <2> QED BY <2>1, <2>2
<1>10. ASSUME NEW r \in Requester, SaveConfirmation(r)
       PROVE  UploadingIsAttended'
  <2>1. request[r].version \in Version
    BY <1>0, <1>10 DEF SaveConfirmation, TypeOK, Confirmation
  <2>2. /\ state'[request[r].version] # "UPLOADING"
        /\ \A v \in Version : state'[v] = "UPLOADING" => state[v] = "UPLOADING"
        /\ UNCHANGED <<failures, stored>>
    BY <1>0, <1>10, <2>1 DEF SaveConfirmation, TypeOK
  <2>3. PICK step \in {"idle", "done", "document"} : EndRequest(r, step)
    BY <1>10 DEF SaveConfirmation
  <2> QED BY <2>2, <2>3, AnsweredKept
<1>11. ASSUME NEW r \in Requester, ApiStops(r)
       PROVE  FALSE
  BY <1>0, <1>11 DEF ApiStops, TypeOK
<1>12. ASSUME NEW d \in Direct, NEW v \in Version, ConfirmDirectly(d, v)
       PROVE  UploadingIsAttended'
  BY <1>12, UnansweredKept DEF ConfirmDirectly
<1>13. ASSUME NEW v \in Version, Complete(v) \/ Reject(v)
       PROVE  UploadingIsAttended'
  BY <1>0, <1>13, UnansweredKept DEF Complete, Reject, TypeOK
<1>14. CASE UNCHANGED vars
  BY <1>14, UnansweredKept DEF vars
<1>15. ASSUME NEW c \in Client, CallFails(c)
       PROVE  FALSE
  BY <1>1, <1>15 DEF CallFails
<1> QED BY <1>3, <1>4, <1>5, <1>6, <1>7, <1>8, <1>9, <1>10, <1>11, <1>12, <1>13, <1>14, <1>15
        DEF Next, ClientStep, ApiStep

\* Only a call that failed leaves a version behind: until then each one that is
\* uploading has a browser on the way to its confirmation, whoever confirms at
\* the same time.  That the browser arrives is NothingIsLeftBehind.
THEOREM UploadsAreAttended == Spec => []UploadingIsAttended
BY InitAttended, AttendedStep, UploadsInvariant, PTL DEF Spec

-----------------------------------------------------------------------------
\* The rows of a new document are those DocSpec starts from.
LEMMA InitRefines == Init => Doc!DocInit
<1> SUFFICES ASSUME Init PROVE Doc!DocInit
  OBVIOUS
<1>1. Doc!Version = Version /\ Doc!NoVersion = NoVersion
  BY DEF Doc!Version, Version, Doc!NoVersion, NoVersion
<1>2. {v \in Version : state[v] = "READY_FOR_REVIEW"} = {}
  BY DEF Init
<1> QED BY <1>1, <1>2 DEF Init, Doc!DocInit

\* Every step is one of the document or leaves it alone: a confirmation that
\* finds another state writes nothing, and a rejected version falls back to
\* what its document shows because the current version is never the rejected one.
LEMMA StepRefines == UInv /\ [Next]_vars => [Doc!DocNext]_(Doc!docVars)
<1> USE VersionFacts DEF UInv, TypeOK, Doc!Version, Version, Doc!NoVersion, NoVersion
<1> SUFFICES ASSUME UInv, [Next]_vars PROVE [Doc!DocNext]_(Doc!docVars)
  OBVIOUS
<1>1. CASE UNCHANGED <<state, sha256, agreed, document>>
  BY <1>1 DEF Doc!docVars
<1>2. ASSUME NEW c \in Client, NEW v \in Version, InsertVersion(c, v)
      PROVE  Doc!CreateVersion(v)
  BY <1>2 DEF InsertVersion, Doc!CreateVersion
<1>3. ASSUME NEW r \in Requester, SaveConfirmation(r), state[request[r].version] = "UPLOADING"
      PROVE  \E v \in Version : Doc!ConfirmVersion(v)
  <2>1. PICK v \in Version : v = request[r].version
    BY <1>3 DEF Confirmation, SaveConfirmation
  <2>2. /\ state[v] = "UPLOADING" /\ state' = [state EXCEPT ![v] = "SCAN_QUEUED"]
        /\ document' = [document EXCEPT !.status = "PROCESSING"]
    BY <1>3, <2>1 DEF SaveConfirmation
  <2>3. document'.current = document.current /\ document'.status = "PROCESSING"
    BY <2>2
  <2>4. \A w \in Version : state'[w] = "READY_FOR_REVIEW" <=> state[w] = "READY_FOR_REVIEW"
    BY <2>2
  <2> QED BY <2>2, <2>3, <2>4 DEF Doc!ConfirmVersion
<1>4. ASSUME NEW v \in Version, Complete(v)
      PROVE  Doc!CompleteVersion(v)
  BY <1>4 DEF Complete, Doc!CompleteVersion, Doc!CompletedEffect
<1>5. ASSUME NEW v \in Version, Reject(v)
      PROVE  Doc!RejectVersion(v)
  BY <1>5 DEF Reject, Doc!RejectVersion, Doc!RejectedEffect, CurrentIsReady
<1> QED BY <1>1, <1>2, <1>3, <1>4, <1>5, RowWriters DEF Doc!DocNext

\* Uploads implement the document's specification, whoever confirms and
\* whatever fails: browsers, storage and requests are hidden, a review is
\* there for each ready version.
THEOREM UploadsImplementDocuments == Spec => ImplementsDocuments
BY InitRefines, StepRefines, UploadsInvariant, PTL DEF Spec, ImplementsDocuments, Doc!DocSpec
=============================================================================
