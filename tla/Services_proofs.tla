-------------------------- MODULE Services_proofs ---------------------------
(***************************************************************************)
(* Machine-checked theorems about DriveConnector, for any users and flows, *)
(* any faults and any number of requests under way, about Agent, for any   *)
(* runs and any sizes of the window and of what an overflow keeps, and     *)
(* about Services, which puts these and the parts of the modules below     *)
(* beside each other.                                                      *)
(***************************************************************************)
EXTENDS Services, Startup_proofs, Clients_proofs, SequenceTheorems

-----------------------------------------------------------------------------
(* DriveConnector.                                                         *)

-----------------------------------------------------------------------------
(* The inductive invariant.                                                *)

\* A cookie that remembers a flow remembers the user who began it.
OwnCookie(c) == c.state \in Flows => c.user \in Users /\ beganBy[c.state] = c.user

\* A request carries such a cookie; a callback names a flow, any other request a user.
OwnRequest(q) ==
    /\ OwnCookie(q.cookie)
    /\ q.kind = "callback" => q.flow \in Flows
    /\ q.kind = "other" => q.user \in Users

DriveInv ==
    /\ DriveTypeOK
    /\ OwnCookie(session)
    /\ \A q \in sent : OwnRequest(q)
    /\ CredentialsAreOwn
    /\ ConnectionsAreAsReported

-----------------------------------------------------------------------------
(* Loading and saving the tokens.                                          *)

\* What is in the file after a write is what was there, what was written, or of no use.
LEMMA SavedIsOneOf ==
    ASSUME NEW old \in TokenFile, NEW new \in TokenFile, NEW disk \in Disk
    PROVE  /\ Saved(old, new, disk) \in {old, new, Broken}
           /\ disk = "ok" => Saved(old, new, disk) = new
           /\ Saved(old, new, disk) \in TokenFile
BY DEF Saved, Disk, Broken, TokenFile

\* A load leaves the flow of the file as it is, or spoils the tokens of a flow and is not smooth.
LEMMA LoadKeepsFlow ==
    ASSUME NEW file \in TokenFile, NEW load \in Loads(file)
    PROVE  /\ load.file \in TokenFile /\ load.up \in BOOLEAN
           /\ \/ load.file.flow = file.flow
              \/ load.file.flow = "broken" /\ file.flow \in Flows
           /\ \/ file.flow \in Flows /\ ~Smooth(file, load)
              \/ load.file.flow = file.flow
           /\ load.up => file.flow \in Flows
           /\ file.flow \in Flows /\ file.fresh => load.file = file
<1> USE DriveAssumption
<1>0. file.flow \in Flows \cup {"none", "broken"} /\ file.fresh \in BOOLEAN
  BY DEF TokenFile
<1>1. CASE file.flow \notin Flows
  <2>1. load = [file |-> file, up |-> FALSE]
    BY <1>0, <1>1 DEF Loads
  <2> QED
    BY <1>1, <2>1
<1>2. CASE file.flow \in Flows /\ file.fresh
  <2>1. Loads(file) = [file : {file}, up : Network]
    BY <1>2 DEF Loads
  <2>2. load.file = file /\ load.up \in Network
    BY <2>1
  <2>3. Network \subseteq BOOLEAN
    BY DEF Network
  <2> QED
    BY <1>2, <2>2, <2>3
<1>3. CASE file.flow \in Flows /\ ~file.fresh
  <2>1. load \in Refreshed(file)
    BY <1>3 DEF Loads
  <2>2. load = [file |-> file, up |-> FALSE]
        \/ \E d \in Disk : /\ load.file = Saved(file, [file EXCEPT !.fresh = TRUE], d)
                          /\ load.up \in Network
    BY <2>1 DEF Refreshed
  <2>3. CASE load = [file |-> file, up |-> FALSE]
    BY <1>3, <2>3
  <2>4. ASSUME NEW d \in Disk, load.file = Saved(file, [file EXCEPT !.fresh = TRUE], d),
               load.up \in Network
        PROVE  /\ load.file \in TokenFile /\ load.up \in BOOLEAN
               /\ \/ load.file.flow = file.flow
                  \/ load.file.flow = "broken" /\ ~Smooth(file, load)
    <3> DEFINE new == [file EXCEPT !.fresh = TRUE]
    <3>1. new \in TokenFile /\ new.flow = file.flow
      BY DEF TokenFile
    <3>2. load.up \in BOOLEAN
      BY <2>4 DEF Network
    <3>3. Saved(file, new, d) \in {file, new, Broken} /\ Saved(file, new, d) \in TokenFile
      BY <3>1, SavedIsOneOf
    <3>4. load.file = Saved(file, new, d)
      BY <2>4
    <3>5. Smooth(file, load) => load.file = new
      <4>1. Smooth(file, load) => load = [file |-> new, up |-> TRUE]
        BY <1>3 DEF Smooth
      <4> HIDE DEF new
      <4> QED
        BY <4>1
    <3>6. Broken.flow = "broken" /\ "broken" # file.flow
      BY <1>3 DEF Broken
    <3> HIDE DEF new
    <3> QED
      BY <3>1, <3>2, <3>3, <3>4, <3>5, <3>6
  <2> QED
    BY <1>3, <2>2, <2>3, <2>4
<1> QED
  BY <1>0, <1>1, <1>2, <1>3

\* What is about the tokens.
TokensOk == CredentialsAreOwn /\ ConnectionsAreAsReported

\* A request that loads a user's tokens, and does nothing else with them, keeps them owned and
\* reported.
LEMMA AfterLoad ==
    ASSUME DriveInv, NEW u \in Users, NEW load \in Loads(tokenFile[u]),
           tokenFile' = [tokenFile EXCEPT ![u] = load.file],
           slipped' = IF Smooth(tokenFile[u], load) THEN slipped
                      ELSE slipped \cup FlowsOf(tokenFile[u]),
           \A g \in Flows : beganBy[g] \in Users => beganBy'[g] = beganBy[g],
           told' = told
    PROVE  /\ tokenFile' \in [Users -> TokenFile] /\ slipped' \subseteq Flows
           /\ TokensOk'
<1> USE DriveAssumption
<1>0. /\ tokenFile \in [Users -> TokenFile] /\ slipped \subseteq Flows
      /\ CredentialsAreOwn /\ ConnectionsAreAsReported
  BY DEF DriveInv, DriveTypeOK
<1>1. tokenFile[u] \in TokenFile
  BY <1>0
<1>2. /\ load.file \in TokenFile
      /\ \/ load.file.flow = tokenFile[u].flow
         \/ load.file.flow = "broken" /\ tokenFile[u].flow \in Flows
      /\ \/ tokenFile[u].flow \in Flows /\ ~Smooth(tokenFile[u], load)
         \/ load.file.flow = tokenFile[u].flow
  BY <1>1, LoadKeepsFlow
<1>3. tokenFile' \in [Users -> TokenFile] /\ slipped' \subseteq Flows /\ slipped \subseteq slipped'
  BY <1>0, <1>2 DEF FlowsOf
<1>4. ASSUME NEW v \in Users, NEW f \in FlowsOf(tokenFile'[v]) PROVE beganBy'[f] = v
  <2>1. f \in FlowsOf(tokenFile[v])
    BY <1>0, <1>2, <1>4 DEF FlowsOf
  <2>2. beganBy[f] = v /\ f \in Flows
    BY <1>0, <2>1 DEF CredentialsAreOwn, FlowsOf
  <2> QED
    BY <2>2
<1>5. ASSUME NEW v \in Users
      PROVE  tokenFile'[v].flow = told'[v] \/ \E f \in slipped' : beganBy'[f] = v
  <2>1. tokenFile[v].flow = told[v] \/ \E f \in slipped : beganBy[f] = v
    BY <1>0 DEF ConnectionsAreAsReported
  <2>2. CASE \E f \in slipped : beganBy[f] = v
    BY <1>0, <1>3, <2>2
  <2>3. CASE tokenFile'[v] = tokenFile[v] /\ tokenFile[v].flow = told[v]
    BY <2>3
  <2>4. CASE tokenFile'[v] # tokenFile[v] /\ tokenFile[v].flow = told[v]
    <3>1. v = u /\ tokenFile'[v] = load.file
      BY <1>0, <2>4
    <3>2. CASE load.file.flow = tokenFile[u].flow
      BY <2>4, <3>1, <3>2
    <3>3. CASE tokenFile[u].flow \in Flows /\ ~Smooth(tokenFile[u], load)
      <4>1. tokenFile[u].flow \in FlowsOf(tokenFile[u]) /\ tokenFile[u].flow \in slipped'
        BY <3>3 DEF FlowsOf
      <4>2. beganBy[tokenFile[u].flow] = u
        BY <1>0, <4>1 DEF CredentialsAreOwn
      <4> QED
        BY <3>1, <3>3, <4>1, <4>2
    <3> QED
      BY <1>2, <3>2, <3>3
  <2> QED
    BY <2>1, <2>2, <2>3, <2>4
<1>6. CredentialsAreOwn'
  BY <1>4 DEF CredentialsAreOwn, FlowsOf
<1>7. ConnectionsAreAsReported'
  BY <1>5 DEF ConnectionsAreAsReported
<1> QED
  BY <1>3, <1>6, <1>7 DEF TokensOk

\* A request that does not touch the tokens keeps them owned and reported.
LEMMA AfterNothing ==
    ASSUME DriveInv, UNCHANGED <<tokenFile, slipped, told, beganBy>>
    PROVE  TokensOk'
BY DEF DriveInv, TokensOk, CredentialsAreOwn, ConnectionsAreAsReported, FlowsOf

-----------------------------------------------------------------------------
(* The cookies.                                                            *)

\* The sessions and requests of a state.
Sessions == OwnCookie(session) /\ \A q \in sent : OwnRequest(q)

\* They stay as they should be when flows are only begun for the first time.
LEMMA CookiesStay ==
    ASSUME NEW c \in Cookie, OwnCookie(c),
           \A g \in Flows : beganBy[g] \in Users => beganBy'[g] = beganBy[g]
    PROVE  OwnCookie(c)'
BY DEF OwnCookie

LEMMA SessionsStay ==
    ASSUME DriveInv, sent' \subseteq sent,
           \A g \in Flows : beganBy[g] \in Users => beganBy'[g] = beganBy[g]
    PROVE  \A q \in sent' : OwnRequest(q)'
<1> SUFFICES ASSUME NEW q \in sent PROVE OwnRequest(q)'
  OBVIOUS
<1>1. q \in SentReq /\ OwnRequest(q)
  BY DEF DriveInv, DriveTypeOK
<1>2. q.cookie \in Cookie /\ OwnCookie(q.cookie)
  BY <1>1 DEF SentReq, OwnRequest
<1>3. OwnCookie(q.cookie)'
  BY <1>2, CookiesStay
<1> QED
  BY <1>1, <1>3 DEF OwnRequest

\* A new request carries the cookie of the browser.
LEMMA AfterSend ==
    ASSUME DriveInv, NEW q \in SentReq, Send(q), q.cookie = session,
           q.kind = "callback" => q.flow \in Flows, q.kind = "other" => q.user \in Users,
           UNCHANGED <<session, beganBy>>
    PROVE  sent' \subseteq SentReq /\ Sessions'
<1>1. sent \subseteq SentReq /\ OwnCookie(session) /\ (\A p \in sent : OwnRequest(p))
  BY DEF DriveInv, DriveTypeOK
<1>2. OwnRequest(q)
  BY <1>1 DEF OwnRequest
<1>3. sent' = sent \cup {q}
  BY DEF Send
<1> QED
  BY <1>1, <1>2, <1>3 DEF Sessions, OwnRequest, OwnCookie

\* After a response the browser has its old cookie, that of the request or none.
LEMMA AfterResponse ==
    ASSUME DriveInv, NEW q \in sent, NEW after \in {NoCookie, q.cookie}, Responds(q, after),
           UNCHANGED beganBy
    PROVE  sent' \subseteq SentReq /\ session' \in Cookie /\ Sessions'
<1> USE DriveAssumption
<1>1. /\ sent \subseteq SentReq /\ session \in Cookie /\ OwnCookie(session)
      /\ q \in SentReq /\ OwnRequest(q)
  BY DEF DriveInv, DriveTypeOK
<1>2. q.cookie \in Cookie /\ OwnCookie(q.cookie)
  BY <1>1 DEF SentReq, OwnRequest
<1>3. NoCookie \in Cookie /\ OwnCookie(NoCookie)
  BY DEF NoCookie, Cookie, OwnCookie
<1>4. session' \in {session, NoCookie, q.cookie}
  BY DEF Responds
<1>5. session' \in Cookie /\ OwnCookie(session')
  BY <1>1, <1>2, <1>3, <1>4
<1>6. sent' \subseteq sent
  BY DEF Responds
<1>7. OwnCookie(session)'
  BY <1>5 DEF OwnCookie
<1>8. \A p \in sent' : OwnRequest(p)'
  BY <1>6, SessionsStay
<1> QED
  BY <1>1, <1>5, <1>6, <1>7, <1>8 DEF Sessions

-----------------------------------------------------------------------------
(* The actions.                                                            *)

LEMMA DriveInitially == DriveInit => DriveInv
<1> USE DriveAssumption
<1> SUFFICES ASSUME DriveInit PROVE DriveInv
  OBVIOUS
<1>1. DriveTypeOK
  BY DEF DriveInit, DriveTypeOK, NoCookie, Cookie, NoFile, TokenFile
<1>2. OwnCookie(session) /\ \A q \in sent : OwnRequest(q)
  BY DEF DriveInit, OwnCookie, NoCookie
<1>3. \A u \in Users : tokenFile[u].flow = "none" /\ told[u] = "none"
  BY DEF DriveInit, NoFile
<1>4. CredentialsAreOwn /\ ConnectionsAreAsReported
  BY <1>3 DEF CredentialsAreOwn, ConnectionsAreAsReported, FlowsOf
<1> QED
  BY <1>1, <1>2, <1>4 DEF DriveInv

LEMMA DriveStep == DriveInv /\ [DriveNext]_driveVars => DriveInv'
<1> USE DriveAssumption
<1> SUFFICES ASSUME DriveInv, [DriveNext]_driveVars PROVE DriveInv'
  OBVIOUS
<1>0. /\ session \in Cookie
      /\ beganBy \in [Flows -> Users \cup {"none"}]
      /\ code \in [Flows -> {"none", "granted", "spent"}]
      /\ sent \subseteq SentReq
      /\ tokenFile \in [Users -> TokenFile]
      /\ told \in [Users -> Flows \cup {"none"}]
      /\ slipped \subseteq Flows
      /\ OwnCookie(session) /\ \A q \in sent : OwnRequest(q)
      /\ CredentialsAreOwn /\ ConnectionsAreAsReported
  BY DEF DriveInv, DriveTypeOK
<1>1. ASSUME NEW f \in Flows, NEW u \in Users, InitiateAuth(f, u) PROVE DriveInv'
  <2>1. PICK load \in Loads(tokenFile[u]) :
           /\ tokenFile' = [tokenFile EXCEPT ![u] = load.file]
           /\ slipped' = IF Smooth(tokenFile[u], load) THEN slipped
                         ELSE slipped \cup FlowsOf(tokenFile[u])
    BY <1>1 DEF InitiateAuth
  <2>2. /\ beganBy[f] = "none" /\ beganBy' = [beganBy EXCEPT ![f] = u]
        /\ session' = [state |-> f, user |-> u]
        /\ code' = code /\ sent' = sent /\ told' = told
    BY <1>1 DEF InitiateAuth
  <2>3. \A g \in Flows : beganBy[g] \in Users => beganBy'[g] = beganBy[g]
    BY <1>0, <2>2
  <2>4. /\ tokenFile' \in [Users -> TokenFile] /\ slipped' \subseteq Flows
        /\ TokensOk'
    BY <2>1, <2>2, <2>3, AfterLoad
  <2>5. \A q \in sent' : OwnRequest(q)'
    BY <2>2, <2>3, SessionsStay
  <2>6. OwnCookie(session)'
    BY <1>0, <2>2 DEF OwnCookie
  <2>7. DriveTypeOK'
    BY <1>0, <2>2, <2>4 DEF DriveTypeOK, Cookie
  <2> QED
    BY <2>4, <2>5, <2>6, <2>7 DEF DriveInv, TokensOk
<1>2. ASSUME NEW f \in Flows, Redirect(f) \/ Deny(f) PROVE DriveInv'
  <2> DEFINE kind == IF Redirect(f) THEN "callback" ELSE "denied"
             q == [kind |-> kind, flow |-> f, user |-> "none", cookie |-> session]
  <2>1. q \in SentReq /\ q.cookie = session /\ q.flow \in Flows /\ q.kind # "other"
    BY <1>0 DEF SentReq
  <2>2. /\ Send(q) /\ UNCHANGED <<session, beganBy, tokenFile, told, slipped>>
        /\ code' \in [Flows -> {"none", "granted", "spent"}]
    BY <1>0, <1>2 DEF Redirect, Deny
  <2> HIDE DEF q
  <2>3. sent' \subseteq SentReq /\ Sessions'
    BY <2>1, <2>2, AfterSend
  <2>4. TokensOk'
    BY <2>2, AfterNothing
  <2> QED
    BY <1>0, <2>2, <2>3, <2>4 DEF DriveInv, DriveTypeOK, TokensOk, Sessions
<1>3. ASSUME NEW u \in Users, ListOrIngest(u) PROVE DriveInv'
  <2> DEFINE q == [kind |-> "other", flow |-> "none", user |-> u, cookie |-> session]
  <2>1. q \in SentReq /\ q.cookie = session /\ q.kind = "other" /\ q.user \in Users
    BY <1>0 DEF SentReq
  <2>2. Send(q) /\ UNCHANGED <<session, beganBy, code, tokenFile, told, slipped>>
    BY <1>3 DEF ListOrIngest
  <2> HIDE DEF q
  <2>3. sent' \subseteq SentReq /\ Sessions'
    BY <2>1, <2>2, AfterSend
  <2>4. TokensOk'
    BY <2>2, AfterNothing
  <2> QED
    BY <1>0, <2>2, <2>3, <2>4 DEF DriveInv, DriveTypeOK, TokensOk, Sessions
<1>4. ASSUME NEW u \in Users, Disconnect(u) PROVE DriveInv'
  <2>1. /\ tokenFile' = [tokenFile EXCEPT ![u] = NoFile] /\ told' = [told EXCEPT ![u] = "none"]
        /\ UNCHANGED <<session, beganBy, code, sent, slipped>>
    BY <1>4 DEF Disconnect, Unlinked
  <2>2. NoFile \in TokenFile /\ NoFile.flow = "none"
    BY DEF NoFile, TokenFile
  <2>3. DriveTypeOK'
    BY <1>0, <2>1, <2>2 DEF DriveTypeOK
  <2>4. \A v \in Users : \/ v = u /\ tokenFile'[v] = NoFile /\ told'[v] = "none"
                         \/ tokenFile'[v] = tokenFile[v] /\ told'[v] = told[v]
    BY <1>0, <2>1
  <2>5. CredentialsAreOwn'
    BY <1>0, <2>1, <2>2, <2>4 DEF CredentialsAreOwn, FlowsOf
  <2>6. ConnectionsAreAsReported'
    BY <1>0, <2>1, <2>2, <2>4 DEF ConnectionsAreAsReported
  <2> QED
    BY <1>0, <2>1, <2>3, <2>5, <2>6 DEF DriveInv, OwnCookie, OwnRequest
<1>5. ASSUME NEW u \in Users, Expire(u) PROVE DriveInv'
  <2>1. /\ tokenFile' = [tokenFile EXCEPT ![u].fresh = FALSE]
        /\ UNCHANGED <<session, beganBy, code, sent, told, slipped>>
    BY <1>5 DEF Expire
  <2>2. tokenFile' \in [Users -> TokenFile] /\ \A v \in Users : tokenFile'[v].flow = tokenFile[v].flow
    <3>1. tokenFile \in [Users -> TokenFile]
      BY <1>0 DEF DriveInv, DriveTypeOK
    <3>2. [tokenFile[u] EXCEPT !.fresh = FALSE] \in TokenFile
          /\ [tokenFile[u] EXCEPT !.fresh = FALSE].flow = tokenFile[u].flow
      BY <3>1 DEF TokenFile
    <3>3. tokenFile' = [tokenFile EXCEPT ![u] = [tokenFile[u] EXCEPT !.fresh = FALSE]]
      BY <2>1
    <3> QED
      BY <3>1, <3>2, <3>3
  <2>3. DriveTypeOK'
    BY <1>0, <2>1, <2>2 DEF DriveTypeOK
  <2>4. CredentialsAreOwn' /\ ConnectionsAreAsReported'
    BY <1>0, <2>1, <2>2 DEF CredentialsAreOwn, ConnectionsAreAsReported, FlowsOf
  <2> QED
    BY <1>0, <2>1, <2>3, <2>4 DEF DriveInv, OwnCookie, OwnRequest
<1>6. ASSUME NEW q \in sent, RejectCallback(q) \/ ReportError(q) PROVE DriveInv'
  <2>1. PICK after \in {NoCookie, q.cookie} : Responds(q, after)
    BY <1>6 DEF RejectCallback, ReportError
  <2>2. UNCHANGED <<beganBy, code, tokenFile, told, slipped>>
    BY <1>6 DEF RejectCallback, ReportError
  <2>3. sent' \subseteq SentReq /\ session' \in Cookie /\ Sessions'
    BY <2>1, <2>2, AfterResponse
  <2>4. TokensOk'
    BY <2>2, AfterNothing
  <2> QED
    BY <1>0, <2>2, <2>3, <2>4 DEF DriveInv, DriveTypeOK, TokensOk, Sessions
<1>7. ASSUME NEW q \in sent, ReadDrive(q) PROVE DriveInv'
  <2>1. q.user \in Users
    BY <1>0, <1>7 DEF ReadDrive, OwnRequest
  <2>2. Responds(q, q.cookie) /\ UNCHANGED <<beganBy, code, told>>
    BY <1>7 DEF ReadDrive
  <2>3. sent' \subseteq SentReq /\ session' \in Cookie /\ Sessions'
    BY <2>2, AfterResponse
  <2>4. PICK load \in Loads(tokenFile[q.user]) :
           /\ tokenFile' = [tokenFile EXCEPT ![q.user] = load.file]
           /\ slipped' = IF Smooth(tokenFile[q.user], load) THEN slipped
                         ELSE slipped \cup FlowsOf(tokenFile[q.user])
    BY <1>7 DEF ReadDrive
  <2>5. /\ tokenFile' \in [Users -> TokenFile] /\ slipped' \subseteq Flows
        /\ TokensOk'
    BY <2>1, <2>2, <2>4, AfterLoad
  <2> QED
    BY <1>0, <2>2, <2>3, <2>5 DEF DriveInv, DriveTypeOK, TokensOk, Sessions
<1>8. ASSUME NEW q \in sent, FinalizeAuth(q) PROVE DriveInv'
  <2> DEFINE u == q.cookie.user
             f == q.flow
  <2>1. f \in Flows /\ u \in Users /\ beganBy[f] = u
    BY <1>0, <1>8 DEF FinalizeAuth, OwnRequest, OwnCookie, SameState
  <2>2. Responds(q, NoCookie) /\ UNCHANGED beganBy
    BY <1>8 DEF FinalizeAuth
  <2>3. sent' \subseteq SentReq /\ session' \in Cookie /\ Sessions'
    BY <2>2, AfterResponse
  <2>4. PICK first \in Loads(tokenFile[u]) :
          \/ /\ code' = [code EXCEPT ![f] = "spent"]
             /\ \E disk \in Disk :
                   \E load \in Loads(Saved(first.file, [flow |-> f, fresh |-> TRUE], disk)) :
                      /\ tokenFile' = [tokenFile EXCEPT ![u] = load.file]
                      /\ told' = IF load.up THEN [told EXCEPT ![u] = f] ELSE told
                      /\ slipped' = IF disk = "ok" /\ load.up THEN slipped
                                    ELSE slipped \cup {f}
          \/ /\ tokenFile' = [tokenFile EXCEPT ![u] = first.file]
             /\ slipped' = IF Smooth(tokenFile[u], first) THEN slipped
                           ELSE slipped \cup FlowsOf(tokenFile[u])
             /\ UNCHANGED <<code, told>>
    BY <1>8 DEF FinalizeAuth
  <2> HIDE DEF u, f
  <2>5. CASE /\ tokenFile' = [tokenFile EXCEPT ![u] = first.file]
             /\ slipped' = IF Smooth(tokenFile[u], first) THEN slipped
                           ELSE slipped \cup FlowsOf(tokenFile[u])
             /\ UNCHANGED <<code, told>>
    <3>1. /\ tokenFile' \in [Users -> TokenFile] /\ slipped' \subseteq Flows
          /\ TokensOk'
      BY <2>1, <2>2, <2>5, AfterLoad
    <3> QED
      BY <1>0, <2>2, <2>3, <2>5, <3>1 DEF DriveInv, DriveTypeOK, TokensOk, Sessions
  <2>6. ASSUME NEW disk \in Disk,
               NEW load \in Loads(Saved(first.file, [flow |-> f, fresh |-> TRUE], disk)),
               code' = [code EXCEPT ![f] = "spent"],
               tokenFile' = [tokenFile EXCEPT ![u] = load.file],
               told' = IF load.up THEN [told EXCEPT ![u] = f] ELSE told,
               slipped' = IF disk = "ok" /\ load.up THEN slipped ELSE slipped \cup {f}
        PROVE  DriveInv'
    <3> DEFINE new == [flow |-> f, fresh |-> TRUE]
               written == Saved(first.file, new, disk)
    <3>1. tokenFile[u] \in TokenFile
      BY <1>0, <2>1
    <3>2. /\ first.file \in TokenFile
          /\ first.file.flow \in {tokenFile[u].flow, "broken"}
      BY <3>1, LoadKeepsFlow
    <3>3. new \in TokenFile /\ new.flow = f /\ new.fresh = TRUE
      BY <2>1 DEF TokenFile
    <3>4. /\ written \in TokenFile /\ written \in {first.file, new, Broken}
          /\ disk = "ok" => written = new
      BY <3>2, <3>3, SavedIsOneOf
    <3> HIDE DEF new
    <3>5. load \in Loads(written)
      BY <2>6 DEF new
    <3> HIDE DEF written
    <3>6. /\ load.file \in TokenFile /\ load.up \in BOOLEAN
          /\ load.file.flow \in {written.flow, "broken"}
          /\ written.flow \in Flows /\ written.fresh => load.file = written
      BY <3>4, <3>5, LoadKeepsFlow
    <3>7. written.flow \in {tokenFile[u].flow, f, "broken"}
      BY <3>2, <3>3, <3>4 DEF Broken
    <3>8. load.file.flow \in {tokenFile[u].flow, f, "broken"}
      BY <3>6, <3>7
    <3>9. disk = "ok" => load.file.flow = f
      BY <2>1, <3>3, <3>4, <3>6
    <3>10. \A v \in Users \ {u} : tokenFile'[v] = tokenFile[v] /\ told'[v] = told[v]
      BY <1>0, <2>6
    <3>11. tokenFile'[u] = load.file /\ (load.up => told'[u] = f)
      BY <1>0, <2>1, <2>6
    <3>12. CredentialsAreOwn'
      <4> SUFFICES ASSUME NEW v \in Users, NEW g \in Flows, tokenFile'[v].flow = g
                   PROVE  beganBy[g] = v
        BY <2>2 DEF CredentialsAreOwn, FlowsOf
      <4>1. CASE v # u
        BY <1>0, <3>10, <4>1 DEF CredentialsAreOwn, FlowsOf
      <4>2. CASE v = u
        BY <1>0, <2>1, <3>8, <3>11, <4>2 DEF CredentialsAreOwn, FlowsOf
      <4> QED
        BY <4>1, <4>2
    <3>13. ConnectionsAreAsReported'
      <4> SUFFICES ASSUME NEW v \in Users
                   PROVE  tokenFile'[v].flow = told'[v] \/ \E g \in slipped' : beganBy[g] = v
        BY <2>2 DEF ConnectionsAreAsReported
      <4>1. CASE v # u
        BY <1>0, <2>6, <3>10, <4>1 DEF ConnectionsAreAsReported
      <4>2. CASE v = u /\ disk = "ok" /\ load.up
        BY <3>9, <3>11, <4>2
      <4>3. CASE v = u /\ ~(disk = "ok" /\ load.up)
        BY <2>1, <2>6, <4>3
      <4> QED
        BY <4>1, <4>2, <4>3
    <3>14. /\ tokenFile' \in [Users -> TokenFile]
           /\ told' \in [Users -> Flows \cup {"none"}]
           /\ slipped' \subseteq Flows
           /\ code' \in [Flows -> {"none", "granted", "spent"}]
      BY <1>0, <2>1, <2>6, <3>6
    <3> QED
      BY <1>0, <2>2, <2>3, <3>12, <3>13, <3>14 DEF DriveInv, DriveTypeOK, Sessions
  <2> QED
    BY <2>4, <2>5, <2>6
<1>9. CASE UNCHANGED driveVars
  BY <1>0, <1>9 DEF driveVars, DriveInv, DriveTypeOK, OwnCookie, OwnRequest,
                    CredentialsAreOwn, ConnectionsAreAsReported, FlowsOf
<1> QED
  BY <1>1, <1>2, <1>3, <1>4, <1>5, <1>6, <1>7, <1>8, <1>9 DEF DriveNext

LEMMA DriveHolds == DriveSpec => []DriveInv
BY DriveInitially, DriveStep, PTL DEF DriveSpec

\* Cookies, requests, token files and what users were told keep their types, for any users,
\* flows and faults.
THEOREM DriveTypesCorrect == DriveSpec => []DriveTypeOK
<1>1. DriveInv => DriveTypeOK
  BY DEF DriveInv
<1> QED
  BY DriveHolds, <1>1, PTL

\* A user's token file never holds the tokens of a flow that another user began, for any users
\* and flows in one browser and any order of its requests and responses.
THEOREM CredentialsAreAlwaysOwn == DriveSpec => []CredentialsAreOwn
<1>1. DriveInv => CredentialsAreOwn
  BY DEF DriveInv
<1> QED
  BY DriveHolds, <1>1, PTL

\* What a user was last told and what the user's file connects to differ only after a write, a
\* refresh or a use of the tokens of one of the user's flows failed.
THEOREM ConnectionsAreAlwaysAsReported == DriveSpec => []ConnectionsAreAsReported
<1>1. DriveInv => ConnectionsAreAsReported
  BY DEF DriveInv
<1> QED
  BY DriveHolds, <1>1, PTL

\* Both together, as the run checks them.
THEOREM ConnectionsAreAlwaysSound == DriveSpec => []ConnectionsAreSound
<1>1. CredentialsAreOwn /\ ConnectionsAreAsReported => ConnectionsAreSound
  BY DEF ConnectionsAreSound
<1> QED
  BY CredentialsAreAlwaysOwn, ConnectionsAreAlwaysAsReported, <1>1, PTL

-----------------------------------------------------------------------------
(* Agent.                                                                  *)

-----------------------------------------------------------------------------
(* The newest messages of a sequence.                                      *)

\* Newest(s, n) is s without its first k messages, for some k, and has at most n.
LEMMA NewestIsSuffix ==
    ASSUME NEW S, NEW s \in Seq(S), NEW n \in Nat \ {0}
    PROVE  /\ Newest(s, n) \in Seq(S)
           /\ Len(Newest(s, n)) <= n
           /\ \E k \in Nat : /\ Len(Newest(s, n)) = Len(s) - k
                             /\ \A i \in DOMAIN Newest(s, n) : i + k \in DOMAIN s
                                                               /\ Newest(s, n)[i] = s[i + k]
<1>1. Len(s) \in Nat /\ DOMAIN s = 1..Len(s)
  BY LenProperties
<1>2. CASE Len(s) > n
  <2> DEFINE k == Len(s) - n
  <2>1. k \in Nat /\ k + 1 \in 1..Len(s) + 1 /\ Newest(s, n) = SubSeq(s, k + 1, Len(s))
    BY <1>1, <1>2 DEF Newest
  <2>2. /\ Newest(s, n) \in Seq(S)
        /\ Len(Newest(s, n)) = n
        /\ \A i \in 1..n : Newest(s, n)[i] = s[i + k]
    <3>1. k \in Nat /\ Len(s) \in Nat /\ Len(s) = k + n
      BY <1>1, <1>2
    <3>2. \A i \in k + 1 .. Len(s) : s[i] \in S
      BY <1>1, <3>1
    <3> HIDE DEF k
    <3>3. k + 1 \in Int /\ Len(s) \in Int /\ k + 1 <= Len(s) /\ Len(s) - (k + 1) + 1 = n
      BY <3>1
    <3>4. /\ SubSeq(s, k + 1, Len(s)) \in Seq(S)
          /\ Len(SubSeq(s, k + 1, Len(s))) = n
          /\ \A i \in 1..n : SubSeq(s, k + 1, Len(s))[i] = s[k + 1 + i - 1]
      BY <3>2, <3>3, SubSeqProperties
    <3>5. \A i \in 1..n : k + 1 + i - 1 = i + k
      BY <3>1
    <3> QED
      BY <2>1, <3>4, <3>5
  <2>3. DOMAIN Newest(s, n) = 1..n
    BY <2>2, LenProperties
  <2>4. \A i \in 1..n : i + k \in DOMAIN s
    BY <1>1, <1>2
  <2>5. Len(Newest(s, n)) = Len(s) - k
    BY <1>1, <2>2
  <2>6. Newest(s, n) \in Seq(S) /\ Len(Newest(s, n)) <= n
    BY <2>2
  <2>7. /\ k \in Nat
        /\ Len(Newest(s, n)) = Len(s) - k
        /\ \A i \in DOMAIN Newest(s, n) : i + k \in DOMAIN s /\ Newest(s, n)[i] = s[i + k]
    BY <2>1, <2>2, <2>3, <2>4, <2>5
  <2> HIDE DEF k
  <2> QED
    BY <2>6, <2>7, Zenon
<1>3. CASE ~(Len(s) > n)
  <2>1. Newest(s, n) = s
    BY <1>3 DEF Newest
  <2>2. Len(s) = Len(s) - 0 /\ \A i \in DOMAIN s : i + 0 \in DOMAIN s /\ s[i] = s[i + 0]
    BY <1>1
  <2>3. 0 \in Nat /\ Len(s) <= n
    BY <1>1, <1>3
  <2> QED
    BY <2>1, <2>2, <2>3
<1> QED
  BY <1>2, <1>3

-----------------------------------------------------------------------------
(* Types, and how far a run gets with each choice of tools.                *)

\* A tool is required in the first two requests only, it is up to the model
\* in the first five, and after the sixth the run is over.
Paced(q) ==
    /\ q.pc = "idle" => q.iteration = 0
    /\ q.pc = "loop" => /\ q.choice = "required" => q.iteration <= 1
                        /\ q.choice = "auto" => q.iteration <= 4
                        /\ q.iteration <= 5
    /\ q.iteration <= 6

PaceInv == AgentTypeOK /\ \A r \in Runs : Paced(run[r])

\* The messages of a sequence of messages are messages.
LEMMA MessagesType ==
    ASSUME NEW s \in Seq(Message)
    PROVE  Messages(s) \in SUBSET Message
BY ElementOfSeq, LenProperties DEF Messages

LEMMA PaceInit == AgentInit => PaceInv
BY DEF AgentInit, PaceInv, AgentTypeOK, RunType, RunPcs, Paced, MaxIterations

\* A new value of one run keeps the invariant if it has its type and its pace.
LEMMA PaceOfOne ==
    ASSUME PaceInv, NEW r \in Runs, NEW q \in RunType, Paced(q),
           run' = [run EXCEPT ![r] = q], history' \in Seq(Message)
    PROVE  PaceInv'
BY DEF PaceInv, AgentTypeOK

LEMMA PaceStep == PaceInv /\ [AgentNext]_agentVars => PaceInv'
<1> SUFFICES ASSUME PaceInv, [AgentNext]_agentVars PROVE PaceInv'
  OBVIOUS
<1> USE AgentAssumption
<1>0. history \in Seq(Message) /\ run \in [Runs -> RunType]
  BY DEF PaceInv, AgentTypeOK
<1>1. ASSUME NEW r \in Runs, AskAgent(r) PROVE PaceInv'
  <2>1. PICK big \in BOOLEAN, requires \in IF r \in Searchers THEN BOOLEAN ELSE {FALSE} :
          run' = [run EXCEPT ![r] =
             [run[r] EXCEPT !.pc = "loop", !.big = big, !.requires = requires,
                            !.sent = Messages(Sent(history')),
                            !.choice = IF requires THEN "required" ELSE "auto"]]
    BY <1>1, <1>0 DEF AskAgent
  <2>2. history' \in Seq(Message)
    BY <1>0, <1>1, AppendProperties DEF AskAgent, Message
  <2>3. Messages(Sent(history')) \in SUBSET Message
    BY <2>2, NewestIsSuffix, MessagesType DEF Sent
  <2>4. requires \in BOOLEAN /\ run[r].pc = "idle" /\ run[r] \in RunType /\ Paced(run[r])
    BY <1>0, <1>1 DEF AskAgent, PaceInv
  <2> DEFINE q == [run[r] EXCEPT !.pc = "loop", !.big = big, !.requires = requires,
                                 !.sent = Messages(Sent(history')),
                                 !.choice = IF requires THEN "required" ELSE "auto"]
  <2>5. q \in RunType
    BY <2>3, <2>4 DEF RunType, RunPcs
  <2>6. q.pc = "loop" /\ q.iteration = 0
    BY <2>4 DEF RunType, Paced
  <2>7. Paced(q)
    BY <2>6 DEF Paced
  <2> HIDE DEF q
  <2> QED
    BY <2>1, <2>2, <2>5, <2>7, PaceOfOne DEF q
<1>2. ASSUME NEW r \in Runs, Overflow(r) PROVE PaceInv'
  <2>1. history' \in Seq(Message)
    BY <1>0, <1>2, NewestIsSuffix DEF Overflow
  <2>2. run[r] \in RunType /\ Paced(run[r]) /\ run[r].pc = "loop" /\ run[r].iteration < MaxIterations
    BY <1>0, <1>2 DEF Overflow, MaySend, PaceInv
  <2> DEFINE q == [run[r] EXCEPT !.pc = "overflowed", !.iteration = run[r].iteration + 1]
  <2>a. run[r].iteration \in Nat /\ run[r].iteration <= 5
    BY <2>2 DEF RunType, Paced
  <2>b. run[r].iteration + 1 \in 0..MaxIterations
    BY <2>a DEF MaxIterations
  <2>d. q \in RunType
    BY <2>2, <2>b DEF RunType, RunPcs
  <2>c. q.iteration = run[r].iteration + 1 /\ q.pc = "overflowed"
    BY <2>2 DEF RunType
  <2>3. q \in RunType /\ Paced(q)
    BY <2>2, <2>a, <2>c, <2>d DEF Paced
  <2>4. run' = [run EXCEPT ![r] = q]
    BY <1>0, <1>2 DEF Overflow
  <2> HIDE DEF q
  <2> QED
    BY <2>1, <2>3, <2>4, PaceOfOne
<1>3. ASSUME NEW r \in Runs, CompletionError(r) PROVE PaceInv'
  <2>2. run[r] \in RunType /\ Paced(run[r]) /\ run[r].pc = "loop" /\ run[r].iteration < MaxIterations
    BY <1>0, <1>3 DEF CompletionError, MaySend, PaceInv
  <2> DEFINE q == [run[r] EXCEPT !.iteration = run[r].iteration + 1,
                                 !.pc = IF run[r].choice = "required" THEN "loop" ELSE "failed",
                                 !.choice = "auto"]
  <2>a. run[r].iteration \in Nat /\ run[r].iteration <= 5
    BY <2>2 DEF RunType, Paced
  <2>b. run[r].iteration + 1 \in 0..MaxIterations
    BY <2>a DEF MaxIterations
  <2>d. q \in RunType
    BY <2>2, <2>b DEF RunType, RunPcs
  <2>c. q.iteration = run[r].iteration + 1 /\ q.choice = "auto" /\ (q.pc = "loop" => run[r].choice = "required")
        /\ q.pc # "idle"
    BY <2>2 DEF RunType
  <2>3. q \in RunType /\ Paced(q)
    BY <2>2, <2>a, <2>c, <2>d DEF Paced
  <2>4. run' = [run EXCEPT ![r] = q] /\ history' = history
    BY <1>0, <1>3 DEF CompletionError
  <2> HIDE DEF q
  <2> QED
    BY <1>0, <2>3, <2>4, PaceOfOne
<1>4. ASSUME NEW r \in Runs, CallTool(r) PROVE PaceInv'
  <2>1. PICK finding \in BOOLEAN :
          run' = [run EXCEPT ![r] =
             [run[r] EXCEPT !.iteration = run[r].iteration + 1, !.tooled = TRUE,
                            !.found = run[r].found \/ finding,
                            !.choice = IF Synthesis(run[r].iteration + 1, run[r].found \/ finding)
                                       THEN "none" ELSE "auto"]]
    BY <1>0, <1>4 DEF CallTool
  <2>2. /\ run[r] \in RunType /\ Paced(run[r]) /\ run[r].pc = "loop"
        /\ run[r].iteration < MaxIterations /\ run[r].choice # "none"
    BY <1>0, <1>4 DEF CallTool, MaySend, PaceInv
  <2>3. run[r].iteration \in Nat /\ run[r].iteration <= 4 /\ run[r].found \in BOOLEAN
    BY <2>2 DEF RunType, Paced
  <2>4. run[r].iteration + 1 > 4 => Synthesis(run[r].iteration + 1, run[r].found \/ finding)
    BY <2>3 DEF Synthesis
  <2> DEFINE q == [run[r] EXCEPT !.iteration = run[r].iteration + 1, !.tooled = TRUE,
                                 !.found = run[r].found \/ finding,
                                 !.choice = IF Synthesis(run[r].iteration + 1, run[r].found \/ finding)
                                            THEN "none" ELSE "auto"]
  <2>5. (run[r].found \/ finding) \in BOOLEAN
    BY <2>3
  <2>b. run[r].iteration + 1 \in 0..MaxIterations
    BY <2>3 DEF MaxIterations
  <2>6. q \in RunType
    BY <2>2, <2>b, <2>5 DEF RunType, RunPcs
  <2>7. /\ q.pc = "loop" /\ q.iteration = run[r].iteration + 1
        /\ q.choice \in {"none", "auto"}
        /\ q.choice = "auto" => ~ Synthesis(run[r].iteration + 1, run[r].found \/ finding)
    BY <2>2 DEF RunType
  <2>8. Paced(q)
    BY <2>3, <2>4, <2>7 DEF Paced
  <2>9. history' = history
    BY <1>4 DEF CallTool
  <2> HIDE DEF q
  <2> QED
    BY <1>0, <2>1, <2>6, <2>8, <2>9, PaceOfOne DEF q
<1>5. ASSUME NEW r \in Runs, DemandTool(r) PROVE PaceInv'
  <2>2. run[r] \in RunType /\ Paced(run[r]) /\ run[r].pc = "loop" /\ run[r].iteration = 0
    BY <1>0, <1>5 DEF DemandTool, MaySend, PaceInv
  <2> DEFINE q == [run[r] EXCEPT !.iteration = run[r].iteration + 1, !.choice = "required"]
  <2>a. run[r].iteration \in Nat /\ run[r].iteration <= 5
    BY <2>2 DEF RunType, Paced
  <2>b. run[r].iteration + 1 \in 0..MaxIterations
    BY <2>a DEF MaxIterations
  <2>d. q \in RunType
    BY <2>2, <2>b DEF RunType, RunPcs
  <2>c. q.iteration = run[r].iteration + 1 /\ q.pc = "loop" /\ q.choice = "required"
    BY <2>2 DEF RunType
  <2>3. q \in RunType /\ Paced(q)
    BY <2>2, <2>a, <2>c, <2>d DEF Paced
  <2>4. run' = [run EXCEPT ![r] = q] /\ history' = history
    BY <1>0, <1>5 DEF DemandTool
  <2> HIDE DEF q
  <2> QED
    BY <1>0, <2>3, <2>4, PaceOfOne
<1>6. ASSUME NEW r \in Runs, AnswerRun(r) PROVE PaceInv'
  <2>1. history' \in Seq(Message)
    BY <1>0, <1>6, AppendProperties DEF AnswerRun, Message
  <2>2. run[r] \in RunType /\ Paced(run[r]) /\ run[r].pc = "loop" /\ run[r].iteration < MaxIterations
    BY <1>0, <1>6 DEF AnswerRun, MaySend, PaceInv
  <2> DEFINE q == [run[r] EXCEPT !.pc = "answered", !.iteration = run[r].iteration + 1]
  <2>a. run[r].iteration \in Nat /\ run[r].iteration <= 5
    BY <2>2 DEF RunType, Paced
  <2>b. run[r].iteration + 1 \in 0..MaxIterations
    BY <2>a DEF MaxIterations
  <2>d. q \in RunType
    BY <2>2, <2>b DEF RunType, RunPcs
  <2>c. q.iteration = run[r].iteration + 1 /\ q.pc = "answered"
    BY <2>2 DEF RunType
  <2>3. q \in RunType /\ Paced(q)
    BY <2>2, <2>a, <2>c, <2>d DEF Paced
  <2>4. run' = [run EXCEPT ![r] = q]
    BY <1>0, <1>6 DEF AnswerRun
  <2> HIDE DEF q
  <2> QED
    BY <2>1, <2>3, <2>4, PaceOfOne
<1>7. CASE UNCHANGED agentVars
  BY <1>7 DEF PaceInv, AgentTypeOK, agentVars
<1> QED
  BY <1>1, <1>2, <1>3, <1>4, <1>5, <1>6, <1>7 DEF AgentNext

LEMMA PaceHolds == AgentSpec => []PaceInv
BY PaceInit, PaceStep, PTL DEF AgentSpec

\* The history holds messages and every run has the shape of a run, for any
\* runs (MorphikAgent.run).
THEOREM AgentTypesCorrect == AgentSpec => []AgentTypeOK
<1>1. PaceInv => AgentTypeOK
  BY DEF PaceInv
<1> QED
  BY PaceHolds, <1>1, PTL

\* No run sends more than six requests, although the loop allows ten: the
\* choice of tools runs out first (the loop of MorphikAgent.run).
THEOREM AgentAlwaysStopsBySix == AgentSpec => []AgentStopsBySix
<1>1. PaceInv => AgentStopsBySix
  BY DEF PaceInv, Paced, AgentStopsBySix
<1> QED
  BY PaceHolds, <1>1, PTL

-----------------------------------------------------------------------------
(* The runs that see a question.                                           *)

QuestionOf(r) == [run |-> r, role |-> "user"]

\* The other runs that sent the question of r.
Followers(r) == {s \in Runs \ {r} : QuestionOf(r) \in run[s].sent}

\* As long as the question of r is in the history, it is followed by a
\* message of each run that sent it; those are fewer than a window.
Followed(r) ==
    /\ IsFiniteSet(Followers(r)) /\ Cardinality(Followers(r)) < Window
    /\ \A i \in DOMAIN history :
          history[i] = QuestionOf(r) => Cardinality(Followers(r)) <= Len(history) - i
    /\ run[r].pc = "idle" =>
          Followers(r) = {} /\ \A i \in DOMAIN history : history[i] # QuestionOf(r)

FollowInv == AgentTypeOK /\ \A r \in Runs : Followed(r)

LEMMA FollowInit == AgentInit => FollowInv
<1> SUFFICES ASSUME AgentInit PROVE FollowInv
  OBVIOUS
<1>1. AgentTypeOK
  BY PaceInit DEF PaceInv
<1>2. ASSUME NEW r \in Runs PROVE Followed(r)
  <2>1. Followers(r) = {}
    BY DEF AgentInit, Followers
  <2>2. DOMAIN history = {}
    BY DEF AgentInit
  <2> QED
    BY <2>1, <2>2, FS_EmptySet, AgentAssumption DEF Followed
<1> QED
  BY <1>1, <1>2 DEF FollowInv

\* A step that only drops messages from the front, and lets no run send
\* others, keeps a question followed.
LEMMA FollowedWhenCut ==
    ASSUME NEW r \in Runs, Followed(r), history \in Seq(Message), history' \in Seq(Message),
           Followers(r)' = Followers(r), run'[r].pc = "idle" => run[r].pc = "idle",
           NEW k \in Nat, Len(history') = Len(history) - k,
           \A i \in DOMAIN history' : i + k \in DOMAIN history /\ history'[i] = history[i + k]
    PROVE  Followed(r)'
<1>1. Len(history) \in Nat /\ DOMAIN history' \subseteq Nat
  BY LenProperties
<1>2. Cardinality(Followers(r)) \in Nat
  BY FS_CardinalityType DEF Followed
<1>3. ASSUME NEW i \in DOMAIN history', history'[i] = QuestionOf(r)
      PROVE  Cardinality(Followers(r)) <= Len(history') - i
  <2>1. i + k \in DOMAIN history /\ history[i + k] = QuestionOf(r)
    BY <1>3
  <2>2. Cardinality(Followers(r)) <= Len(history) - (i + k)
    BY <2>1 DEF Followed
  <2> QED
    BY <1>1, <1>2, <2>2
<1>4. QuestionOf(r)' = QuestionOf(r)
  BY DEF QuestionOf
<1> QED
  BY <1>3, <1>4 DEF Followed

\* A step after which every run has sent what it had sent before.
LEMMA SameFollowers ==
    ASSUME NEW r \in Runs, \A s \in Runs : run'[s].sent = run[s].sent
    PROVE  Followers(r)' = Followers(r)
BY DEF Followers, QuestionOf

\* A message that is not the question of r keeps it followed, if it is that
\* of a run that sends the newest messages, or of none.
LEMMA FollowedWhenAppended ==
    ASSUME NEW r \in Runs, Followed(r), history \in Seq(Message), NEW m \in Message,
           m # QuestionOf(r), history' = Append(history, m), NEW s \in Runs,
           run[r].pc = "idle" <=> run'[r].pc = "idle",
           \/ Followers(r)' = Followers(r)
           \/ /\ Followers(r)' = Followers(r) \cup {s}
              /\ \E i \in DOMAIN history : history[i] = QuestionOf(r) /\ Len(history') - i < Window
    PROVE  Followed(r)'
<1> USE AgentAssumption
<1>1. /\ Len(history) \in Nat /\ DOMAIN history = 1..Len(history)
      /\ Len(history') = Len(history) + 1 /\ DOMAIN history' = 1..(Len(history) + 1)
      /\ \A i \in 1..Len(history) : history'[i] = history[i]
      /\ history'[Len(history) + 1] = m
  BY LenProperties, AppendProperties
<1>2. /\ IsFiniteSet(Followers(r)) /\ Cardinality(Followers(r)) \in Nat
      /\ Cardinality(Followers(r)) < Window
  BY FS_CardinalityType DEF Followed
<1>3. QuestionOf(r)' = QuestionOf(r)
  BY DEF QuestionOf
<1>4. /\ IsFiniteSet(Followers(r)') /\ Cardinality(Followers(r)') \in Nat
      /\ Cardinality(Followers(r)') <= Cardinality(Followers(r)) + 1
  <2>1. CASE Followers(r)' = Followers(r)
    BY <1>2, <2>1
  <2>2. CASE Followers(r)' = Followers(r) \cup {s}
    <3>1. /\ IsFiniteSet(Followers(r) \cup {s})
          /\ Cardinality(Followers(r) \cup {s}) =
                IF s \in Followers(r) THEN Cardinality(Followers(r)) ELSE Cardinality(Followers(r)) + 1
      BY <1>2, FS_AddElement
    <3> QED
      BY <1>2, <2>2, <3>1
  <2> QED
    BY <2>1, <2>2
<1>5. \A i \in DOMAIN history' : history'[i] = QuestionOf(r) =>
         i \in 1..Len(history) /\ history[i] = QuestionOf(r)
  BY <1>1
<1>6. \A i \in DOMAIN history' : history'[i] = QuestionOf(r) =>
         Cardinality(Followers(r)') <= Len(history') - i
  <2> SUFFICES ASSUME NEW i \in 1..Len(history), history[i] = QuestionOf(r)
               PROVE  Cardinality(Followers(r)') <= Len(history') - i
    BY <1>5
  <2>1. Cardinality(Followers(r)) <= Len(history) - i
    BY <1>1 DEF Followed
  <2> QED
    BY <1>1, <1>2, <1>4, <2>1
<1>7. Cardinality(Followers(r)') < Window
  <2>1. CASE Followers(r)' = Followers(r)
    BY <1>2, <2>1
  <2>2. CASE \E i \in DOMAIN history : history[i] = QuestionOf(r) /\ Len(history') - i < Window
    <3>1. PICK i \in 1..Len(history) : history[i] = QuestionOf(r) /\ Len(history') - i < Window
      BY <1>1, <2>2
    <3>2. i \in DOMAIN history' /\ history'[i] = QuestionOf(r)
      BY <1>1, <3>1
    <3>3. Cardinality(Followers(r)') <= Len(history') - i
      BY <1>6, <3>2
    <3> QED
      BY <1>1, <1>4, <3>1, <3>3
  <2> QED
    BY <2>1, <2>2
<1>8. run'[r].pc = "idle" => /\ Followers(r)' = {}
                             /\ \A i \in DOMAIN history' : history'[i] # QuestionOf(r)
  <2> SUFFICES ASSUME run[r].pc = "idle" PROVE /\ Followers(r)' = {}
                             /\ \A i \in DOMAIN history' : history'[i] # QuestionOf(r)
    OBVIOUS
  <2>1. Followers(r) = {} /\ \A i \in DOMAIN history : history[i] # QuestionOf(r)
    BY DEF Followed
  <2> QED
    BY <1>1, <1>5, <2>1
<1> QED
  BY <1>3, <1>4, <1>6, <1>7, <1>8 DEF Followed

\* Appending a message when a run that had sent the question sends others.
LEMMA FollowedWhenDropped ==
    ASSUME NEW r \in Runs, Followed(r), history \in Seq(Message), NEW m \in Message,
           m # QuestionOf(r), history' = Append(history, m),
           run[r].pc = "idle" <=> run'[r].pc = "idle",
           Followers(r)' \subseteq Followers(r)
    PROVE  Followed(r)'
<1> USE AgentAssumption
<1>1. /\ Len(history) \in Nat /\ DOMAIN history = 1..Len(history)
      /\ Len(history') = Len(history) + 1 /\ DOMAIN history' = 1..(Len(history) + 1)
      /\ \A i \in 1..Len(history) : history'[i] = history[i]
      /\ history'[Len(history) + 1] = m
  BY LenProperties, AppendProperties
<1>2. /\ IsFiniteSet(Followers(r)) /\ Cardinality(Followers(r)) \in Nat
      /\ Cardinality(Followers(r)) < Window
  BY FS_CardinalityType DEF Followed
<1>3. /\ IsFiniteSet(Followers(r)') /\ Cardinality(Followers(r)') \in Nat
      /\ Cardinality(Followers(r)') <= Cardinality(Followers(r))
  BY <1>2, FS_Subset, FS_CardinalityType
<1>4. QuestionOf(r)' = QuestionOf(r)
  BY DEF QuestionOf
<1>5. \A i \in DOMAIN history' : history'[i] = QuestionOf(r) =>
         i \in 1..Len(history) /\ history[i] = QuestionOf(r)
  BY <1>1
<1>6. \A i \in DOMAIN history' : history'[i] = QuestionOf(r) =>
         Cardinality(Followers(r)') <= Len(history') - i
  <2> SUFFICES ASSUME NEW i \in 1..Len(history), history[i] = QuestionOf(r)
               PROVE  Cardinality(Followers(r)') <= Len(history') - i
    BY <1>5
  <2>1. Cardinality(Followers(r)) <= Len(history) - i
    BY <1>1 DEF Followed
  <2> QED
    BY <1>1, <1>2, <1>3, <2>1
<1>7. run'[r].pc = "idle" => /\ Followers(r)' = {}
                             /\ \A i \in DOMAIN history' : history'[i] # QuestionOf(r)
  BY <1>5 DEF Followed
<1>8. Cardinality(Followers(r)') < Window
  BY <1>2, <1>3
<1> QED
  BY <1>3, <1>4, <1>6, <1>7, <1>8 DEF Followed

LEMMA FollowStep == FollowInv /\ PaceInv' /\ [AgentNext]_agentVars => FollowInv'
<1> SUFFICES ASSUME FollowInv, PaceInv', [AgentNext]_agentVars PROVE FollowInv'
  OBVIOUS
<1> USE AgentAssumption
<1>0. /\ history \in Seq(Message) /\ run \in [Runs -> RunType]
      /\ history' \in Seq(Message) /\ AgentTypeOK'
      /\ \A r \in Runs : Followed(r)
  BY DEF FollowInv, PaceInv, AgentTypeOK
<1> SUFFICES ASSUME NEW r \in Runs PROVE Followed(r)'
  BY <1>0 DEF FollowInv
<1>1. ASSUME NEW t \in Runs, AskAgent(t) PROVE Followed(r)'
  <2>1. /\ run[t].pc = "idle" /\ history' = Append(history, QuestionOf(t))
        /\ run' \in [Runs -> RunType]
        /\ run'[t].pc = "loop" /\ run'[t].sent = Messages(Newest(history', Window))
        /\ \A u \in Runs \ {t} : run'[u] = run[u]
    <3>1. PICK big \in BOOLEAN, requires \in IF t \in Searchers THEN BOOLEAN ELSE {FALSE} :
          run' = [run EXCEPT ![t] =
             [run[t] EXCEPT !.pc = "loop", !.big = big, !.requires = requires,
                            !.sent = Messages(Sent(history')),
                            !.choice = IF requires THEN "required" ELSE "auto"]]
      BY <1>0, <1>1 DEF AskAgent
    <3>2. run[t] \in RunType
      BY <1>0
    <3>3. run'[t] = [run[t] EXCEPT !.pc = "loop", !.big = big, !.requires = requires,
                            !.sent = Messages(Sent(history')),
                            !.choice = IF requires THEN "required" ELSE "auto"]
      BY <1>0, <3>1
    <3>4. run'[t].pc = "loop" /\ run'[t].sent = Messages(Sent(history'))
      BY <3>2, <3>3 DEF RunType
    <3> QED
      BY <1>0, <1>1, <3>1, <3>4 DEF AskAgent, QuestionOf, AgentTypeOK, Sent
  <2>2. CASE t = r
    <3>1. Followers(r) = {} /\ \A i \in DOMAIN history : history[i] # QuestionOf(r)
      BY <1>0, <2>1, <2>2 DEF Followed
    <3>2. Followers(r)' = {}
      BY <2>1, <2>2, <3>1 DEF Followers, QuestionOf
    <3>3. /\ Len(history) \in Nat /\ DOMAIN history = 1..Len(history)
          /\ Len(history') = Len(history) + 1 /\ DOMAIN history' = 1..(Len(history) + 1)
          /\ \A i \in 1..Len(history) : history'[i] = history[i]
      BY <1>0, <2>1, LenProperties, AppendProperties DEF Message, QuestionOf
    <3>4. \A i \in DOMAIN history' : history'[i] = QuestionOf(r) => 0 <= Len(history') - i
      BY <3>3
    <3>5. QuestionOf(r)' = QuestionOf(r)
      BY DEF QuestionOf
    <3> QED
      BY <2>1, <2>2, <3>2, <3>4, <3>5, FS_EmptySet DEF Followed
  <2>3. CASE t # r
    <3>1. QuestionOf(t) \in Message /\ QuestionOf(t) # QuestionOf(r) /\ run'[r] = run[r]
      BY <2>1, <2>3 DEF QuestionOf, Message
    <3>2. CASE QuestionOf(r) \notin run'[t].sent
      <4>1. Followers(r)' = Followers(r) \/ Followers(r)' = Followers(r) \ {t}
        BY <2>1, <3>2 DEF Followers, QuestionOf
      <4>2. Followers(r)' \subseteq Followers(r)
        BY <4>1
      <4> QED
        BY <1>0, <2>1, <2>3, <3>1, <4>2, FollowedWhenDropped
    <3>3. CASE QuestionOf(r) \in run'[t].sent
      <4>1. Followers(r)' = Followers(r) \cup {t}
        BY <2>1, <2>3, <3>3 DEF Followers, QuestionOf
      <4>2. PICK k \in Nat :
               /\ Len(Newest(history', Window)) = Len(history') - k
               /\ \A i \in DOMAIN Newest(history', Window) :
                     i + k \in DOMAIN history' /\ Newest(history', Window)[i] = history'[i + k]
        BY <1>0, NewestIsSuffix
      <4>3. Newest(history', Window) \in Seq(Message) /\ Len(Newest(history', Window)) <= Window
        BY <1>0, NewestIsSuffix
      <4>4. PICK j \in DOMAIN Newest(history', Window) : Newest(history', Window)[j] = QuestionOf(r)
        BY <2>1, <3>3 DEF Messages
      <4>5. j \in Nat \ {0} /\ j + k \in DOMAIN history' /\ history'[j + k] = QuestionOf(r)
        BY <4>2, <4>3, <4>4, LenProperties
      <4>6. /\ Len(history) \in Nat /\ DOMAIN history = 1..Len(history)
            /\ Len(history') = Len(history) + 1 /\ DOMAIN history' = 1..(Len(history) + 1)
            /\ \A i \in 1..Len(history) : history'[i] = history[i]
            /\ history'[Len(history) + 1] = QuestionOf(t)
        BY <1>0, <2>1, <3>1, LenProperties, AppendProperties
      <4>7. j + k \in DOMAIN history /\ history[j + k] = QuestionOf(r)
        BY <3>1, <4>5, <4>6
      <4>8. Len(history') - (j + k) < Window
        BY <4>2, <4>3, <4>5, <4>6, LenProperties
      <4> QED
        BY <1>0, <2>1, <3>1, <4>1, <4>7, <4>8, FollowedWhenAppended
    <3> QED
      BY <3>2, <3>3
  <2> QED
    BY <2>2, <2>3
<1>2. ASSUME NEW t \in Runs, Overflow(t) PROVE Followed(r)'
  <2>1. \A s \in Runs : run'[s].sent = run[s].sent /\ (run'[s].pc = "idle" => run[s].pc = "idle")
    BY <1>0, <1>2 DEF Overflow, RunType
  <2>2. PICK k \in Nat : /\ Len(history') = Len(history) - k
                         /\ \A i \in DOMAIN history' :
                               i + k \in DOMAIN history /\ history'[i] = history[i + k]
    BY <1>0, <1>2, NewestIsSuffix DEF Overflow
  <2> QED
    BY <1>0, <2>1, <2>2, SameFollowers, FollowedWhenCut
<1>3. ASSUME NEW t \in Runs, CompletionError(t) \/ CallTool(t) \/ DemandTool(t) PROVE Followed(r)'
  <2>1. \A s \in Runs : run'[s].sent = run[s].sent /\ (run'[s].pc = "idle" => run[s].pc = "idle")
    <3>1. CASE CompletionError(t)
      BY <1>0, <3>1 DEF CompletionError, RunType
    <3>2. CASE CallTool(t)
      BY <1>0, <3>2 DEF CallTool, MaySend, RunType
    <3>3. CASE DemandTool(t)
      BY <1>0, <3>3 DEF DemandTool, RunType
    <3> QED
      BY <1>3, <3>1, <3>2, <3>3
  <2>2. history' = history
    BY <1>3 DEF CompletionError, CallTool, DemandTool
  <2>3. QuestionOf(r)' = QuestionOf(r)
    BY DEF QuestionOf
  <2> QED
    BY <1>0, <2>1, <2>2, <2>3, SameFollowers DEF Followed
<1>4. ASSUME NEW t \in Runs, AnswerRun(t) PROVE Followed(r)'
  <2>1. \A s \in Runs : run'[s].sent = run[s].sent /\ (run'[s].pc = "idle" <=> run[s].pc = "idle")
    BY <1>0, <1>4 DEF AnswerRun, MaySend, RunType
  <2> DEFINE m == [run |-> t, role |-> "assistant"]
  <2>2. m \in Message /\ m # QuestionOf(r) /\ history' = Append(history, m)
    BY <1>4 DEF AnswerRun, Message, QuestionOf
  <2> QED
    BY <1>0, <2>1, <2>2, SameFollowers, FollowedWhenAppended
<1>5. CASE UNCHANGED agentVars
  <2>1. Followers(r)' = Followers(r) /\ QuestionOf(r)' = QuestionOf(r)
    BY <1>5 DEF agentVars, Followers, QuestionOf
  <2> QED
    BY <1>0, <1>5, <2>1 DEF agentVars, Followed
<1> QED
  BY <1>1, <1>2, <1>3, <1>4, <1>5 DEF AgentNext

LEMMA FollowHolds == AgentSpec => []FollowInv
BY FollowInit, FollowStep, PaceHolds, PTL DEF AgentSpec

\* A question too long for the model fails fewer other runs than the window
\* holds messages, for any runs, any window and whatever an overflow keeps
\* (history_window in MorphikAgent.run).
THEOREM OversizedAlwaysFades == AgentSpec => []OversizedFades
<1>1. FollowInv => OversizedFades
  <2> SUFFICES ASSUME FollowInv, NEW r \in Runs
               PROVE  Cardinality({s \in Runs \ {r} : run[s].pc = "overflowed" /\ run[r].big
                                        /\ [run |-> r, role |-> "user"] \in run[s].sent}) < Window
    BY DEF OversizedFades
  <2> DEFINE T == {s \in Runs \ {r} : run[s].pc = "overflowed" /\ run[r].big
                                        /\ [run |-> r, role |-> "user"] \in run[s].sent}
  <2>1. T \in SUBSET Followers(r)
    BY DEF Followers, QuestionOf
  <2>2. IsFiniteSet(Followers(r)) /\ Cardinality(Followers(r)) < Window
    BY DEF FollowInv, Followed
  <2> HIDE DEF T
  <2>3. Cardinality(T) <= Cardinality(Followers(r)) /\ IsFiniteSet(T)
    BY <2>1, <2>2, FS_Subset
  <2>4. Cardinality(T) \in Nat /\ Cardinality(Followers(r)) \in Nat
    BY <2>2, <2>3, FS_CardinalityType
  <2>5. Cardinality(T) < Window
    BY <2>2, <2>3, <2>4, AgentAssumption
  <2> QED
    BY <2>5 DEF T
<1> QED
  BY FollowHolds, <1>1, PTL

\* Both together, as the run checks them.
THEOREM AgentAlwaysRecovers == AgentSpec => []AgentRecovers
<1>1. AgentStopsBySix /\ OversizedFades => AgentRecovers
  BY DEF AgentRecovers
<1> QED
  BY AgentAlwaysStopsBySix, OversizedAlwaysFades, <1>1, PTL

-----------------------------------------------------------------------------
(* Services: one part at a time.                                           *)

\* A step of Services is a step of the part that moves and none of any other.
LEMMA OnePartMoves ==
    ASSUME Next \/ UNCHANGED <<part, driveVars, retrievalVars, agentVars, startupVars, clientVars,
                               batchVars, cacheVars>>
    PROVE  /\ [DriveNext]_driveVars /\ [RetrievalNext]_retrievalVars
           /\ [AgentNext]_agentVars /\ [StartupNext]_startupVars
           /\ [ClientsNext \/ GraphClientsNext]_clientVars
           /\ [BatchesNext]_batchVars /\ [CachesNext]_cacheVars
BY DEF Next, DrivePart, RetrievalPart, AgentPart, StartupPart, ClientsPart, ClientGraphsPart,
       BatchesPart, CachesPart

\* The behaviours of Services, seen through the variables of a part, are behaviours of
\* that part: what is proved of the parts holds of them beside each other.
THEOREM PartsBehave ==
    Spec => /\ DriveSpec /\ RetrievalSpec /\ AgentSpec /\ StartupSpec
            /\ ClientsSpec /\ BatchesSpec /\ CachesSpec
<1>1. Init => /\ DriveInit /\ RetrievalInit /\ AgentInit /\ StartupInit
              /\ ClientsInit /\ BatchesInit /\ CachesInit
  BY DEF Init
<1>2. [Next]_<<part, driveVars, retrievalVars, agentVars, startupVars, clientVars, batchVars, cacheVars>>
      => /\ [DriveNext]_driveVars /\ [RetrievalNext]_retrievalVars
         /\ [AgentNext]_agentVars /\ [StartupNext]_startupVars
         /\ [ClientsNext \/ GraphClientsNext]_clientVars
         /\ [BatchesNext]_batchVars /\ [CachesNext]_cacheVars
  BY OnePartMoves
<1> QED
  BY <1>1, <1>2, PTL
     DEF Spec, DriveSpec, RetrievalSpec, AgentSpec, StartupSpec, ClientsSpec, BatchesSpec, CachesSpec

\* Every variable of the parts keeps its type, whatever they do and whatever fails.
THEOREM ServicesTypesCorrect == Spec => []TypeOK
<1>1. (/\ DriveTypeOK /\ RetrievalTypeOK /\ AgentTypeOK /\ StartupTypeOK
       /\ ClientsTypeOK /\ BatchesTypeOK /\ CachesTypeOK) => TypeOK
  BY DEF TypeOK
<1> QED
  BY <1>1, PartsBehave, DriveTypesCorrect, RetrievalTypesCorrect, AgentTypesCorrect,
     StartupTypesCorrect, ClientsTypesCorrect, BatchesTypesCorrect, CachesTypesCorrect, PTL

\* All that the parts promise, in the specification that the runs check them in.
THEOREM ServicesKeepTheirPromises ==
    Spec => /\ [](ConnectionsAreSound /\ UndisturbedQueriesAreFull /\ AgentRecovers)
            /\ [](StoresAreWholeAfterStart /\ ChunksSurviveStarts /\ NoStrayWorkers)
            /\ [](ScopesHold /\ BatchesAreAccounted /\ OrderlyCachesAgree)
            /\ NameDeletesTakeTheNamed
BY PartsBehave, ConnectionsAreAlwaysSound, UndisturbedQueriesStayFull, AgentAlwaysRecovers,
   StoresAreAlwaysWholeAfterStart, ChunksAlwaysSurvive, NeverStrayWorkers, ScopesAlwaysHold,
   BatchesAreAlwaysAccounted, OrderlyCachesAlwaysAgree, NameDeletesAlwaysTakeTheNamed, PTL
=============================================================================
