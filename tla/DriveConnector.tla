--------------------------- MODULE DriveConnector ---------------------------
(***************************************************************************)
(* Connecting an account to Google Drive (ee/routers/connectors_router.py,  *)
(* ee/services/connectors/google_drive_connector.py).  The flow begins in   *)
(* one request and ends in another, which the provider redirects the        *)
(* browser to.  What ties them is the session, a cookie: a request works    *)
(* on the cookie it was sent with and its response replaces the browser's,  *)
(* so a late response overwrites what a later request stored.  The tokens   *)
(* are a file per user; every request loads it, refreshes it when it has    *)
(* expired, and hides most of what fails on the way.                        *)
(*                                                                         *)
(* One browser, used by all Users in turn.  A flow is named by its OAuth    *)
(* state, and stands for the tokens it leads to.                            *)
(***************************************************************************)
EXTENDS Naturals, FiniteSets

CONSTANTS Users,        \* the users of the browser
          Flows,        \* OAuth flows, by state
          DriveFaults,  \* what may fail: "network", "disk"
          MaxSent       \* how many requests are under way at a time

ASSUME DriveAssumption ==
    /\ DriveFaults \subseteq {"network", "disk"}
    /\ MaxSent \in Nat
    /\ "none" \notin Flows \cup Users /\ "broken" \notin Flows

VARIABLES session,   \* the session cookie of the browser
          beganBy,   \* the user who began a flow
          code,      \* the authorization code the provider gave for a flow
          sent,      \* the requests under way, with the cookie they carry
          tokenFile, \* gdrive_token_<user>.pickle
          told,      \* the flow a user was last told to be connected by
          slipped    \* the flows for which a write, a refresh or a build failed

driveVars == <<session, beganBy, code, sent, tokenFile, told, slipped>>

Cookie    == [state : Flows \cup {"none"}, user : Users \cup {"none"}]
NoCookie  == [state |-> "none", user |-> "none"]
TokenFile == [flow : Flows \cup {"none", "broken"}, fresh : BOOLEAN]
NoFile    == [flow |-> "none", fresh |-> FALSE]
Broken    == [flow |-> "broken", fresh |-> FALSE]
SentReq   == [kind : {"callback", "denied", "other"}, flow : Flows \cup {"none"},
              user : Users \cup {"none"}, cookie : Cookie]

Network == IF "network" \in DriveFaults THEN {TRUE, FALSE} ELSE {TRUE}
Disk    == IF "disk" \in DriveFaults THEN {"ok", "unopened", "cut"} ELSE {"ok"}

\* _save_credentials: a file that cannot be opened stays as it was, one that cannot be
\* written to the end is of no use any more; neither is reported.
Saved(old, new, disk) ==
    CASE disk = "ok" -> new [] disk = "unopened" -> old [] disk = "cut" -> Broken

\* The refresh of an access token: the new one is saved, or Google does not answer.
Refreshed(file) ==
    [file : {Saved(file, [file EXCEPT !.fresh = TRUE], disk) : disk \in Disk}, up : Network]
    \cup (IF "network" \in DriveFaults THEN {[file |-> file, up |-> FALSE]} ELSE {})

\* _load_credentials: what it may make of the file, and whether the service is up.
Loads(file) ==
    IF file.flow \notin Flows THEN {[file |-> file, up |-> FALSE]}
    ELSE IF file.fresh THEN [file : {file}, up : Network]
    ELSE Refreshed(file)

\* Whether the load went without any step failing.
Smooth(file, load) ==
    file.flow \in Flows => load = [file |-> [file EXCEPT !.fresh = TRUE], up |-> TRUE]

FlowsOf(file) == {file.flow} \cap Flows

InitiateAuth(f, u) ==
    /\ beganBy[f] = "none"
    /\ beganBy' = [beganBy EXCEPT ![f] = u]
    /\ session' = [state |-> f, user |-> u]
    /\ \E load \in Loads(tokenFile[u]) :
          /\ tokenFile' = [tokenFile EXCEPT ![u] = load.file]
          /\ slipped' = IF Smooth(tokenFile[u], load) THEN slipped
                        ELSE slipped \cup FlowsOf(tokenFile[u])
    /\ UNCHANGED <<code, sent, told>>

Send(q) == Cardinality(sent) < MaxSent /\ sent' = sent \cup {q}

\* The user consents or not, and the provider redirects the browser to the callback; the
\* callback may be reloaded, and any other request may be sent meanwhile.
Redirect(f) ==
    /\ beganBy[f] # "none"
    /\ code' = [code EXCEPT ![f] = IF @ = "none" THEN "granted" ELSE @]
    /\ Send([kind |-> "callback", flow |-> f, user |-> "none", cookie |-> session])
    /\ UNCHANGED <<session, beganBy, tokenFile, told, slipped>>

Deny(f) ==
    /\ beganBy[f] # "none" /\ code[f] = "none"
    /\ Send([kind |-> "denied", flow |-> f, user |-> "none", cookie |-> session])
    /\ UNCHANGED <<session, beganBy, code, tokenFile, told, slipped>>

ListOrIngest(u) ==
    /\ Send([kind |-> "other", flow |-> "none", user |-> u, cookie |-> session])
    /\ UNCHANGED <<session, beganBy, code, tokenFile, told, slipped>>

\* A response sets the cookie to the session of its request, unless that has always been empty.
Responds(q, after) ==
    /\ sent' = sent \ {q}
    /\ session' = IF q.cookie = NoCookie THEN session ELSE after

\* Variant with a fault: any flow of the session will do.
AnyState(q) == q.cookie.state # "none"

\* The state is that of the flow the session remembers.
SameState(q) == q.cookie.state = q.flow

\* The state, the connector type and the user are popped before they are looked at, and the
\* cookie of the response has lost them whether they were right or not.
RejectCallback(q) ==
    /\ q \in sent /\ q.kind = "callback" /\ ~SameState(q)
    /\ Responds(q, NoCookie)
    /\ UNCHANGED <<beganBy, code, tokenFile, told, slipped>>

\* finalize_auth: the code is exchanged once; the tokens are saved and loaded again, and the
\* answer is whether the load was successful, from whatever file there is.
FinalizeAuth(q) ==
    LET u == q.cookie.user
        f == q.flow
    IN /\ q \in sent /\ q.kind = "callback" /\ SameState(q)
       /\ Responds(q, NoCookie)
       /\ \E first \in Loads(tokenFile[u]) :
             \/ /\ code[f] = "granted"
                /\ code' = [code EXCEPT ![f] = "spent"]
                /\ \E disk \in Disk :
                      LET written == Saved(first.file, [flow |-> f, fresh |-> TRUE], disk)
                      IN \E load \in Loads(written) :
                            /\ tokenFile' = [tokenFile EXCEPT ![u] = load.file]
                            /\ told' = IF load.up THEN [told EXCEPT ![u] = f] ELSE told
                            /\ slipped' = IF disk = "ok" /\ load.up THEN slipped
                                          ELSE slipped \cup {f}
             \/ /\ code[f] = "spent" \/ "network" \in DriveFaults
                /\ tokenFile' = [tokenFile EXCEPT ![u] = first.file]
                /\ slipped' = IF Smooth(tokenFile[u], first) THEN slipped
                              ELSE slipped \cup FlowsOf(tokenFile[u])
                /\ UNCHANGED <<code, told>>
       /\ UNCHANGED beganBy

\* The provider's error is answered before the session is touched.
ReportError(q) ==
    /\ q \in sent /\ q.kind = "denied"
    /\ Responds(q, q.cookie)
    /\ UNCHANGED <<beganBy, code, tokenFile, told, slipped>>

\* list_files, get_file_metadata_by_id and download_file_by_id load the tokens too.
ReadDrive(q) ==
    /\ q \in sent /\ q.kind = "other"
    /\ Responds(q, q.cookie)
    /\ \E load \in Loads(tokenFile[q.user]) :
          /\ tokenFile' = [tokenFile EXCEPT ![q.user] = load.file]
          /\ slipped' = IF Smooth(tokenFile[q.user], load) THEN slipped
                        ELSE slipped \cup FlowsOf(tokenFile[q.user])
    /\ UNCHANGED <<beganBy, code, told>>

\* The file is deleted.
Unlinked(file) == NoFile

\* An OSError is reported as a failure and the file stays.
Disconnect(u) ==
    /\ tokenFile' = [tokenFile EXCEPT ![u] = Unlinked(@)]
    /\ told' = [told EXCEPT ![u] = "none"]
    /\ UNCHANGED <<session, beganBy, code, sent, slipped>>

\* The provider lets the access token of a file expire.
Expire(u) ==
    /\ tokenFile[u].fresh
    /\ tokenFile' = [tokenFile EXCEPT ![u].fresh = FALSE]
    /\ UNCHANGED <<session, beganBy, code, sent, told, slipped>>

DriveInit ==
    /\ session = NoCookie
    /\ beganBy = [f \in Flows |-> "none"]
    /\ code = [f \in Flows |-> "none"]
    /\ sent = {}
    /\ tokenFile = [u \in Users |-> NoFile]
    /\ told = [u \in Users |-> "none"]
    /\ slipped = {}

DriveNext ==
    \/ \E f \in Flows : (\E u \in Users : InitiateAuth(f, u)) \/ Redirect(f) \/ Deny(f)
    \/ \E u \in Users : ListOrIngest(u) \/ Disconnect(u) \/ Expire(u)
    \/ \E q \in sent : RejectCallback(q) \/ FinalizeAuth(q) \/ ReportError(q) \/ ReadDrive(q)

DriveSpec == DriveInit /\ [][DriveNext]_driveVars

-----------------------------------------------------------------------------
DriveTypeOK ==
    /\ session \in Cookie
    /\ beganBy \in [Flows -> Users \cup {"none"}]
    /\ code \in [Flows -> {"none", "granted", "spent"}]
    /\ sent \subseteq SentReq
    /\ tokenFile \in [Users -> TokenFile]
    /\ told \in [Users -> Flows \cup {"none"}]
    /\ slipped \subseteq Flows

\* The tokens in a user's file are those of a flow this user began, although several users and
\* flows share the browser, late responses bring back old cookies and callbacks are reloaded.
CredentialsAreOwn ==
    \A u \in Users : \A f \in FlowsOf(tokenFile[u]) : beganBy[f] = u

\* A user's file holds the tokens of the flow the user was told to be connected by, and none
\* after a disconnection, unless writing, refreshing or using the tokens failed for one of the
\* user's flows: finalize_auth then may report success over an older file, or failure over a
\* file that connects the user all the same.
ConnectionsAreAsReported ==
    \A u \in Users :
        \/ tokenFile[u].flow = told[u]
        \/ \E f \in slipped : beganBy[f] = u

\* Whose account a user's file opens and whether it does are what this user did and was told.
ConnectionsAreSound == CredentialsAreOwn /\ ConnectionsAreAsReported

=============================================================================
