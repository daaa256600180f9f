--------------------------- MODULE PayloadCapture ---------------------------
(***************************************************************************)
(* Which requests have their bodies written to request_logs.               *)
(*                                                                         *)
(* Two switches decide: the gateway's payload_capture, which an admin      *)
(* turns while requests run (GatewaySettings), and the organization's      *)
(* capture_payloads, read through its cache (OrgSettings).  Both are asked *)
(* when the request completes; a stream takes its copy of the request when *)
(* it opens, under the gateway's switch alone.  A request outside any      *)
(* organization is logged by the gateway's switch alone.                   *)
(***************************************************************************)
EXTENDS GatewaySettings, OrgSettings

CONSTANTS CapturingDocs   \* the documents under which payload_capture is on

ASSUME CaptureAssumption ==
  /\ CapturingDocs \subseteq Docs
  /\ "payload_capture" \in Place

VARIABLES reqs            \* request -> its progress and its row of request_logs

vars == <<settingsVars, orgVars, reqs>>

Requests == Readers

NoBody == "none"
Body == "body"

NewRequest == [pc |-> "new", stream |-> FALSE, org |-> FALSE, copy |-> NoBody,
               request |-> NoBody, response |-> NoBody, quiet |-> FALSE]

Init ==
  /\ SettingsInit
  /\ OrgInit
  /\ reqs = [r \in Requests |-> NewRequest]

-----------------------------------------------------------------------------
payload_capture_enabled == live["payload_capture"] \in CapturingDocs

\* No PUT is under way and the last one turned the gateway's switch off.
SwitchedOff == InFlight = {} /\ inStep /\ row \notin CapturingDocs

\* The provider has been reached.  A stream keeps the request it was sent.
Begin(r, stream, org) ==
  /\ reqs[r].pc = "new"
  /\ reqs' = [reqs EXCEPT ![r] =
                [@ EXCEPT !.pc = "running", !.stream = stream, !.org = org,
                          !.copy = IF stream /\ payload_capture_enabled
                                   THEN Body ELSE NoBody,
                          !.quiet = SwitchedOff]]
  /\ UNCHANGED <<settingsVars, orgVars>>

LogBodies(r, capture) ==
  reqs' = [reqs EXCEPT ![r] =
             [@ EXCEPT !.pc = "logged",
                       !.request = IF ~capture THEN NoBody
                                   ELSE IF reqs[r].stream THEN reqs[r].copy
                                   ELSE Body,
                       !.response = IF capture THEN Body ELSE NoBody]]

\* should_capture_payload without an organization, or with the switch off.
CompleteByGateway(r) ==
  /\ reqs[r].pc = "running"
  /\ payload_capture_enabled => ~reqs[r].org
  /\ LogBodies(r, payload_capture_enabled)
  /\ UNCHANGED <<settingsVars, orgVars>>

\* Mutant: the organization's switch is enough.
CompleteByOrgAlone(r) ==
  /\ reqs[r].pc = "running"
  /\ reqs[r].org
  /\ Lookup(r)
  /\ IF Fresh
     THEN LogBodies(r, versions[cache[1].ver].capture)
     ELSE reqs' = [reqs EXCEPT ![r].pc = "asking"]
  /\ UNCHANGED settingsVars

\* With one, org_settings is asked: a hit answers at once.
CompleteByOrg(r) ==
  /\ reqs[r].pc = "running"
  /\ payload_capture_enabled /\ reqs[r].org
  /\ Lookup(r)
  /\ IF Fresh
     THEN LogBodies(r, versions[cache[1].ver].capture)
     ELSE reqs' = [reqs EXCEPT ![r].pc = "asking"]
  /\ UNCHANGED settingsVars

FetchOrg(r) == Fetch(r) /\ UNCHANGED <<settingsVars, reqs>>

FetchOrgFails(r) ==
  /\ FetchFails(r)
  /\ LogBodies(r, FALSE)
  /\ UNCHANGED settingsVars

StoreOrg(r) ==
  /\ Store(r)
  /\ LogBodies(r, versions[reads[r].ver].capture)
  /\ UNCHANGED settingsVars

\* A PUT takes a step.  A request is under way in quiet until a PUT that turns
\* the switch on has come in.
ChangeSettings ==
  /\ Putting
  /\ reqs' = [r \in Requests |->
                [reqs[r] EXCEPT !.quiet =
                   @ /\ inStep' /\ \A a \in Admins :
                          puts'[a].pc = "idle" \/ puts'[a].doc \notin CapturingDocs]]
  /\ UNCHANGED orgVars

ChangeOrg == (Changing \/ Tick) /\ UNCHANGED <<settingsVars, reqs>>

\* The process is replaced; the requests it was serving are never logged.
RestartGateway ==
  /\ Restart
  /\ OrgRestart
  /\ reqs' = [r \in Requests |->
                IF reqs[r].pc \in {"running", "asking"}
                THEN [reqs[r] EXCEPT !.pc = "lost"] ELSE reqs[r]]

Next ==
  \/ \E r \in Requests :
       \/ \E stream, org \in BOOLEAN : Begin(r, stream, org)
       \/ CompleteByGateway(r)
       \/ CompleteByOrg(r)
       \/ FetchOrg(r)
       \/ FetchOrgFails(r)
       \/ StoreOrg(r)
  \/ ChangeSettings
  \/ ChangeOrg
  \/ RestartGateway

Spec == Init /\ [][Next]_vars

-----------------------------------------------------------------------------
Logged(r) == reqs[r].pc = "logged"

\* Once a PUT that turned payload capture off has returned, and no other ran
\* beside it, no request that begins afterwards has a body logged, until a PUT
\* that turns it on comes in: the switch that is read when the request ends is
\* the one the row holds.
SwitchedOffLogsNothing ==
  \A r \in Requests :
    Logged(r) /\ reqs[r].quiet => {reqs[r].request, reqs[r].response} = {NoBody}

\* A body of an organization's request is logged only if the organization
\* allowed it less than the TTL and one read-to-store delay before.
OrgSwitchHonoured ==
  \A r \in Requests :
    Logged(r) /\ reqs[r].org /\ Body \in {reqs[r].request, reqs[r].response} =>
      \E n \in DOMAIN versions :
        versions[n].capture /\ reads[r].at < versions[n].until + TTL + MaxDelay
=============================================================================
