------------------------------- MODULE H3Rules -------------------------------
(***************************************************************************)
(* The rules of HTTP/3 on the order of streams and frames (http3/core/h3,  *)
(* h3run, h3req/reqorder.c, server/h3srv): each as the state it keeps and  *)
(* a step that gives the next state and whether the event was accepted.    *)
(***************************************************************************)
EXTENDS H3Wire

RuleStep(ok, st) == [ok |-> ok, st |-> st]

(***************************************************************************)
(* Streams and the frames they may carry (frame_permit.c, firstframe.c,    *)
(* stream_type.c, critical.c, grease.c).                                   *)
(***************************************************************************)
H3Known == {H3_DATA, H3_HEADERS, H3_CANCEL_PUSH, H3_SETTINGS, H3_PUSH_PROMISE, H3_GOAWAY, H3_MAX_PUSH_ID}
PermitMask(type) ==
  CASE type \in {H3_DATA, H3_HEADERS} -> {"request", "push"}
    [] type = H3_PUSH_PROMISE -> {"request"}
    [] type \in {H3_CANCEL_PUSH, H3_SETTINGS, H3_GOAWAY, H3_MAX_PUSH_ID} -> {"control"}
    [] OTHER -> {"control", "request", "push"}
FrameOnStream(type, kind) == kind \in PermitMask(type)

FirstFrameOk(kind, type) ==
  CASE kind = "control" -> type = H3_SETTINGS
    [] kind = "request" -> type = H3_HEADERS
    [] OTHER -> FALSE

StreamIsCritical(type) == type \in {0, 2, 3}
CriticalCloseError(type) == IF StreamIsCritical(type) THEN 260 ELSE 0

(***************************************************************************)
(* The frames of a request stream: reqstream.c, and the table of           *)
(* reqorder.c, which keeps its state when it refuses.                      *)
(***************************************************************************)
OnHeaders(st) ==
  CASE st = "start" -> RuleStep(TRUE, "headers")
    [] st = "trailers" -> RuleStep(FALSE, st)
    [] OTHER -> RuleStep(TRUE, "trailers")
OnData(st) == IF st \in {"headers", "data"} THEN RuleStep(TRUE, "data") ELSE RuleStep(FALSE, st)
ReqstreamFrame(st, type) ==
  IF type = H3_HEADERS THEN OnHeaders(st) ELSE IF type = H3_DATA THEN OnData(st) ELSE RuleStep(FALSE, st)

NextHeaders == [start |-> "headers", headers |-> "trailers", data |-> "trailers", trailers |-> ""]
NextData == [start |-> "", headers |-> "data", data |-> "data", trailers |-> ""]
OrderAccept(st, type) ==
  LET to == IF type = H3_HEADERS THEN NextHeaders[st] ELSE IF type = H3_DATA THEN NextData[st] ELSE ""
  IN  IF to = "" THEN RuleStep(FALSE, st) ELSE RuleStep(TRUE, to)

(***************************************************************************)
(* control.c: the first error stays.                                       *)
(***************************************************************************)
ControlInit == [open |-> FALSE, settings |-> FALSE, goaway |-> FALSE, limit |-> 0, error |-> "none"]

Fail(c, e) == IF c.error = "none" THEN [c EXCEPT !.error = e] ELSE c

ControlOpen(c) == [(IF c.open THEN Fail(c, "stream_creation") ELSE c) EXCEPT !.open = TRUE]
ControlClosed(c) == Fail(c, "closed_critical")
ControlFrame(c, is_settings) ==
  IF ~c.settings
  THEN IF is_settings THEN [c EXCEPT !.settings = TRUE] ELSE Fail(c, "missing_settings")
  ELSE IF is_settings THEN Fail(c, "frame_unexpected") ELSE c
ControlGoaway(c, id) ==
  IF c.goaway /\ id > c.limit THEN Fail(c, "id") ELSE [c EXCEPT !.goaway = TRUE, !.limit = id]
ControlAcceptRequest(c, id) == c.goaway => id < c.limit

(***************************************************************************)
(* h3run: the same rules one by one, and shutdown.c, goaway_check.c.       *)
(***************************************************************************)
ControlSeen(count) == IF count # 0 THEN RuleStep(FALSE, count) ELSE RuleStep(TRUE, 1)
SettingsFirst(done, type) ==
  IF done \/ type # H3_SETTINGS THEN RuleStep(FALSE, done) ELSE RuleStep(TRUE, TRUE)
GoawayOk(g, id) == IF g.seen /\ id > g.last THEN RuleStep(FALSE, g) ELSE RuleStep(TRUE, [seen |-> TRUE, last |-> id])
ShutdownProcesses(id, limit) == id < limit
ShutdownIdMonotone(prev, next) == next <= prev

(***************************************************************************)
(* server/h3srv: the checks of a peer's control stream, in their order,    *)
(* and what a response waits for.                                          *)
(***************************************************************************)
H3SrvInit == [settings_sent |-> FALSE, peer_control |-> 0, peer_settings |-> FALSE, request_seen |-> FALSE]

PeerControlError(st, type) ==
  IF st.peer_settings /\ type = H3_SETTINGS THEN "frame_unexpected"
  ELSE IF st.peer_control >= 1 THEN "stream_creation"
  ELSE IF type # H3_SETTINGS THEN "missing_settings" ELSE "none"
OnPeerControl(st, type) ==
  LET err == PeerControlError(st, type)
  IN  [err |-> err, st |-> IF err # "none" THEN st
                           ELSE [st EXCEPT !.peer_control = 1, !.peer_settings = TRUE]]

SrvOpenControl(st, cap) ==
  IF ControlStream(cap) = Nothing THEN st ELSE [st EXCEPT !.settings_sent = TRUE]
SrvOnRequest(st, b, scap) ==
  IF RecvGet(b, scap).ok THEN [st EXCEPT !.request_seen = TRUE] ELSE st
MayRespond(st) == st.settings_sent /\ st.request_seen

BuildResponseForMethod(st, cap, id, method, status, body) ==
  IF ~MayRespond(st) THEN Nothing
  ELSE SendResponse(cap, id, status, IF method = Octets("HEAD") THEN <<>> ELSE body)

(***************************************************************************)
(* pseudoheader.c: pseudo-headers once each and before every other field.  *)
(***************************************************************************)
PhInit == [seen |-> {}, saw_regular |-> FALSE, ok |-> TRUE]

PhField(p, name) ==
  LET k == PhClassify(name)
  IN  CASE k = "none" -> [p EXCEPT !.saw_regular = TRUE]
        [] k = "unknown" -> [p EXCEPT !.ok = FALSE]
        [] OTHER -> [p EXCEPT !.ok = @ /\ ~p.saw_regular /\ k \notin p.seen, !.seen = @ \union {k}]

PhRequestOk(p) == p.ok /\ {":method", ":scheme", ":path"} \subseteq p.seen
PhResponseOk(p) == p.ok /\ ":status" \in p.seen

(***************************************************************************)
(* connect.c: CONNECT names an authority and nothing else; the tunnel is   *)
(* relayed only after a 2xx answer to a validated request.                 *)
(***************************************************************************)
ConnectReqOk(r) ==
  /\ r[":method"].ok /\ r[":method"] = [ok |-> TRUE, v |-> Octets("CONNECT")]
  /\ r[":authority"].ok /\ ~r[":scheme"].ok /\ ~r[":path"].ok
ConnectEstablished(status) == status >= 200 /\ status < 300

TunnelValidated(st) == IF st = "req" THEN "validated" ELSE st
TunnelResponse(st, status) ==
  IF st # "validated" THEN st ELSE IF ConnectEstablished(status) THEN "established" ELSE "failed"
TunnelRelay(st) == IF st = "established" THEN "relay" ELSE st
TunnelClose(st) == "closed"

=============================================================================
