------------------------------- MODULE H3Wire -------------------------------
(***************************************************************************)
(* The frames, requests and responses of HTTP/3 (app/http3): what the      *)
(* client and the server put on a stream and what each reads back.         *)
(***************************************************************************)
EXTENDS Frames, QpackWire

H3_DATA == 0
H3_HEADERS == 1
H3_CANCEL_PUSH == 3
H3_SETTINGS == 4
H3_PUSH_PROMISE == 5
H3_GOAWAY == 7
H3_MAX_PUSH_ID == 13
H3_REQUEST_CANCELLED == 268

SettingsMax == 8      \* QUIC_H3_SETTINGS_MAX
FieldCap == 256       \* the field section buffer of send_method
StreamCap == 1500     \* the frame buffer of send_request and send_response
StatusCap == 16       \* the field buffer of put_headers
ValBufCap == 16       \* VALBUF_CAP

(***************************************************************************)
(* frame.c                                                                 *)
(***************************************************************************)
H3FramePut(cap, type, payload) == PutVarints(cap, <<type, Len(payload)>>, payload)

H3FrameGet(b) ==
  LET t == TakeVarints(b, 0, 2)
  IN  IF ~t.ok THEN NoDec
      ELSE IF t.vs[2] > Len(b) - t.off THEN NoDec
      ELSE [n |-> t.off + t.vs[2], type |-> t.vs[1], payload |-> Slice(b, t.off, t.vs[2])]

\* A frame that is one integer; its length must be the integer's.
H3OnePut(cap, type, v) == PutVarints(cap, <<type, VarintLen(v), v>>, <<>>)

H3OneGet(b, type) ==
  LET t == TakeVarints(b, 0, 3)
      head == TakeVarints(b, 0, 2)
  IN  IF ~t.ok THEN NoDec
      ELSE IF t.vs[1] # type \/ t.off - head.off # t.vs[2] THEN NoDec
      ELSE [n |-> t.off, v |-> t.vs[3]]

SumLens(vs) == FoldLeft(LAMBDA s, v : s + VarintLen(v), 0, vs)
SettingsPut(cap, pairs) ==
  LET flat == FlattenSeq(pairs)
  IN  IF Len(pairs) > SettingsMax THEN Nothing
      ELSE PutVarints(cap, <<H3_SETTINGS, SumLens(flat)>> \o flat, <<>>)

RECURSIVE SettingsPairs(_, _)
SettingsPairs(b, pairs) ==      \* b is the rest of the payload
  LET t == TakeVarints(b, 0, 2)
  IN  IF b = <<>> THEN [ok |-> TRUE, pairs |-> pairs]
      ELSE IF Len(pairs) >= SettingsMax \/ ~t.ok THEN NoTake
      ELSE SettingsPairs(Drop(b, t.off), Append(pairs, t.vs))

SettingsGet(b) ==
  LET f == H3FrameGet(b)
      s == SettingsPairs(f.payload, <<>>)
  IN  IF f.n = 0 THEN NoDec
      ELSE IF f.type # H3_SETTINGS THEN NoDec
      ELSE IF ~s.ok THEN NoDec ELSE [n |-> f.n, pairs |-> s.pairs]

(***************************************************************************)
(* h3settings, h3conn/establish.c: the control stream starts with its type *)
(* and SETTINGS.                                                           *)
(***************************************************************************)
SettingsBuild(cap, max_section, max_table, blocked) ==
  SettingsPut(cap, <<<<6, max_section>>, <<1, max_table>>, <<7, blocked>>>>)

ControlStream(cap) ==
  LET pre == PutVarints(cap, <<0>>, <<>>)
  IN  Join(cap, pre, LAMBDA room : SettingsBuild(room, 16384, 0, 0))

PeerSettingsOk(b) ==
  LET t == TakeVarints(b, 0, 1)
      f == H3FrameGet(Drop(b, t.off))
  IN  IF ~t.ok THEN FALSE
      ELSE IF t.vs[1] # 0 \/ f.n = 0 THEN FALSE ELSE f.type = H3_SETTINGS

(***************************************************************************)
(* h3reqenc: a pseudo-header goes out as an index when the static table    *)
(* has its value, else as a literal on the name.  The lookup compares C    *)
(* strings, so a value ends at its first zero octet there.                 *)
(***************************************************************************)
NameIndex(name) ==
  CASE name = ":authority" -> 0 [] name = ":path" -> 1 [] name = ":method" -> 15
    [] name = ":scheme" -> 22 [] name = ":status" -> 24

CStr(v) == LET z == SelectInSeq(v, LAMBDA x : x = 0) IN IF z = 0 THEN v ELSE Slice(v, 0, z - 1)

StaticIndex(name, v) == IF Len(v) >= ValBufCap THEN -1 ELSE StaticFind(name, CStr(v))

PutPseudo(cap, name, v) ==
  LET i == StaticIndex(name, v)
  IN  IF i >= 0 THEN IndexedEncode(cap, i, TRUE)
      ELSE NamrefEncode(cap, NameIndex(name), TRUE, FALSE, v)

RECURSIVE PutFields(_, _, _)
PutFields(cap, out, fields) ==
  LET w == PutPseudo(cap - Len(out), fields[1][1], fields[1][2])
  IN  IF fields = <<>> THEN out
      ELSE IF w = Nothing THEN Nothing ELSE PutFields(cap, out \o w, Tail(fields))

PutSection(cap, fields) ==
  LET pre == PrefixEncode(cap, [ric |-> 0, sign |-> FALSE, delta |-> 0])
  IN  IF pre = Nothing THEN Nothing ELSE PutFields(cap, pre, fields)

EncMethod(cap, method, path, authority) ==
  PutSection(cap, <<<<":method", method>>, <<":scheme", Octets("https")>>,
                    <<":authority", authority>>, <<":path", path>>>>)

EncConnect(cap, authority) ==
  PutSection(cap, <<<<":method", Octets("CONNECT")>>, <<":authority", authority>>>>)

EncHeader(cap, name, value) == LitnameEncode(cap, FALSE, name, value)

(***************************************************************************)
(* reqbuild.c, h3conn/request.c: HEADERS, DATA when there is a body, in    *)
(* one STREAM frame that ends the stream.                                  *)
(***************************************************************************)
AppendBody(cap, out, body) ==
  LET d == H3FramePut(cap - Len(out), H3_DATA, body)
  IN  IF body = <<>> THEN out ELSE IF d = Nothing THEN Nothing ELSE out \o d

ReqBuild(cap, headers, body) ==
  LET h == H3FramePut(cap, H3_HEADERS, headers)
  IN  IF h = Nothing THEN Nothing ELSE AppendBody(cap, h, body)

H3StreamFrame(cap, id, data) ==
  EncStream(cap, [kind |-> "stream", id |-> id, offset |-> 0, fin |-> TRUE, data |-> data])

SendRequest(cap, id, headers, body) ==
  LET h3 == ReqBuild(StreamCap, headers, body)
  IN  IF h3 = Nothing THEN Nothing ELSE H3StreamFrame(cap, id, h3)

SendMethod(cap, id, method, path, authority, body) ==
  LET fs == EncMethod(FieldCap, method, path, authority)
  IN  IF fs = Nothing THEN Nothing ELSE SendRequest(cap, id, fs, body)

(***************************************************************************)
(* request_parse.c: the first HEADERS frame, whatever comes before it, and *)
(* the first DATA frame after it.                                          *)
(***************************************************************************)
RECURSIVE FindFrame(_, _, _)
FindFrame(b, type, none) ==      \* none: the answer at the end of the stream
  LET f == H3FrameGet(b)
  IN  IF b = <<>> THEN none
      ELSE IF f.n = 0 THEN NoTake
      ELSE IF f.type = type THEN [ok |-> TRUE, payload |-> f.payload, rest |-> Drop(b, f.n)]
      ELSE FindFrame(Drop(b, f.n), type, none)

RequestSections(b) ==
  LET s == DecStream(b)
      h == FindFrame(s.f.data, H3_HEADERS, NoTake)
      d == FindFrame(h.rest, H3_DATA, [ok |-> TRUE, payload |-> <<>>, rest |-> <<>>])
  IN  IF s.n = 0 THEN NoTake
      ELSE IF ~h.ok THEN NoTake
      ELSE IF ~d.ok THEN NoTake ELSE [ok |-> TRUE, fs |-> h.payload, body |-> d.payload]

(***************************************************************************)
(* pseudoheader.c: the kind of a name.                                     *)
(***************************************************************************)
KnownPseudo == {":method", ":scheme", ":authority", ":path", ":status"}
RequestPseudo == KnownPseudo \ {":status"}

PhClassify(name) ==
  IF name = <<>> THEN "none"
  ELSE IF name[1] # 58 THEN "none"      \* ':'
  ELSE IF \E k \in KnownPseudo : Octets(k) = name THEN CHOOSE k \in KnownPseudo : Octets(k) = name
  ELSE "unknown"

(***************************************************************************)
(* request_drive.c: the lines of the section, in any of the three forms.   *)
(* Octets that were copied live in the scratch, and a field is a view of   *)
(* them (at, len) until the whole section is read; a borrowed value stays  *)
(* in the static table.  An index is looked up there, dynamic or not.      *)
(***************************************************************************)
Borrowed(v) == [at |-> -1, v |-> v]
ViewOf(at, v) == [at |-> at, v |-> v]

LineIndexed(b) ==
  LET d == IndexedDecode(b)
      e == StaticGet(d.index)
  IN  IF d.n = 0 THEN NoDec
      ELSE IF ~e.ok THEN NoDec
      ELSE [n |-> d.n, name |-> Borrowed(e.name), value |-> Borrowed(e.value), used |-> 0]

LineNamref(b, scap) ==
  LET d == NamrefDecode(b, scap)
      e == StaticGet(d.index)
  IN  IF d.n = 0 THEN NoDec
      ELSE IF ~e.ok THEN NoDec
      ELSE [n |-> d.n, name |-> Borrowed(e.name), value |-> ViewOf(0, d.val), used |-> Len(d.val)]

LineLitname(b, scap) ==
  LET half == scap \div 2
      d == LitnameDecode(b, half, scap - half)
  IN  IF d.n = 0 THEN NoDec
      ELSE [n |-> d.n, name |-> ViewOf(0, d.name), value |-> ViewOf(half, d.val),
            used |-> half + Len(d.val)]

DecodeLine(b, scap) ==
  LET i == LineIndexed(b)
      r == LineNamref(b, scap)
  IN  IF i.n # 0 THEN i ELSE IF r.n # 0 THEN r ELSE LineLitname(b, scap)

\* A pseudo-header of a request goes to its slot, a repeated one over the first.
ClassifyLine(name, value, fields) ==
  LET k == PhClassify(name)
  IN  IF k \in RequestPseudo THEN [fields EXCEPT ![k] = [ok |-> TRUE, view |-> value]] ELSE fields

\* The octets of a view that starts at the scratch cursor used, written.
Written(scr, used, view) ==
  IF view.at < 0 THEN scr
  ELSE LET a == used + view.at
       IN  [i \in DOMAIN scr |-> IF i > a /\ i <= a + Len(view.v) THEN view.v[i - a] ELSE scr[i]]
Moved(view, used) == IF view.at < 0 THEN view ELSE [view EXCEPT !.at = used + @]

RECURSIVE ScanLines(_, _, _, _)
ScanLines(b, scr, used, fields) ==
  LET L == DecodeLine(b, Len(scr) - used)
  IN  IF b = <<>> THEN [ok |-> TRUE, fields |-> fields, scr |-> scr]
      ELSE IF L.n = 0 THEN NoTake
      ELSE ScanLines(Drop(b, L.n), Written(Written(scr, used, L.name), used, L.value),
                     used + L.used, ClassifyLine(L.name.v, Moved(L.value, used), fields))

\* What a field shows once the section is read.
Shown(f, scr) ==
  IF ~f.ok THEN NoTake
  ELSE [ok |-> TRUE, v |-> IF f.view.at < 0 THEN f.view.v ELSE Slice(scr, f.view.at, Len(f.view.v))]

RecvGet(b, scap) ==
  LET s == RequestSections(b)
      pre == PrefixDecode(s.fs)
      l == ScanLines(Drop(s.fs, pre.n), Fill(scap, 0), 0, [k \in RequestPseudo |-> NoTake])
  IN  IF ~s.ok THEN NoTake
      ELSE IF pre.n = 0 THEN NoTake
      ELSE IF ~l.ok THEN NoTake
      ELSE [ok |-> TRUE, fields |-> [k \in RequestPseudo |-> Shown(l.fields[k], l.scr)],
            body |-> s.body]

(***************************************************************************)
(* h3recv/req_frames.c: the form in which nothing may come before HEADERS. *)
(***************************************************************************)
RecvFirstHeaders(b) ==
  LET f == H3FrameGet(b)
  IN  IF f.n = 0 THEN NoTake
      ELSE IF f.type # H3_HEADERS THEN NoTake ELSE [ok |-> TRUE, fs |-> f.payload]

(***************************************************************************)
(* h3resp, h3conn/response.c: the status in three digits, as an index when *)
(* the static table has it.                                                *)
(***************************************************************************)
StatusDigits(status) == <<48 + ((status \div 100) % 10), 48 + ((status \div 10) % 10), 48 + (status % 10)>>

EncodeStatus(cap, status) ==
  LET pre == PrefixEncode(cap, [ric |-> 0, sign |-> FALSE, delta |-> 0])
      i == StaticFind(":status", StatusDigits(status))
  IN  Join(cap, pre, LAMBDA room :
        IF i >= 0 THEN IndexedEncode(room, i, TRUE)
        ELSE NamrefEncode(room, NameIndex(":status"), TRUE, FALSE, StatusDigits(status)))

RespBuild(cap, status, body) ==
  LET field == EncodeStatus(StatusCap, status)
      h == H3FramePut(cap, H3_HEADERS, field)
  IN  IF field = Nothing THEN Nothing
      ELSE IF h = Nothing THEN Nothing ELSE AppendBody(cap, h, body)

SendResponse(cap, id, status, body) ==
  LET h3 == RespBuild(StreamCap, status, body)
  IN  IF h3 = Nothing THEN Nothing ELSE H3StreamFrame(cap, id, h3)

DigitsToStatus(d) == (d[1] - 48) * 100 + (d[2] - 48) * 10 + (d[3] - 48)

DecodeStatus(fs) ==
  LET pre == PrefixDecode(fs)
      rest == Drop(fs, pre.n)
      i == LineIndexed(rest)
      l == NamrefDecode(rest, 8)
  IN  IF pre.n = 0 THEN NoDec
      ELSE IF i.n # 0 THEN [n |-> 1, status |-> DigitsToStatus(i.value.v)]
      ELSE IF l.n = 0 THEN NoDec
      ELSE IF Len(l.val) # 3 THEN NoDec ELSE [n |-> 1, status |-> DigitsToStatus(l.val)]

\* respparse.c: HEADERS, then nothing or DATA.
RespParse(b) ==
  LET h == H3FrameGet(b)
      rest == Drop(b, h.n)
      d == H3FrameGet(rest)
  IN  IF h.n = 0 THEN NoTake
      ELSE IF h.type # H3_HEADERS THEN NoTake
      ELSE IF rest = <<>> THEN [ok |-> TRUE, headers |-> h.payload, body |-> <<>>]
      ELSE IF d.n = 0 THEN NoTake
      ELSE IF d.type # H3_DATA THEN NoTake
      ELSE [ok |-> TRUE, headers |-> h.payload, body |-> d.payload]

RecvResponse(b) ==
  LET s == DecStream(b)
      r == RespParse(s.f.data)
      st == DecodeStatus(r.headers)
  IN  IF s.n = 0 THEN NoTake
      ELSE IF ~r.ok THEN NoTake
      ELSE IF st.n = 0 THEN NoTake ELSE [ok |-> TRUE, status |-> st.status, body |-> r.body]

(***************************************************************************)
(* h3cancel/cancel.c: both halves of the stream are given up.              *)
(***************************************************************************)
CancelRequest(cap, id, size) ==
  Join(cap, EncReset(cap, [id |-> id, code |-> H3_REQUEST_CANCELLED, size |-> size]),
       LAMBDA room : EncStopSending(room, [id |-> id, code |-> H3_REQUEST_CANCELLED]))
=============================================================================
