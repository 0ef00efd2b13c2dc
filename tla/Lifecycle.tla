----------------------------- MODULE Lifecycle ------------------------------
(***************************************************************************)
(* The phases of a connection (conn/lifecycle/conn) and its end by close,  *)
(* idle timeout or stateless reset (conn/lifecycle/closelife, idledrive).  *)
(* Time is counted in ticks of the owner's timer.                          *)
(***************************************************************************)
EXTENDS Integers, FiniteSets, Fsm

CONSTANTS
  LocalIdle, PeerIdle,  \* the two max_idle_timeout, 0 for none
  PtoTicks              \* the probe timeout

\* The probe timeout is never below the timer's granularity.
ASSUME LifecycleAssumption ==
  LocalIdle \in Nat /\ PeerIdle \in Nat /\ PtoTicks \in Nat \ {0}

\* 0 is no limit: it loses to any other value.
IdleEffective(local, peer) ==
  IF local = 0 THEN peer
  ELSE IF peer = 0 THEN local
  ELSE IF local < peer THEN local ELSE peer

DrainingPeriod(pto) == 3 * pto

IdleFloor(idle, pto) == IF idle > 3 * pto THEN idle ELSE 3 * pto

-----------------------------------------------------------------------------
(***************************************************************************)
(* quic_conn: the phase and the packet numbers.                            *)
(***************************************************************************)
OpenPhases == {"INITIAL", "HANDSHAKE", "CONFIRMED"}

PhaseRows ==
  {<<"INITIAL", "HS_PROGRESS", "HANDSHAKE">>,
   <<"HANDSHAKE", "HS_CONFIRMED", "CONFIRMED">>,
   <<"CLOSING", "CLOSED", "CLOSED">>, <<"DRAINING", "CLOSED", "CLOSED">>}
  \union {<<p, "CLOSE", "CLOSING">> : p \in OpenPhases}
  \union {<<p, "DRAIN", "DRAINING">> : p \in OpenPhases}

Conn == [phase : OpenPhases \union {"CLOSING", "DRAINING", "CLOSED"}, next_pn : [0 .. 2 -> Nat]]

ConnInit == [phase |-> "INITIAL", next_pn |-> [s \in 0 .. 2 |-> 0]]

ConnStep(c, ev) == [c EXCEPT !.phase = FsmStep(PhaseRows, @, ev)]

AppSpaceAllowed(c, space) == space # 2 \/ c.phase = "CONFIRMED"

NextPn(c, space) == [c EXCEPT !.next_pn[space] = @ + 1]

-----------------------------------------------------------------------------
(***************************************************************************)
(* quic_life: how it ends.                                                 *)
(***************************************************************************)
LifePhases == {"OPEN", "CLOSING", "DRAINING", "CLOSED"}

Life == [phase : LifePhases, idle_ticks : Nat, idle_max : Nat, close_ticks : Nat,
         close_max : Nat, sent_close : BOOLEAN, notified : BOOLEAN]

LifeInit(idle_max, close_max) ==
  [phase |-> "OPEN", idle_ticks |-> 0, idle_max |-> idle_max, close_ticks |-> 0,
   close_max |-> close_max, sent_close |-> FALSE, notified |-> FALSE]

TickOpen(l) ==
  [l EXCEPT !.idle_ticks = @ + 1, !.phase = IF l.idle_ticks + 1 >= l.idle_max THEN "CLOSED" ELSE @]

TickClosing(l) ==
  [l EXCEPT !.close_ticks = @ + 1, !.phase = IF l.close_ticks + 1 >= l.close_max THEN "CLOSED" ELSE @]

\* Mutant: an open connection has no timer running.
LifeTick_NotOpen(l) == IF l.phase \in {"OPEN", "CLOSED"} THEN l ELSE TickClosing(l)

LifeTick(l) ==
  CASE l.phase = "OPEN" -> TickOpen(l)
    [] l.phase = "CLOSED" -> l
    [] OTHER -> TickClosing(l)

\* quic_life_on_recv and quic_life_on_send do the same.
LifeActivity(l) == IF l.phase = "OPEN" THEN [l EXCEPT !.idle_ticks = 0] ELSE l

LifeClose(l) ==
  IF l.phase # "OPEN" THEN l
  ELSE [l EXCEPT !.phase = "CLOSING", !.sent_close = TRUE, !.close_ticks = 0, !.notified = TRUE]

\* Mutant: the peer's close restarts the close timer of a closing endpoint.
LifePeerClose_Restart(l) ==
  IF l.phase = "CLOSED" THEN l
  ELSE [l EXCEPT !.phase = IF @ = "OPEN" THEN "DRAINING" ELSE @, !.close_ticks = 0, !.notified = TRUE]

LifePeerClose(l) ==
  IF l.phase # "OPEN" THEN l
  ELSE [l EXCEPT !.phase = "DRAINING", !.close_ticks = 0, !.notified = TRUE]

LifeReset(l) == [l EXCEPT !.phase = "CLOSED"]

LifeSendKind(l) ==
  CASE l.phase = "OPEN" -> "APPDATA"
    [] l.phase = "CLOSING" -> "CC"
    [] OTHER -> "NONE"

LifeCloseDue(l) == l.close_ticks > 0 /\ l.close_ticks >= l.close_max

(***************************************************************************)
(* The two endpoints of a connection, from the handshake to the end.  The  *)
(* network delays packets and loses them (a packet that is never received  *)
(* is lost); each endpoint has its own timer; one of them may lose its     *)
(* state, and then answers what it is sent with a stateless reset.         *)
(*                                                                         *)
(* An owner keeps quic_conn and quic_life in step.  The table of quic_conn *)
(* has no row from an open phase to CLOSED, so an idle close or a reset is *)
(* a DRAIN followed by CLOSED.                                             *)
(***************************************************************************)

CONSTANT MaxData    \* packets of data each endpoint sends

VARIABLE life

Ends == {"client", "server"}
Peer(e) == IF e = "client" THEN "server" ELSE "client"

LifeStart ==
  life = [end |-> [e \in Ends |->
            [conn |-> ConnInit, gone |-> FALSE, data |-> 0, held |-> 0,
             life |-> LifeInit(IdleFloor(IdleEffective(LocalIdle, PeerIdle), PtoTicks),
                               DrainingPeriod(PtoTicks))]],
          net |-> {}]

LifeOf(e) == life.end[e].life
Up(e) == ~life.end[e].gone

\* quic_conn is told what quic_life is told.
OnClosed(c, l) == IF l.phase = "CLOSED" THEN ConnStep(ConnStep(c, "DRAIN"), "CLOSED") ELSE c

\* The owner's step as the endpoint's own handshake moves; session.c, which has
\* both endpoints in one process, steps the two together.
HsStep(e, ev) ==
  /\ Up(e) /\ FsmAllows(PhaseRows, life.end[e].conn.phase, ev)
  /\ life' = [life EXCEPT !.end[e].conn = ConnStep(@, ev)]

SendAppData(e) ==
  /\ Up(e) /\ LifeSendKind(LifeOf(e)) = "APPDATA"
  /\ life.end[e].data < MaxData
  /\ AppSpaceAllowed(life.end[e].conn, 2)
  /\ life' = [life EXCEPT !.end[e].data = @ + 1, !.end[e].conn = NextPn(@, 2),
                          !.end[e].life = LifeActivity(@), !.net = @ \union {<<Peer(e), "DATA">>}]

\* The number of the CONNECTION_CLOSE is taken before the phase changes.
AppClose(e) ==
  LET space == CASE life.end[e].conn.phase = "INITIAL" -> 0
                 [] life.end[e].conn.phase = "HANDSHAKE" -> 1
                 [] OTHER -> 2
      l == LifeClose(LifeOf(e))
  IN  /\ Up(e) /\ LifeOf(e).phase = "OPEN"
      /\ AppSpaceAllowed(life.end[e].conn, space)
      /\ life' = [life EXCEPT !.end[e].life = l, !.end[e].conn = ConnStep(NextPn(@, space), "CLOSE"),
                              !.net = @ \union {<<Peer(e), "CC">>}]

\* A packet for an endpoint with state.  While closing it is answered with the
\* same CONNECTION_CLOSE again.
Receive(e, kind) ==
  LET l == CASE kind = "DATA"  -> LifeActivity(LifeOf(e))
             [] kind = "CC"    -> LifePeerClose(LifeOf(e))
             [] kind = "RESET" -> LifeReset(LifeOf(e))
      reply == IF LifeSendKind(l) = "CC" /\ kind # "RESET" THEN {<<Peer(e), "CC">>} ELSE {}
  IN  /\ Up(e) /\ <<e, kind>> \in life.net
      /\ life' = [life EXCEPT !.end[e].life = l, !.net = (@ \ {<<e, kind>>}) \union reply,
                    !.end[e].conn = IF kind = "CC" THEN ConnStep(@, "DRAIN") ELSE OnClosed(@, l)]

Answer(e, kind) ==
  /\ ~Up(e) /\ <<e, kind>> \in life.net
  /\ life' = [life EXCEPT !.net = (@ \ {<<e, kind>>}) \union
                (IF kind = "RESET" THEN {} ELSE {<<Peer(e), "RESET">>})]

\* The two endpoints run the same code: the one that crashes is the server.
Crash(e) ==
  /\ e = "server" /\ Up(e) /\ LifeOf(e).phase # "CLOSED"
  /\ life' = [life EXCEPT !.end[e].gone = TRUE]

\* held is history: ticks since the endpoint left OPEN for CLOSING or DRAINING.
LifeTicks(e) ==
  LET l == LifeTick(LifeOf(e))
  IN  /\ Up(e) /\ LifeOf(e).phase # "CLOSED"
      /\ life' = [life EXCEPT !.end[e].life = l, !.end[e].conn = OnClosed(@, l),
                    !.end[e].held = IF LifeOf(e).phase = "OPEN" THEN @ ELSE @ + 1]

LifeNext ==
  \E e \in Ends :
    \/ \E ev \in {"HS_PROGRESS", "HS_CONFIRMED"} : HsStep(e, ev)
    \/ \E kind \in {"DATA", "CC", "RESET"} : Receive(e, kind) \/ Answer(e, kind)
    \/ SendAppData(e) \/ AppClose(e) \/ Crash(e) \/ LifeTicks(e)

LifeSpec == LifeStart /\ [][LifeNext]_life

-----------------------------------------------------------------------------
\* The two records of an endpoint's phase never part, whichever of the close,
\* the peer's close, the idle timer and the reset come first (conn.c:5-18,
\* closelife.c:13-60).
PhasesAgree ==
  \A e \in Ends :
    LET c == life.end[e].conn.phase
        l == LifeOf(e).phase
    IN  IF l = "OPEN" THEN c \in OpenPhases ELSE c = l

\* The closing or draining period is three PTOs from its start and no longer:
\* neither packets nor a second close restart it (closelife.c:19-23, 43-56,
\* termgate.c:17-23).
ClosePeriodExact ==
  \A e \in Ends :
    /\ LifeOf(e).phase \in {"CLOSING", "DRAINING"} =>
         LifeOf(e).close_ticks = life.end[e].held /\ life.end[e].held < DrainingPeriod(PtoTicks)
    /\ LifeCloseDue(LifeOf(e)) => LifeOf(e).phase = "CLOSED"

\* A close is answered by nothing once the peer drains: two endpoints cannot
\* keep a closed connection busy unless both closed it themselves
\* (termgate.c:3-15).
CloseNotAnswered ==
  \A e \in Ends : <<Peer(e), "CC">> \in life.net => LifeOf(e).sent_close

\* Closing, from either end and by whichever cause, keeps its phases, its
\* period and its silence.
ClosingExact == PhasesAgree /\ ClosePeriodExact /\ CloseNotAnswered

\* Once one endpoint closes or loses its state, both are done: by the close,
\* by a reset, or by their own timers when every packet is lost.  The
\* applications send a bounded amount: an endpoint that keeps sending keeps its
\* own idle timer from running out (closelife.c:13-41).
BothEndsFinish ==
  (\E e \in Ends : ~Up(e) \/ LifeOf(e).phase # "OPEN")
    ~> (\A e \in Ends : ~Up(e) \/ LifeOf(e).phase = "CLOSED")
=============================================================================
