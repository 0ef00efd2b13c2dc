---------------------------- MODULE MCTransport -----------------------------
(***************************************************************************)
(* The parts of the transport that have no state in common and that must   *)
(* end: the streams, the life of a connection, its paths, and the search   *)
(* for the packet size.  unit says which of them a behaviour is of.        *)
(***************************************************************************)
EXTENDS Streams, Lifecycle, Paths

VARIABLE unit

transportVars == <<streamVars, life, path, mtu, unit>>

TransportInit ==
  /\ StreamInit /\ LifeStart /\ PathStart
  /\ \/ unit \in {"streams", "life", "path"} /\ MtuStart(PMTU_BASE)
     \/ unit = "pmtu" /\ \E limit \in PathLimits : MtuStart(limit)

\* A repeated frame that changes nothing is a stuttering step, which the
\* specification allows anyway: leaving it out spares TLC most of the edges.
TransportNext ==
  /\ UNCHANGED unit
  /\ \/ unit = "streams" /\ StreamNext /\ streamVars' # streamVars /\ UNCHANGED <<life, path, mtu>>
     \/ unit = "life" /\ LifeNext /\ UNCHANGED <<streamVars, path, mtu>>
     \/ unit = "path" /\ PathNext /\ UNCHANGED <<streamVars, life, mtu>>
     \/ unit = "pmtu" /\ MtuNext /\ UNCHANGED <<streamVars, life, path>>

\* The streams do not stand still while a frame can be sent, delivered (again,
\* if need be), acknowledged or read.  No order between them is assumed.
StreamProgress ==
  \/ Open
  \/ \E id \in Ids : \/ SendSome(id) \/ Read(id)
                      \/ Acked(id, "ACKED") \/ Acked(id, "RESET_ACKED")
  \/ \E f \in net.frames : TakeCredit(f) \/ TakeStream(f) \/ TakeReset(f)

StreamFairness == WF_streamVars(unit = "streams" /\ StreamProgress)

\* The timers of the two endpoints run.
LifeFairness == \A e \in Ends : WF_life(unit = "life" /\ LifeTicks(e))

\* The sender goes on probing and every probe is acknowledged or declared lost.
MtuFairness ==
  \A k \in 1 .. 2 : /\ WF_mtu(unit = "pmtu" /\ SendProbePacket(k))
                    /\ WF_mtu(unit = "pmtu" /\ (ProbeAcked(k) \/ ProbeLost(k)))

TransportSpec ==
  /\ TransportInit /\ [][TransportNext]_transportVars
  /\ StreamFairness /\ LifeFairness /\ MtuFairness

\* Every stream the application wants to send is opened and ends on both
\* sides: credit and stream limits that are used up are always renewed
\* (credit.c, stream_flow.c, stream_credit.c, streams.c and the tables of
\* stream.c).
EveryStreamEnds == unit = "streams" => AllStreamsEnd

\* The packet-size search ends: a lost size is not probed for ever, and an
\* acknowledgment of another probe is not taken for the one in question
\* (pmtu.c:11-42).
PmtuSearchEnds == unit = "pmtu" => SearchEnds
=============================================================================
