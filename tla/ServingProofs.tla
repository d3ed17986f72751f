---------------------------- MODULE ServingProofs ----------------------------
(***************************************************************************)
(* A proxy that serves: the gate its requests pass, the socket path it     *)
(* listens on and its life from bind to return.                            *)
(*                                                                         *)
(* SiblingGate.  That a waiter's flight is the current one is not          *)
(* inductive alone: the deferred release of a request must not delete a    *)
(* successor's flight, which needs that the flight in the map belongs to a *)
(* request that is still upstream and leads.                               *)
(*                                                                         *)
(* SocketPath.  As long as no start overlaps another start or a stop, at   *)
(* most one process is inside listenUnix, and what it learnt at one system *)
(* call still holds at the next: nobody else binds, removes or begins to   *)
(* listen in between.  That is the inductive invariant.                    *)
(*                                                                         *)
(* Lifecycle.  The map of unused connections holds connections without a   *)
(* turn only, so what shutdown copies out of it and the turns in progress  *)
(* at that moment are apart, and stay so while the copy is worked through. *)
(***************************************************************************)
EXTENDS SiblingGate, SocketPath, Lifecycle, TLAPS

GateInv == TypeOK /\ FlightHasLeader /\ NobodyWaitsOnTheGone

\* prune only removes entries, so the table keeps its type.
LEMMA PruneType ==
  ASSUME NEW w \in [Prefix -> Absent..Window]
  PROVE  prune(w) \subseteq [Prefix -> Absent..Window]
<1>1. \A gone, more : Without(Without(w, gone), more) \in [Prefix -> Absent..Window]
  BY GateAssumption DEF Without, Absent
<1>2. ASSUME NEW x \in prune(w) PROVE x \in [Prefix -> Absent..Window]
  <2>1. CASE Cardinality(Known(w)) <= MaxWarm
    BY <1>2, <2>1 DEF prune
  <2>2. CASE ~(Cardinality(Known(w)) <= MaxWarm)
    <3>1. \E gone, more : x = Without(Without(w, gone), more)
      BY <1>2, <2>2, Zenon DEF prune
    <3> QED BY <1>1, <3>1
  <2> QED BY <2>1, <2>2
<1> QED BY <1>2

\* The gate starts empty.
LEMMA InitInv == Init => GateInv
<1> SUFFICES ASSUME Init PROVE GateInv
  OBVIOUS
<1>1. TypeOK
  <2>1. warm \in [Prefix -> Absent..Window]
    BY GateAssumption DEF Init, Absent
  <2> QED BY <2>1, GateAssumption DEF Init, TypeOK, Phases
<1>2. FlightHasLeader /\ NobodyWaitsOnTheGone
  BY DEF Init, FlightHasLeader, NobodyWaitsOnTheGone
<1> QED BY <1>1, <1>2 DEF GateInv

\* Marking a prefix warm and pruning keep the table's type.
LEMMA MarkedType ==
  ASSUME TypeOK, NEW r \in Req
  PROVE  prune([warm EXCEPT ![prefix[r]] = 0]) \subseteq [Prefix -> Absent..Window]
<1>1. [warm EXCEPT ![prefix[r]] = 0] \in [Prefix -> Absent..Window]
  BY GateAssumption DEF TypeOK, Absent
<1> QED BY <1>1, PruneType

\* One step of any request, or of the clock, keeps the invariant.
LEMMA StepInv == GateInv /\ [Next]_vars => GateInv'
<1> SUFFICES ASSUME GateInv, [Next]_vars PROVE GateInv'
  OBVIOUS
<1> USE GateAssumption DEF GateInv
<1>1. ASSUME NEW r \in Req, NEW p \in Prefix, Arrive(r, p) PROVE GateInv'
  <2>1. TypeOK'
    BY <1>1 DEF Arrive, TypeOK, Phases
  <2>2. FlightHasLeader'
    BY <1>1 DEF Arrive, TypeOK, FlightHasLeader
  <2>3. NobodyWaitsOnTheGone'
    BY <1>1 DEF Arrive, TypeOK, NobodyWaitsOnTheGone
  <2> QED BY <2>1, <2>2, <2>3
<1>2. ASSUME NEW r \in Req, PassStraight(r) PROVE GateInv'
  <2>1. TypeOK'
    BY <1>2 DEF PassStraight, TypeOK, Phases
  <2>2. FlightHasLeader'
    BY <1>2 DEF PassStraight, TypeOK, FlightHasLeader
  <2>3. NobodyWaitsOnTheGone'
    BY <1>2 DEF PassStraight, TypeOK, NobodyWaitsOnTheGone
  <2> QED BY <2>1, <2>2, <2>3
<1>3. ASSUME NEW r \in Req, Lead(r) PROVE GateInv'
  <2>1. TypeOK'
    BY <1>3 DEF Lead, TypeOK, Phases
  <2>2. FlightHasLeader'
    BY <1>3 DEF Lead, MustAsk, TypeOK, FlightHasLeader
  <2>3. NobodyWaitsOnTheGone'
    BY <1>3 DEF Lead, MustAsk, TypeOK, NobodyWaitsOnTheGone
  <2> QED BY <2>1, <2>2, <2>3
<1>4. ASSUME NEW r \in Req, Hold(r) PROVE GateInv'
  <2>1. TypeOK'
    BY <1>4 DEF Hold, TypeOK, Phases
  <2>2. FlightHasLeader'
    BY <1>4 DEF Hold, MustAsk, TypeOK, FlightHasLeader
  <2>3. NobodyWaitsOnTheGone'
    BY <1>4 DEF Hold, MustAsk, TypeOK, NobodyWaitsOnTheGone
  <2> QED BY <2>1, <2>2, <2>3
<1>5. ASSUME NEW r \in Req, Wake(r) \/ GiveUp(r) PROVE GateInv'
  <2>1. TypeOK'
    BY <1>5 DEF Wake, GiveUp, TypeOK, Phases
  <2>2. FlightHasLeader'
    BY <1>5 DEF Wake, GiveUp, TypeOK, FlightHasLeader
  <2>3. NobodyWaitsOnTheGone'
    BY <1>5 DEF Wake, GiveUp, TypeOK, NobodyWaitsOnTheGone
  <2> QED BY <2>1, <2>2, <2>3
<1>6. ASSUME NEW r \in Req, HeadersOK(r) PROVE GateInv'
  <2>1. TypeOK'
    BY <1>6, MarkedType DEF HeadersOK, began, closeFlight, WaitingOn, TypeOK, Phases
  <2>2. FlightHasLeader'
    BY <1>6 DEF HeadersOK, began, TypeOK, FlightHasLeader
  <2>3. NobodyWaitsOnTheGone'
    BY <1>6 DEF HeadersOK, began, closeFlight, WaitingOn, TypeOK,
                NobodyWaitsOnTheGone
  <2> QED BY <2>1, <2>2, <2>3
<1>7. ASSUME NEW r \in Req, HeadersFailed(r) PROVE GateInv'
  <2>1. TypeOK'
    BY <1>7 DEF HeadersFailed, Release, finish, closeFlight, WaitingOn, TypeOK, Phases
  <2>2. FlightHasLeader'
    BY <1>7 DEF HeadersFailed, Release, finish, TypeOK, FlightHasLeader
  <2>3. NobodyWaitsOnTheGone'
    BY <1>7 DEF HeadersFailed, Release, finish, closeFlight, WaitingOn, TypeOK,
                NobodyWaitsOnTheGone
  <2> QED BY <2>1, <2>2, <2>3
<1>8. ASSUME NEW r \in Req, End(r) PROVE GateInv'
  <2>1. TypeOK'
    BY <1>8 DEF End, Release, finish, closeFlight, WaitingOn, TypeOK, Phases
  <2>2. FlightHasLeader'
    BY <1>8 DEF End, Release, finish, TypeOK, FlightHasLeader
  <2>3. NobodyWaitsOnTheGone'
    BY <1>8 DEF End, Release, finish, closeFlight, WaitingOn, TypeOK,
                NobodyWaitsOnTheGone
  <2> QED BY <2>1, <2>2, <2>3
<1>9. CASE Tick
  <2>1. TypeOK'
    BY <1>9 DEF Tick, TypeOK, Absent
  <2>2. FlightHasLeader' /\ NobodyWaitsOnTheGone'
    BY <1>9 DEF Tick, FlightHasLeader, NobodyWaitsOnTheGone
  <2> QED BY <2>1, <2>2
<1>10. CASE UNCHANGED vars
  BY <1>10 DEF vars, TypeOK, FlightHasLeader, NobodyWaitsOnTheGone
<1> QED
  BY <1>1, <1>2, <1>3, <1>4, <1>5, <1>6, <1>7, <1>8, <1>9, <1>10
     DEF Next, Enter

\* For any number of requests and prefixes, the flight in the gate's map belongs
\* to a request that is upstream with no response begun.
THEOREM FlightAlwaysLed == Spec => []FlightHasLeader
<1>1. GateInv => FlightHasLeader
  BY DEF GateInv
<1> QED BY <1>1, InitInv, StepInv, PTL DEF Spec

\* For any number of requests and prefixes, a request asleep at the gate sleeps
\* on the flight its prefix has now: no removal of a flight loses a wakeup.
THEOREM NoLostWakeup == Spec => []NobodyWaitsOnTheGone
<1>1. GateInv => NobodyWaitsOnTheGone
  BY DEF GateInv
<1> QED BY <1>1, InitInv, StepInv, PTL DEF Spec

\* Both together: whoever sleeps at the gate sleeps on a flight that a request
\* still upstream will end (enter, began and finish).
THEOREM GateIsAlwaysSound == Spec => []GateIsSound
<1>1. GateInv => GateIsSound
  BY DEF GateInv, GateIsSound
<1> QED BY <1>1, InitInv, StepInv, PTL DEF Spec

-----------------------------------------------------------------------------
\* What the process inside listenUnix knows at each of its calls.
Knows(p) ==
    /\ step[p] = "dial" => sock \in Proc
    /\ step[p] = "remove" => sock \in Proc /\ sock \notin listening
    /\ step[p] = "bind" => sock = Free
    /\ step[p] = "listen" => sock = p
    /\ step[p] = "chmod" => sock = p /\ p \in listening
    /\ step[p] = "serving" => sock = p /\ p \in listening /\ narrow
    /\ step[p] = "refused" => p \in excused

Undisturbed ==
    ~overlap =>
        /\ \A p, q \in Inside : p = q
        /\ \A p \in Proc : Knows(p)

SocketInv == SocketTypeOK /\ Undisturbed

\* The names of an unbound path are not those of processes.
NamesApart == Free \notin Proc /\ Foreign \notin Proc

\* No process runs when the first is started.
LEMMA SocketInitInv == SocketInit => SocketInv
  BY DEF SocketInit, SocketInv, SocketTypeOK, Undisturbed, Knows, Inside

\* One system call of one process keeps the invariant.
LEMMA SocketStepInv ==
  ASSUME NamesApart, SocketInv, [SocketNext]_socketVars
  PROVE  SocketInv'
<1> USE DEF SocketInv, SocketTypeOK, Undisturbed, Knows, Inside, Goto, Refuse, NamesApart, Free, Foreign
<1>1. ASSUME NEW p \in Proc, Lstat(p) PROVE SocketInv'
  <2>1. CASE sock = Foreign
    <3>1. step' = [step EXCEPT ![p] = "refused"] /\ excused' = excused \cup {p}
      BY <1>1, <2>1 DEF Lstat
    <3>2. UNCHANGED <<sock, listening, narrow, overlap>>
      BY <1>1, <2>1 DEF Lstat
    <3> QED BY <1>1, <2>1, <3>1, <3>2
  <2>2. CASE ~(sock = Foreign)
    <3>1. /\ step[p] = "off"
          /\ step' = [step EXCEPT ![p] = IF sock = Free THEN "bind" ELSE "dial"]
          /\ overlap' = (overlap \/ Inside # {})
          /\ UNCHANGED <<sock, listening, narrow, excused>>
      BY <1>1, <2>2 DEF Lstat
    <3>2. SocketTypeOK'
      BY <3>1
    <3>3. ASSUME ~overlap' PROVE ~overlap /\ Inside = {} /\ Inside' = {p}
      BY <3>1, <3>3
    <3>4. ASSUME ~overlap', NEW q \in Proc PROVE Knows(q)'
      BY <2>2, <3>1, <3>3, <3>4
    <3> QED BY <3>2, <3>3, <3>4 DEF Undisturbed
  <2> QED BY <2>1, <2>2
<1>2. ASSUME NEW p \in Proc, Dial(p) PROVE SocketInv'
  BY <1>2 DEF Dial
<1>3. ASSUME NEW p \in Proc, Remove(p) PROVE SocketInv'
  <2>1. CASE sock = Free
    <3>1. step' = [step EXCEPT ![p] = "refused"] /\ excused' = excused \ {p}
      BY <1>3, <2>1 DEF Remove
    <3>2. UNCHANGED <<sock, listening, narrow, overlap>>
      BY <1>3, <2>1 DEF Remove
    <3>3. overlap
      BY <1>3, <2>1 DEF Remove
    <3> QED BY <3>1, <3>2, <3>3
  <2>2. CASE ~(sock = Free)
    <3>1. /\ step[p] = "remove" /\ step' = [step EXCEPT ![p] = "bind"]
          /\ sock' = Free /\ narrow' = FALSE
          /\ UNCHANGED <<listening, overlap, excused>>
      BY <1>3, <2>2 DEF Remove
    <3>2. SocketTypeOK'
      BY <3>1
    <3>3. Inside' = Inside
      BY <3>1
    <3>4. ASSUME ~overlap', NEW q \in Proc PROVE Knows(q)'
      BY <3>1, <3>4
    <3>5. Undisturbed'
      BY <3>1, <3>3, <3>4 DEF Undisturbed
    <3> QED BY <3>2, <3>5 DEF SocketInv
  <2> QED BY <2>1, <2>2
<1>4. ASSUME NEW p \in Proc, BindPath(p) PROVE SocketInv'
  <2>1. CASE sock # Free
    <3>1. step' = [step EXCEPT ![p] = "refused"] /\ excused' = excused \ {p}
      BY <1>4, <2>1 DEF BindPath
    <3>2. UNCHANGED <<sock, listening, narrow, overlap>>
      BY <1>4, <2>1 DEF BindPath
    <3>3. overlap
      BY <1>4, <2>1 DEF BindPath
    <3> QED BY <3>1, <3>2, <3>3
  <2>2. CASE ~(sock # Free)
    <3>1. /\ step[p] = "bind" /\ step' = [step EXCEPT ![p] = "listen"]
          /\ sock' = p /\ narrow' = FALSE
          /\ UNCHANGED <<listening, overlap, excused>>
      BY <1>4, <2>2 DEF BindPath
    <3>2. SocketTypeOK'
      BY <3>1
    <3>3. Inside' = Inside
      BY <3>1
    <3>4. ASSUME ~overlap', NEW q \in Proc PROVE Knows(q)'
      BY <2>2, <3>1, <3>4
    <3>5. Undisturbed'
      BY <3>1, <3>3, <3>4 DEF Undisturbed
    <3> QED BY <3>2, <3>5 DEF SocketInv
  <2> QED BY <2>1, <2>2
<1>5. ASSUME NEW p \in Proc, Listen(p) PROVE SocketInv'
  BY <1>5 DEF Listen
<1>6. ASSUME NEW p \in Proc, Chmod(p) PROVE SocketInv'
  BY <1>6 DEF Chmod
<1>7. ASSUME NEW p \in Proc, Stop(p) PROVE SocketInv'
  BY <1>7 DEF Stop
<1>8. ASSUME NEW p \in Proc, Kill(p) PROVE SocketInv'
  BY <1>8 DEF Kill
<1>9. ASSUME NEW p \in Proc, Exit(p) PROVE SocketInv'
  BY <1>9 DEF Exit
<1>10. CASE UNCHANGED socketVars
  BY <1>10 DEF socketVars
<1> QED BY <1>1, <1>2, <1>3, <1>4, <1>5, <1>6, <1>7, <1>8, <1>9, <1>10 DEF SocketNext

\* For any number of processes, whatever is killed: as long as no start overlaps
\* another start or a stop, a proxy that serves is the one its clients reach,
\* and a start is refused only for a reason (listenUnix, clearSocketPath).
THEOREM SocketAlwaysServed ==
  ASSUME NamesApart
  PROVE  SocketSpec => []SocketIsServed
<1>1. SocketInv => SocketIsServed
  BY DEF SocketInv, Undisturbed, Knows, SocketIsServed
<1>2. SocketInv /\ [SocketNext]_socketVars => SocketInv'
  BY SocketStepInv
<1> QED BY <1>1, <1>2, SocketInitInv, PTL DEF SocketSpec

-----------------------------------------------------------------------------
(* ListenAndServe and shutdown. *)

\* Before shutdown begins nothing has been closed and nothing set aside.
NotStoppedYet ==
    main \in {"bind", "bindMetrics", "select"} =>
        /\ doomed = {} /\ early = {} /\ cut = {}
        /\ accepting # "closed" /\ result = "running"

\* The accept loop is closed by Shutdown alone.
ClosedLate == accepting = "closed" => main \in {"drain", "returned"}

\* A value received from the metrics goroutine is received once.
ReceivedOnce == main # "returned" /\ result # "running" => metrics = "off"

LifeInv ==
    /\ StopIsOrderly /\ NotStoppedYet /\ ClosedLate /\ ReceivedOnce
    /\ \A c \in idleConns : conn[c] = "new"
    /\ doomed \cap early = {}

\* Nothing is bound yet.
LEMMA LifeInitInv == LifeInit => LifeInv
  BY LifeAssumption DEF LifeInit, LifeInv, StopIsOrderly, LifeTypeOK, GraceHonoured,
     StopIsComplete, NotStoppedYet, ClosedLate, ReceivedOnce, Stopping

\* A step of ListenAndServe, a goroutine or a client keeps the invariant.
LEMMA LifeStepInv ==
  ASSUME LifeInv, [LifeNext]_lifecycleVars
  PROVE  LifeInv'
<1> USE DEF LifeInv, StopIsOrderly, LifeTypeOK, GraceHonoured, StopIsComplete, NotStoppedYet,
            ClosedLate, ReceivedOnce, Stopping, Return, Open
<1>1. CASE Bind \/ BindFails \/ BindMetricsFails
  BY <1>1 DEF Bind, BindFails, BindMetricsFails, connVars
<1>2. CASE Serve \/ Cancel \/ MetricsFail \/ MetricsClose \/ AcceptFails
  BY <1>2 DEF Serve, Cancel, MetricsFail, MetricsClose, AcceptFails, connVars
<1>3. CASE SelectCancelled \/ SelectMetrics
  BY <1>3 DEF SelectCancelled, SelectMetrics, EnterShutdown
<1>4. CASE SelectAccept
  BY <1>4 DEF SelectAccept, connVars
<1>5. CASE CloseUnused
  BY <1>5 DEF CloseUnused, CloseConns
<1>6. CASE Shutdown
  BY <1>6 DEF Shutdown, connVars
<1>7. CASE DrainIdle
  BY <1>7 DEF DrainIdle, CloseConns, serverVars
<1>8. CASE GraceEnds
  BY <1>8 DEF GraceEnds, serverVars
<1>9. CASE Drained
  BY <1>9 DEF Drained, AfterShutdown, connVars
<1>10. CASE ForceClose
  BY <1>10 DEF ForceClose, AfterShutdown, CloseConns
<1>11. ASSUME NEW c \in Conn, Accept(c) \/ Request(c) \/ Respond(c) \/ HangUp(c) PROVE LifeInv'
  BY <1>11 DEF Accept, Request, Respond, HangUp, serverVars
<1>12. CASE UNCHANGED lifecycleVars
  BY <1>12 DEF lifecycleVars, serverVars, connVars
<1> QED BY <1>1, <1>2, <1>3, <1>4, <1>5, <1>6, <1>7, <1>8, <1>9, <1>10, <1>11, <1>12 DEF LifeNext, Proceed

\* For any number of connections: a turn in progress when the stop begins is not
\* cut within the grace period, a stopped proxy leaves nothing open, and the
\* failure of its metrics listener is not lost (ListenAndServe, shutdown).
THEOREM StopIsAlwaysOrderly == LifeSpec => []StopIsOrderly
<1>1. LifeInv => StopIsOrderly
  BY DEF LifeInv
<1>2. LifeInv /\ [LifeNext]_lifecycleVars => LifeInv'
  BY LifeStepInv
<1> QED BY <1>1, <1>2, LifeInitInv, PTL DEF LifeSpec

=============================================================================
