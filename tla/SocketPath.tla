----------------------------- MODULE SocketPath -----------------------------
(***************************************************************************)
(* Several replay serve processes and one unix:// listen address           *)
(* (listenUnix and clearSocketPath in internal/proxy/uds.go): lstat, dial, *)
(* remove, bind and chmod are separate system calls, a killed proxy leaves *)
(* its socket file behind, and closing a listener unlinks the path,        *)
(* whatever stands there by then.  The kernel is external: a dial succeeds *)
(* when the socket at the path has a listener, and a bind needs the path   *)
(* to be free.                                                             *)
(***************************************************************************)
EXTENDS Integers, FiniteSets

CONSTANT Proc   \* replay serve processes

VARIABLES
    step,       \* where each process is in listenUnix
    sock,       \* what the path names: Free, Foreign, or the process that bound it
    listening,  \* processes whose socket has a listener
    narrow,     \* the socket at the path is 0600
    \* What really happened, for the properties only:
    overlap,    \* a start has overlapped another start, or a stop
    excused     \* processes refused while there was a reason to refuse

socketVars == <<step, sock, listening, narrow, overlap, excused>>

Free == "free"
Foreign == "foreign"    \* a symlink, or a file that is no socket

Inside == {p \in Proc : step[p] \in {"dial", "remove", "bind", "listen", "chmod"}}

SocketInit ==
    /\ step = [p \in Proc |-> "off"]
    /\ sock \in {Free, Foreign}
    /\ listening = {} /\ narrow = FALSE
    /\ overlap = FALSE /\ excused = {}

Goto(p, s) == step' = [step EXCEPT ![p] = s]
Refuse(p, reason) ==
    /\ Goto(p, "refused")
    /\ excused' = IF reason THEN excused \cup {p} ELSE excused \ {p}
    /\ UNCHANGED <<sock, listening, narrow, overlap>>

\* Lstat: nothing there, a socket to ask about, or something to refuse.
Lstat(p) ==
    /\ step[p] = "off"
    /\ IF sock = Foreign THEN Refuse(p, TRUE)
       ELSE /\ Goto(p, IF sock = Free THEN "bind" ELSE "dial")
            /\ overlap' = (overlap \/ Inside # {})
            /\ UNCHANGED <<sock, listening, narrow, excused>>

\* Slip: a socket file is taken for the remains of a dead process.
DialSkipped(p) ==
    /\ step[p] = "dial"
    /\ Goto(p, "remove") /\ UNCHANGED <<sock, listening, narrow, overlap, excused>>

\* Dialling tells a running proxy from the remains of one.
Dial(p) ==
    /\ step[p] = "dial"
    /\ IF sock \in listening THEN Refuse(p, TRUE)
       ELSE Goto(p, "remove") /\ UNCHANGED <<sock, listening, narrow, overlap, excused>>

\* os.Remove takes whatever stands at the path now.
Remove(p) ==
    /\ step[p] = "remove"
    /\ IF sock = Free THEN Refuse(p, FALSE)
       ELSE /\ sock' = Free /\ narrow' = FALSE
            /\ Goto(p, "bind")
            /\ UNCHANGED <<listening, overlap, excused>>

\* net.Listen: bind, then listen.
BindPath(p) ==
    /\ step[p] = "bind"
    /\ IF sock # Free THEN Refuse(p, FALSE)
       ELSE /\ sock' = p /\ narrow' = FALSE
            /\ Goto(p, "listen")
            /\ UNCHANGED <<listening, overlap, excused>>
Listen(p) ==
    /\ step[p] = "listen"
    /\ listening' = listening \cup {p}
    /\ Goto(p, "chmod")
    /\ UNCHANGED <<sock, narrow, overlap, excused>>

\* Chmod by name; when the name is gone the listener is closed again.
Chmod(p) ==
    /\ step[p] = "chmod"
    /\ IF sock = Free
       THEN /\ Goto(p, "refused")
            /\ listening' = listening \ {p}
            /\ UNCHANGED <<sock, narrow, overlap>> /\ excused' = excused \ {p}
       ELSE Goto(p, "serving") /\ narrow' = TRUE /\ UNCHANGED <<sock, listening, overlap, excused>>

\* A clean shutdown closes the listener, which unlinks the path first.
Stop(p) ==
    /\ step[p] = "serving"
    /\ sock' = Free /\ narrow' = FALSE
    /\ listening' = listening \ {p}
    /\ Goto(p, "off")
    /\ overlap' = (overlap \/ Inside # {})
    /\ UNCHANGED excused

\* The process is killed and its socket file stays.
Kill(p) ==
    /\ step[p] \notin {"off", "refused"}
    /\ listening' = listening \ {p}
    /\ Goto(p, "off")
    /\ UNCHANGED <<sock, narrow, overlap, excused>>

\* A refused process exits; the user may start another.
Exit(p) ==
    /\ step[p] = "refused"
    /\ Goto(p, "off")
    /\ excused' = excused \ {p}
    /\ UNCHANGED <<sock, listening, narrow, overlap>>

SocketNext ==
    \E p \in Proc :
        \/ Lstat(p) \/ Dial(p) \/ Remove(p) \/ BindPath(p) \/ Listen(p) \/ Chmod(p)
        \/ Stop(p) \/ Kill(p) \/ Exit(p)

SocketSpec == SocketInit /\ [][SocketNext]_socketVars

-----------------------------------------------------------------------------
SocketTypeOK ==
    /\ step \in [Proc -> {"off", "dial", "remove", "bind", "listen", "chmod", "serving", "refused"}]
    /\ sock \in Proc \cup {Free, Foreign}
    /\ listening \subseteq Proc /\ excused \subseteq Proc
    /\ narrow \in BOOLEAN /\ overlap \in BOOLEAN

\* As long as no start overlaps another start or a stop, whatever was killed: a
\* proxy that serves is the one clients reach, through a socket only its owner
\* can open, and a start is refused only when a proxy is running or the path
\* is not a socket, so the remains of a killed process never keep one out.
SocketIsServed ==
    /\ SocketTypeOK
    /\ ~overlap =>
        /\ \A p \in Proc : step[p] = "serving" => sock = p /\ narrow
        /\ \A p \in Proc : step[p] = "refused" => p \in excused

\* "A socket something is still listening on must NOT go": a proxy that serves
\* keeps its socket, overlapping starts included.
NeverTakenOver == \A p \in Proc : step[p] = "serving" => sock = p

=============================================================================
