----------------------------- MODULE RemoteHost -----------------------------
(***************************************************************************)
(* The repositories of one SSH host: the calls the webview makes for them    *)
(* (src/src-tauri/src/commands/remote.rs), the session they share            *)
(* (remote/registry.rs, remote/session.rs, remote/connect.rs), the agent at  *)
(* its other end (agent/serve.rs, agent/run.rs) and the watches it keeps.    *)
(*                                                                         *)
(* A caller is a path (its queued watch or unwatch), an ordinary command, the *)
(* open dialog, or the task that watches a repository again on a new session. *)
(* Sessions are numbered as they are made. A connect may fail for any of its *)
(* reasons: ssh, the hello, its time limit, the agent's version, its install. *)
(***************************************************************************)
EXTENDS WatchQueue, Naturals, FiniteSets

CONSTANTS
  Reader,       \* a caller of ordinary commands
  Dialog,       \* the dialog that opens a remote repository
  None,         \* nobody
  MaxSessions,  \* bound: sessions made
  MaxGestures,  \* bound: tabs opened and closed
  MaxReads      \* bound: commands and dialog connects

ASSUME CallersAssumption ==
  /\ None \notin Paths \cup {Reader, Dialog} /\ Reader # Dialog
  /\ {Reader, Dialog} \cap Paths = {}
  /\ (Paths \X (1..MaxSessions)) \cap (Paths \cup {Reader, Dialog, None}) = {}
ASSUME BoundsAssumption == {MaxSessions, MaxGestures, MaxReads} \subseteq Nat

Sessions == 1..MaxSessions
Again == Paths \X Sessions
Callers == Paths \cup {Reader, Dialog} \cup Again

\* What a call can be about to do.
Steps == {"idle", "asks", "connects", "opens", "chooses", "sends", "registered", "sent",
          "ok", "err", "done", "failed", "closes", "disconnects"}

VARIABLES
  open,      \* openPaths: the tabs of this host
  pc,        \* what each call is about to do
  at,        \* the session a call uses
  holder,    \* who holds the host's mutex across a connect
  session,   \* Host.session, 0 for none
  repos,     \* Host.repos
  made,      \* sessions made so far
  closed,    \* Pending.closed: sessions that take no more requests
  up,        \* sessions whose ssh still runs
  watches,   \* per session, what its agent watches
  confirmed, \* tabs whose watch was answered well, not closed or disconnected since
  gestures, reads

tabVars == <<open, queue, gestures, reads>>
hostVars == <<holder, session, repos>>
sessionVars == <<made, closed, up, watches>>
vars == <<tabVars, pc, at, hostVars, sessionVars, confirmed>>

Waiting(s) == {c \in Callers : pc[c] \in {"registered", "sent", "ok", "err"} /\ at[c] = s}
Alive == session # 0 /\ session \notin closed
Unwatching(c) == c \in Paths /\ InFlight(c, "unwatch")
Watching(c) == c \in Paths /\ InFlight(c, "watch")
RepoOf(c) == IF c \in Again THEN c[1] ELSE c

Goes(c, step) == pc' = [pc EXCEPT ![c] = step]

\* close: the session takes no more requests and those waiting fail.
PcFailing(s) == [c \in Callers |-> IF c \in Waiting(s) THEN "failed" ELSE pc[c]]

-----------------------------------------------------------------------------
(* The webview.                                                              *)

Init ==
  /\ open = {} /\ queue = [r \in Paths |-> <<>>]
  /\ pc = [c \in Callers |-> "idle"]
  /\ at = [c \in Callers |-> IF c \in Again THEN c[2] ELSE 0]
  /\ holder = None /\ session = 0 /\ repos = {}
  /\ made = 0 /\ closed = {} /\ up = {} /\ watches = [s \in Sessions |-> {}]
  /\ confirmed = {} /\ gestures = 0 /\ reads = 0

Gesture == gestures < MaxGestures /\ gestures' = gestures + 1

OpensTab(r) ==
  /\ Gesture
  /\ open' = open \cup {r} /\ Ask(r, "watch")
  /\ UNCHANGED <<pc, at, hostVars, sessionVars, confirmed, reads>>

ClosesTab(r) ==
  /\ r \in open /\ Gesture
  /\ open' = open \ {r} /\ Ask(r, "unwatch") /\ confirmed' = confirmed \ {r}
  /\ UNCHANGED <<pc, at, hostVars, sessionVars, reads>>

\* remote_invoke or remote_connect begins. A read is for a tab, or for the
\* directories the dialog shows.
Calls(c) ==
  /\ pc[c] = "idle" /\ Goes(c, "asks")
  /\ \/ c \in Paths /\ queue[c] # <<>> /\ UNCHANGED reads
     \/ /\ c = Dialog \/ (c = Reader /\ (open # {} \/ pc[Dialog] = "chooses"))
        /\ reads < MaxReads /\ reads' = reads + 1
  /\ UNCHANGED <<open, queue, gestures, at, hostVars, sessionVars, confirmed>>

-----------------------------------------------------------------------------
(* Finding the session.                                                      *)

\* Where a call goes with the session it was given.
WithSession(c) ==
  CASE Watching(c) -> "opens" [] c = Dialog -> "chooses" [] OTHER -> "sends"

GetsSession(c) ==
  /\ pc[c] = "asks" /\ holder = None /\ Alive
  /\ at' = [at EXCEPT ![c] = session] /\ Goes(c, WithSession(c))
  /\ UNCHANGED <<tabVars, hostVars, sessionVars, confirmed>>

\* live: stopping a watch never connects.
FindsNone(c) ==
  /\ pc[c] = "asks" /\ holder = None /\ ~Alive /\ Unwatching(c)
  /\ Goes(c, "closes")
  /\ UNCHANGED <<tabVars, at, hostVars, sessionVars, confirmed>>

\* Mutant: the host's mutex is not held across the connect.
ConnectsUnheld(c) ==
  /\ pc[c] = "asks" /\ holder = None /\ ~Alive /\ ~Unwatching(c)
  /\ Goes(c, "connects")
  /\ UNCHANGED <<tabVars, at, hostVars, sessionVars, confirmed>>

Connects(c) ==
  /\ pc[c] = "asks" /\ holder = None /\ ~Alive /\ ~Unwatching(c)
  /\ holder' = c /\ Goes(c, "connects")
  /\ UNCHANGED <<tabVars, at, session, repos, sessionVars, confirmed>>

\* Mutant: the new session watches only what its maker asks for.
ConnectedAlone(c) ==
  /\ pc[c] = "connects" /\ made < MaxSessions
  /\ LET s == made + 1
     IN /\ made' = s /\ up' = up \cup {s} /\ session' = s
        /\ at' = [at EXCEPT ![c] = s] /\ Goes(c, WithSession(c))
  /\ holder' = None
  /\ UNCHANGED <<tabVars, repos, closed, watches, confirmed>>

\* The host's other repositories are watched again, each in a task of its own.
Connected(c) ==
  /\ pc[c] = "connects" /\ made < MaxSessions
  /\ LET s == made + 1
     IN /\ made' = s /\ up' = up \cup {s} /\ session' = s
        /\ at' = [at EXCEPT ![c] = s]
        /\ pc' = [d \in Callers |->
                    IF d = c THEN WithSession(c)
                    ELSE IF d \in Again /\ d[1] \in repos /\ d[2] = s THEN "sends"
                    ELSE pc[d]]
  /\ holder' = None
  /\ UNCHANGED <<tabVars, repos, closed, watches, confirmed>>

ConnectFails(c) ==
  /\ pc[c] = "connects"
  /\ holder' = None /\ Goes(c, "failed")
  /\ UNCHANGED <<tabVars, at, session, repos, sessionVars, confirmed>>

\* opened: the repository belongs to the host before its watch is requested.
Opens(c) ==
  /\ pc[c] = "opens" /\ holder = None
  /\ repos' = repos \cup {c} /\ Goes(c, "sends")
  /\ UNCHANGED <<tabVars, at, holder, session, sessionVars, confirmed>>

-----------------------------------------------------------------------------
(* Session::request and the stream.                                          *)

\* Mutant: the request is registered without a look at Pending.closed.
RegistersAnyway(c) ==
  /\ pc[c] = "sends" /\ Goes(c, "registered")
  /\ UNCHANGED <<tabVars, at, hostVars, sessionVars, confirmed>>

\* One lock decides whether the session still takes the request.
Registers(c) ==
  /\ pc[c] = "sends"
  /\ Goes(c, IF at[c] \in closed THEN "failed" ELSE "registered")
  /\ UNCHANGED <<tabVars, at, hostVars, sessionVars, confirmed>>

Writes(c) ==
  /\ pc[c] = "registered" /\ Goes(c, "sent")
  /\ UNCHANGED <<tabVars, at, hostVars, sessionVars, confirmed>>

\* A broken pipe closes the session, this request and all the others on it.
WriteFails(c) ==
  /\ pc[c] = "registered" /\ at[c] \notin up
  /\ closed' = closed \cup {at[c]} /\ pc' = PcFailing(at[c])
  /\ UNCHANGED <<tabVars, at, hostVars, made, up, watches, confirmed>>

\* serve: a task per request, in any order; a command that panics is an error.
AgentRuns(c) ==
  /\ pc[c] = "sent" /\ at[c] \in up
  /\ \/ /\ Goes(c, "ok")
        /\ watches' =
             [watches EXCEPT ![at[c]] =
                CASE Watching(c) \/ c \in Again -> @ \cup {RepoOf(c)}
                  [] Unwatching(c) -> @ \ {c}
                  [] OTHER -> @]
     \/ Goes(c, "err") /\ ~Unwatching(c) /\ UNCHANGED watches
  /\ UNCHANGED <<tabVars, at, hostVars, made, closed, up, confirmed>>

\* route: the answer goes to the request that waits for its id.
Routes(c) ==
  /\ pc[c] \in {"ok", "err"} /\ at[c] \notin closed
  /\ Goes(c, IF Unwatching(c) THEN "closes" ELSE "done")
  /\ confirmed' =
       IF Watching(c) /\ c \in open /\ pc[c] = "ok" /\ Len(queue[c]) = 1
         THEN confirmed \cup {c}
       ELSE IF pc[c] = "err" THEN confirmed \ {RepoOf(c)} ELSE confirmed
  /\ UNCHANGED <<tabVars, at, hostVars, sessionVars>>

\* ssh ends, and the agent with its watches: the network, the server, a kill.
StreamEnds(s) ==
  /\ s \in up
  /\ up' = up \ {s} /\ watches' = [watches EXCEPT ![s] = {}]
  /\ UNCHANGED <<tabVars, pc, at, hostVars, made, closed, confirmed>>

\* Mutant: the end of the stream fails nobody who waits.
ReaderClosesQuietly(s) ==
  /\ s \in 1..made /\ s \notin up \cup closed /\ closed' = closed \cup {s}
  /\ UNCHANGED <<tabVars, pc, at, hostVars, made, up, watches, confirmed>>

\* The reading thread comes to the end of the stream.
ReaderCloses(s) ==
  /\ s \in 1..made /\ s \notin up \cup closed
  /\ closed' = closed \cup {s} /\ pc' = PcFailing(s)
  /\ UNCHANGED <<tabVars, at, hostVars, made, up, watches, confirmed>>

-----------------------------------------------------------------------------
(* Ending calls and sessions.                                                *)

\* The answer reaches the webview; a watch or an unwatch settles its chain.
Ends(c) ==
  /\ pc[c] \in {"done", "failed"} /\ ~Unwatching(c)
  /\ Goes(c, "idle")
  /\ IF c \in Paths THEN Settles(c) ELSE UNCHANGED queue
  /\ UNCHANGED <<open, gestures, reads, at, hostVars, sessionVars, confirmed>>

\* An unwatch that failed still takes the repository off the host.
UnwatchFails(c) ==
  /\ pc[c] = "failed" /\ Unwatching(c) /\ Goes(c, "closes")
  /\ UNCHANGED <<tabVars, at, hostVars, sessionVars, confirmed>>

\* Host.session is taken: its ssh is killed, so its agent and watches go too.
Takes(left) ==
  IF session # 0
    THEN /\ closed' = closed \cup {session} /\ up' = up \ {session}
         /\ watches' = [watches EXCEPT ![session] = {}] /\ session' = 0
         /\ pc' = [PcFailing(session) EXCEPT ![left] = "idle"]
    ELSE Goes(left, "idle") /\ UNCHANGED <<session, closed, up, watches>>

\* closed: the last repository takes the session with it.
Closed(c) ==
  /\ pc[c] = "closes" /\ holder = None
  /\ repos' = repos \ {c}
  /\ IF repos' = {} THEN Takes(c)
                    ELSE Goes(c, "idle") /\ UNCHANGED <<session, closed, up, watches>>
  /\ Settles(c)
  /\ UNCHANGED <<open, gestures, reads, at, holder, made, confirmed>>

\* The dialog is left: its session is released unless a tab uses the host.
Leaves ==
  /\ pc[Dialog] = "chooses"
  /\ Goes(Dialog, IF open = {} THEN "disconnects" ELSE "idle")
  /\ UNCHANGED <<tabVars, at, hostVars, sessionVars, confirmed>>

Disconnects ==
  /\ pc[Dialog] = "disconnects" /\ holder = None
  /\ repos' = {} /\ Takes(Dialog) /\ confirmed' = {}
  /\ UNCHANGED <<tabVars, at, holder, made>>

Step(c) ==
  \/ GetsSession(c) \/ FindsNone(c) \/ Connects(c) \/ Connected(c) \/ ConnectFails(c)
  \/ Opens(c) \/ Registers(c) \/ Writes(c) \/ WriteFails(c) \/ AgentRuns(c) \/ Routes(c)
  \/ Ends(c) \/ UnwatchFails(c) \/ Closed(c)

Next ==
  \/ \E r \in Paths : OpensTab(r) \/ ClosesTab(r)
  \/ \E c \in Callers : Calls(c) \/ Step(c)
  \/ \E s \in Sessions : StreamEnds(s) \/ ReaderCloses(s)
  \/ Leaves \/ Disconnects

Spec == Init /\ [][Next]_vars

\* Progress of what runs: a connect is ended by its watchdog, a command ends or
\* its ssh does, the mutex is handed on. Nobody has to open a tab, answer the
\* dialog or lose a connection; and with finitely many gestures no step has to
\* be fair to one caller, it is enough that something goes on.
Fairness ==
  WF_vars(\/ \E c \in Callers : Step(c)
          \/ \E r \in Paths : Calls(r)
          \/ \E s \in Sessions : ReaderCloses(s))

FairSpec == Spec /\ Fairness

-----------------------------------------------------------------------------
(* Properties.                                                               *)

TypeOK ==
  /\ open \subseteq Paths /\ repos \subseteq Paths /\ confirmed \subseteq Paths
  /\ queue \in [Paths -> Seq(Ops)]
  /\ pc \in [Callers -> Steps]
  /\ at \in [Callers -> 0..MaxSessions]
  /\ holder \in Callers \cup {None}
  /\ session \in 0..made /\ made \in 0..MaxSessions
  /\ closed \subseteq 1..made /\ up \subseteq 1..made
  /\ watches \in [Sessions -> SUBSET Paths]
  /\ gestures \in 0..MaxGestures /\ reads \in 0..MaxReads

\* A request registered while its session closes is answered or failed, never
\* left waiting: nothing waits on a session that is closed (Shared::close).
ClosedFailsAll == \A s \in closed : Waiting(s) = {}

\* One connection per host: whatever calls, reconnects and closes overlap, the
\* sessions that still take requests are at most the host's own.
OneSession == 1..made \ closed \subseteq {session}

\* A tab whose watch was once confirmed is watched by the host's session or
\* about to be, across any number of lost connections (session_for).
WatchSurvives ==
  Alive =>
    \A r \in confirmed :
      \/ r \in watches[session]
      \/ session \notin up
      \/ pc[<<r, session>>] \in {"sends", "registered", "sent", "err"}

\* Every call comes back, with an answer or with the reason why not, and the
\* chain of every path is worked off: a lost or closing session, a failed
\* connect or a mutex held across one delays a call and never swallows it.
CallsEnd ==
  []<>(/\ \A c \in Callers \ {Dialog} : pc[c] = "idle"
       /\ \A r \in Paths : queue[r] = <<>>)
=============================================================================
