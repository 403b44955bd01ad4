-------------------------- MODULE RemoteHostProofs --------------------------
(***************************************************************************)
(* The sessions of one SSH host, for any set of repositories and any bounds: *)
(* nothing waits on a closed session, the host has one connection at a time, *)
(* and the watches come back with a new one.                                 *)
(***************************************************************************)
EXTENDS RemoteHost, SequenceTheorems, TLAPS

Asked == {"opens", "sends", "registered", "sent", "ok", "err"}
Going == {"sends", "registered", "sent", "err"}
Underway == {"sends", "registered", "sent", "ok", "err"}

\* What each kind of caller can be doing.
CallersFit ==
  \A c \in Callers :
    /\ pc[c] = "opens" => c \in Paths
    /\ pc[c] = "closes" => Unwatching(c)
    /\ c \in Paths /\ pc[c] # "idle" => queue[c] # <<>>
    /\ c \in Again => at[c] = c[2] /\ pc[c] \notin {"asks", "connects"}
    /\ pc[c] \in Asked => at[c] \in 1..made

\* One caller connects, with the host's mutex held and no session to lose.
OneConnects == \A c \in Callers : pc[c] = "connects" => holder = c /\ ~Alive

\* A watch is sent for a repository the host already counts as open.
OpenedFirst ==
  \A r \in Paths :
    Watching(r) /\ pc[r] \in Underway /\ at[r] \notin closed => r \in repos

\* A watch that was answered is kept by an agent that still runs.
AckedIsKept ==
  \A r \in Paths :
    Watching(r) /\ pc[r] = "ok" /\ at[r] \in up => r \in watches[at[r]]

\* A confirmed tab is open on the host, and nothing queued would stop its watch.
ConfirmedIsOpen ==
  \A r \in confirmed : r \in repos /\ \A k \in 1..Len(queue[r]) : queue[r][k] = "watch"

IInv ==
  /\ TypeOK /\ CallersFit /\ OneConnects /\ OpenedFirst /\ AckedIsKept /\ ConfirmedIsOpen
  /\ ClosedFailsAll /\ OneSession /\ WatchSurvives

-----------------------------------------------------------------------------
(* Callers and queues.                                                       *)

\* What the callers are, and that they differ from one another.
LEMMA Apart ==
  /\ Again \subseteq Callers /\ Paths \subseteq Callers /\ Dialog \in Callers /\ None \notin Callers
  /\ \A c \in Again : c \notin Paths /\ c # Reader /\ c # Dialog
                     /\ c[1] \in Paths /\ c[2] \in Sessions
  /\ \A r \in Paths, s \in Sessions : <<r, s>> \in Again /\ <<r, s>>[1] = r /\ <<r, s>>[2] = s
BY CallersAssumption DEF Callers, Again, Sessions

\* Asking for a call lengthens one queue at its end.
LEMMA AskTail ==
  ASSUME TypeOK, NEW r \in Paths, NEW op \in Ops, Ask(r, op)
  PROVE  /\ queue' \in [Paths -> Seq(Ops)]
         /\ \A p \in Paths : p # r => queue'[p] = queue[p]
         /\ queue'[r] # <<>> /\ Len(queue'[r]) = Len(queue[r]) + 1
         /\ \A k \in 1..Len(queue[r]) : queue'[r][k] = queue[r][k]
         /\ queue'[r][Len(queue[r]) + 1] = op
         /\ queue[r] # <<>> => Head(queue'[r]) = Head(queue[r])
<1>1. queue[r] \in Seq(Ops) /\ queue'[r] = Append(queue[r], op)
  BY DEF Ask, TypeOK
<1>2. queue' \in [Paths -> Seq(Ops)] /\ \A p \in Paths : p # r => queue'[p] = queue[p]
  BY <1>1 DEF Ask, TypeOK
<1> QED BY <1>1, <1>2

\* Settling a call shortens one queue at its head.
LEMMA SettleHead ==
  ASSUME TypeOK, NEW r \in Paths, queue[r] # <<>>, Settles(r)
  PROVE  /\ queue' \in [Paths -> Seq(Ops)]
         /\ \A p \in Paths : p # r => queue'[p] = queue[p]
         /\ \A k \in 1..Len(queue'[r]) : k + 1 \in 1..Len(queue[r]) 
                                          /\ queue'[r][k] = queue[r][k + 1]
<1>1. queue[r] \in Seq(Ops) /\ queue'[r] = Tail(queue[r])
  BY DEF Settles, TypeOK
<1>2. queue' \in [Paths -> Seq(Ops)] /\ \A p \in Paths : p # r => queue'[p] = queue[p]
  BY <1>1 DEF Settles, TypeOK
<1> QED BY <1>1, <1>2

\* A call under way keeps its place at the head of its queue.
LEMMA AskKeepsCalls ==
  ASSUME TypeOK, CallersFit, NEW r \in Paths, NEW op \in Ops, Ask(r, op), pc' = pc,
         NEW p \in Paths, pc[p] # "idle"
  PROVE  queue'[p] # <<>> /\ (Watching(p)' <=> Watching(p)) /\ (Unwatching(p)' <=> Unwatching(p))
<1>1. queue[p] # <<>>
  BY Apart DEF CallersFit
<1>2. queue'[p] # <<>> /\ Head(queue'[p]) = Head(queue[p])
  BY <1>1, AskTail
<1> QED BY <1>1, <1>2 DEF Watching, Unwatching, InFlight

\* One that settles leaves the other calls where they are.
LEMMA SettleKeepsCalls ==
  ASSUME TypeOK, NEW r \in Paths, queue[r] # <<>>, Settles(r), NEW p \in Paths, p # r
  PROVE  /\ queue'[p] = queue[p]
         /\ Watching(p)' <=> Watching(p)
         /\ Unwatching(p)' <=> Unwatching(p)
BY SettleHead DEF Watching, Unwatching, InFlight

\* Taking the host's session, if there is one, fails the requests on it.
LEMMA TakesAll ==
  ASSUME IInv, NEW c \in Callers, pc[c] \in {"closes", "disconnects"}, Takes(c), made' = made
  PROVE  /\ session' = 0 /\ closed \subseteq closed' /\ closed' \subseteq 1..made
         /\ 1..made \subseteq closed'
         /\ up' \subseteq up /\ watches' \in [Sessions -> SUBSET Paths]
         /\ \A s \in up' : watches'[s] = watches[s]
         /\ pc' \in [Callers -> Steps] /\ pc'[c] = "idle"
         /\ \A d \in Callers : d # c => pc'[d] = pc[d] \/ (pc[d] # "idle" /\ pc'[d] = "failed")
         /\ \A d \in Callers : pc'[d] \in {"registered", "sent", "ok", "err"} => at[d] \notin closed'
<1> USE BoundsAssumption DEF IInv, TypeOK
<1>1. 1..made \ closed \subseteq {session} /\ session \in 0..made /\ made \in Nat
  BY DEF OneSession
<1>2. CASE session = 0
  <2>1. session' = 0 /\ closed' = closed /\ up' = up /\ watches' = watches
        /\ pc' = [pc EXCEPT ![c] = "idle"]
    BY <1>2 DEF Takes, Goes
  <2>2. 1..made \subseteq closed
    BY <1>1, <1>2
  <2>3. \A d \in Callers : pc[d] \in {"registered", "sent", "ok", "err"} => at[d] \notin closed
    BY DEF ClosedFailsAll, Waiting
  <2> QED BY <2>1, <2>2, <2>3 DEF Steps
<1>3. CASE session # 0
  <2>1. session' = 0 /\ closed' = closed \cup {session} /\ up' = up \ {session}
        /\ watches' = [watches EXCEPT ![session] = {}]
        /\ pc' = [PcFailing(session) EXCEPT ![c] = "idle"]
    BY <1>3 DEF Takes
  <2>2. session \in 1..made /\ session \in Sessions
    BY <1>1, <1>3 DEF Sessions
  <2>3. pc' \in [Callers -> Steps] /\ pc'[c] = "idle"
        /\ \A d \in Callers : d # c => pc'[d] = IF d \in Waiting(session) THEN "failed" ELSE pc[d]
    BY <2>1 DEF PcFailing, Steps
  <2>4. \A d \in Callers : pc'[d] \in {"registered", "sent", "ok", "err"} => at[d] \notin closed'
    BY <2>1, <2>3 DEF ClosedFailsAll, Waiting
  <2>5. watches' \in [Sessions -> SUBSET Paths] /\ \A s \in up' : watches'[s] = watches[s]
    BY <2>1, <2>2 DEF Sessions
  <2>6. \A d \in Waiting(session) : pc[d] # "idle"
    BY DEF Waiting
  <2>7. \A d \in Callers : d # c => pc'[d] = pc[d] \/ (pc[d] # "idle" /\ pc'[d] = "failed")
    BY <2>3, <2>6
  <2>8. closed' \subseteq 1..made /\ 1..made \subseteq closed' /\ up' \subseteq up
    BY <1>1, <2>1, <2>2
  <2> QED BY <2>1, <2>3, <2>4, <2>5, <2>7, <2>8
<1> QED BY <1>2, <1>3

\* The watch that is put back is under way, or failed with its session.
LEMMA SurvivesAgain ==
  ASSUME IInv, confirmed' \subseteq confirmed, session' = session, session \in 0..MaxSessions,
         closed \subseteq closed', up' \subseteq up,
         \A s \in Sessions : s \in up' => watches'[s] = watches[s],
         \A a \in Again : pc[a] \in Going /\ a[2] \notin closed' => pc'[a] \in Going
  PROVE  WatchSurvives'
<1> SUFFICES ASSUME Alive', NEW r \in confirmed', session \in up'
             PROVE  r \in watches'[session] \/ pc'[<<r, session>>] \in Going
  BY DEF WatchSurvives, Going
<1>1. Alive /\ session \notin closed' /\ session \in Sessions /\ session \in up
  BY DEF Alive, Sessions
<1>2. r \in Paths /\ <<r, session>> \in Again /\ <<r, session>>[2] = session
  BY <1>1, Apart DEF IInv, TypeOK
<1>3. r \in watches[session] \/ pc[<<r, session>>] \in Going
  BY <1>1 DEF IInv, WatchSurvives, Going
<1> QED BY <1>1, <1>2, <1>3

-----------------------------------------------------------------------------
(* Every step keeps the invariant.                                           *)

\* A tab that opens asks for its watch and touches nothing else.
LEMMA OpensTabKeeps ==
  ASSUME IInv, NEW r \in Paths, OpensTab(r)
  PROVE  IInv'
<1> USE CallersAssumption, BoundsAssumption, Apart DEF IInv, InFlight
<1>a. Ask(r, "watch") /\ "watch" \in Ops /\ UNCHANGED <<pc, at, hostVars, sessionVars, confirmed, reads>>
  BY DEF OpensTab, Ops
<1>b. \A p \in Paths : pc[p] # "idle" =>
        queue'[p] # <<>> /\ (Watching(p)' <=> Watching(p)) /\ (Unwatching(p)' <=> Unwatching(p))
  BY <1>a, AskKeepsCalls

<1>1. TypeOK'
  <2>1. queue' \in [Paths -> Seq(Ops)]
    BY <1>a, AskTail
  <2>2. gestures' \in 0..MaxGestures /\ open' \subseteq Paths
    BY DEF OpensTab, Gesture, TypeOK
  <2> QED BY <1>a, <2>1, <2>2 DEF TypeOK, hostVars, sessionVars
<1>2. CallersFit'
  <2>1. \A c \in Callers : pc[c] = "closes" => c \in Paths
    BY DEF CallersFit, Unwatching
  <2> QED BY <1>a, <1>b, <2>1 DEF CallersFit, Asked, hostVars, sessionVars
<1>3. OneConnects'
  BY DEF OpensTab, hostVars, sessionVars, OneConnects, Alive
<1>4. OpenedFirst'
  BY <1>a, <1>b DEF OpenedFirst, Underway, hostVars, sessionVars
<1>5. AckedIsKept'
  BY <1>a, <1>b DEF AckedIsKept, hostVars, sessionVars
<1>6. ConfirmedIsOpen'
  <2>1. \A p \in Paths, k \in Nat : k \in 1..Len(queue'[p]) =>
          (k \in 1..Len(queue[p]) /\ queue'[p][k] = queue[p][k]) \/ queue'[p][k] = "watch"
    <3> TAKE p \in Paths, k \in Nat
    <3> HAVE k \in 1..Len(queue'[p])
    <3>1. Len(queue[p]) \in Nat
      BY DEF TypeOK
    <3>2. CASE p = r
      BY <1>a, AskTail, <3>1, <3>2
    <3>3. CASE p # r
      BY <1>a, AskTail, <3>3
    <3> QED BY <3>2, <3>3
  <2>2. \A p \in Paths : \A k \in 1..Len(queue'[p]) : k \in Nat
    OBVIOUS
  <2> QED BY <1>a, <2>1, <2>2 DEF ConfirmedIsOpen, TypeOK, hostVars
<1>7. ClosedFailsAll'
  BY DEF OpensTab, sessionVars, ClosedFailsAll, Waiting
<1>8. OneSession'
  BY DEF OpensTab, hostVars, sessionVars, OneSession
<1>9. WatchSurvives'
  BY DEF OpensTab, hostVars, sessionVars, WatchSurvives, Alive
<1> QED BY <1>1, <1>2, <1>3, <1>4, <1>5, <1>6, <1>7, <1>8, <1>9

\* A tab that closes gives its confirmation up before its unwatch is queued.
LEMMA ClosesTabKeeps ==
  ASSUME IInv, NEW r \in Paths, ClosesTab(r)
  PROVE  IInv'
<1> USE CallersAssumption, BoundsAssumption, Apart DEF IInv, InFlight
<1>a. Ask(r, "unwatch") /\ "unwatch" \in Ops /\ confirmed' = confirmed \ {r}
      /\ UNCHANGED <<pc, at, hostVars, sessionVars, reads>>
  BY DEF ClosesTab, Ops
<1>b. \A p \in Paths : pc[p] # "idle" =>
        queue'[p] # <<>> /\ (Watching(p)' <=> Watching(p)) /\ (Unwatching(p)' <=> Unwatching(p))
  BY <1>a, AskKeepsCalls

<1>1. TypeOK'
  BY <1>a, AskTail DEF ClosesTab, Gesture, hostVars, sessionVars, TypeOK
<1>2. CallersFit'
  <2>1. \A c \in Callers : pc[c] = "closes" => c \in Paths
    BY DEF CallersFit, Unwatching
  <2> QED BY <1>a, <1>b, <2>1 DEF CallersFit, Asked, hostVars, sessionVars
<1>3. OneConnects'
  BY DEF ClosesTab, hostVars, sessionVars, OneConnects, Alive
<1>4. OpenedFirst'
  BY <1>a, <1>b DEF OpenedFirst, Underway, hostVars, sessionVars
<1>5. AckedIsKept'
  BY <1>a, <1>b DEF AckedIsKept, hostVars, sessionVars
<1>6. ConfirmedIsOpen'
  BY <1>a, AskTail DEF ConfirmedIsOpen, TypeOK, hostVars
<1>7. ClosedFailsAll'
  BY DEF ClosesTab, sessionVars, ClosedFailsAll, Waiting
<1>8. OneSession'
  BY DEF ClosesTab, hostVars, sessionVars, OneSession
<1>9. WatchSurvives'
  BY DEF ClosesTab, hostVars, sessionVars, WatchSurvives, Alive
<1> QED BY <1>1, <1>2, <1>3, <1>4, <1>5, <1>6, <1>7, <1>8, <1>9

\* A caller sets out with a call that has no session yet.
LEMMA CallsKeeps ==
  ASSUME IInv, NEW c \in Callers, Calls(c)
  PROVE  IInv'
<1> USE CallersAssumption, BoundsAssumption, Apart DEF IInv, InFlight
<1>1. TypeOK'
  BY DEF Calls, Goes, hostVars, sessionVars, TypeOK, Steps
<1>2. CallersFit'
  BY DEF Calls, Goes, sessionVars, CallersFit, Asked, Unwatching
<1>3. OneConnects'
  BY DEF Calls, Goes, hostVars, sessionVars, OneConnects, Alive
<1>4. OpenedFirst'
  BY DEF Calls, Goes, hostVars, sessionVars, OpenedFirst, Underway, Watching
<1>5. AckedIsKept'
  BY DEF Calls, Goes, sessionVars, AckedIsKept, Watching
<1>6. ConfirmedIsOpen'
  BY DEF Calls, hostVars, ConfirmedIsOpen
<1>7. ClosedFailsAll'
  BY DEF Calls, Goes, sessionVars, ClosedFailsAll, Waiting
<1>8. OneSession'
  BY DEF Calls, hostVars, sessionVars, OneSession
<1>9. WatchSurvives'
  <2>1. \A a \in Again : pc[a] \in Going /\ a[2] \notin closed' => pc'[a] \in Going
    BY DEF Calls, Goes
  <2> QED BY <2>1, SurvivesAgain DEF Calls, Goes, hostVars, sessionVars, TypeOK
<1> QED BY <1>1, <1>2, <1>3, <1>4, <1>5, <1>6, <1>7, <1>8, <1>9

\* The session of the table is handed on only while it lives.
LEMMA GetsSessionKeeps ==
  ASSUME IInv, NEW c \in Callers, GetsSession(c)
  PROVE  IInv'
<1> USE CallersAssumption, BoundsAssumption, Apart DEF IInv, InFlight
<1>1. TypeOK'
  BY DEF GetsSession, Goes, WithSession, tabVars, hostVars, sessionVars, TypeOK, Steps
<1>2. CallersFit'
  BY DEF GetsSession, Goes, WithSession, Alive, tabVars, sessionVars, CallersFit, Unwatching, Watching, TypeOK
<1>3. OneConnects'
  BY DEF GetsSession, Goes, WithSession, OneConnects
<1>4. OpenedFirst'
  BY DEF GetsSession, Goes, WithSession, tabVars, hostVars, sessionVars, OpenedFirst, Underway, Watching
<1>5. AckedIsKept'
  BY DEF GetsSession, Goes, WithSession, tabVars, sessionVars, AckedIsKept, Watching
<1>6. ConfirmedIsOpen'
  BY DEF GetsSession, tabVars, hostVars, ConfirmedIsOpen
<1>7. ClosedFailsAll'
  BY DEF GetsSession, Goes, WithSession, sessionVars, ClosedFailsAll, Waiting
<1>8. OneSession'
  BY DEF GetsSession, hostVars, sessionVars, OneSession
<1>9. WatchSurvives'
  <2>1. \A a \in Again : pc[a] \in Going /\ a[2] \notin closed' => pc'[a] \in Going
    BY DEF GetsSession, Goes, CallersFit
  <2> QED BY <2>1, SurvivesAgain DEF GetsSession, Goes, WithSession, Alive, tabVars, hostVars, sessionVars, TypeOK
<1> QED BY <1>1, <1>2, <1>3, <1>4, <1>5, <1>6, <1>7, <1>8, <1>9

\* A stop that finds no session goes on without one.
LEMMA FindsNoneKeeps ==
  ASSUME IInv, NEW c \in Callers, FindsNone(c)
  PROVE  IInv'
<1> USE CallersAssumption, BoundsAssumption, Apart DEF IInv, InFlight
<1>1. TypeOK'
  BY DEF FindsNone, Goes, tabVars, hostVars, sessionVars, TypeOK, Steps
<1>2. CallersFit'
  BY DEF FindsNone, Goes, tabVars, sessionVars, CallersFit, Asked, Unwatching
<1>3. OneConnects'
  BY DEF FindsNone, Goes, OneConnects
<1>4. OpenedFirst'
  BY DEF FindsNone, Goes, tabVars, hostVars, sessionVars, OpenedFirst, Underway, Watching
<1>5. AckedIsKept'
  BY DEF FindsNone, Goes, tabVars, sessionVars, AckedIsKept, Watching
<1>6. ConfirmedIsOpen'
  BY DEF FindsNone, tabVars, hostVars, ConfirmedIsOpen
<1>7. ClosedFailsAll'
  BY DEF FindsNone, Goes, sessionVars, ClosedFailsAll, Waiting
<1>8. OneSession'
  BY DEF FindsNone, Alive, sessionVars, OneSession
<1>9. WatchSurvives'
  BY DEF FindsNone, Alive, hostVars, sessionVars, WatchSurvives
<1> QED BY <1>1, <1>2, <1>3, <1>4, <1>5, <1>6, <1>7, <1>8, <1>9

\* A connect starts only from an empty table.
LEMMA ConnectsKeeps ==
  ASSUME IInv, NEW c \in Callers, Connects(c)
  PROVE  IInv'
<1> USE CallersAssumption, BoundsAssumption, Apart DEF IInv, InFlight
<1>1. TypeOK'
  BY DEF Connects, Goes, tabVars, sessionVars, TypeOK, Steps
<1>2. CallersFit'
  BY DEF Connects, Goes, tabVars, sessionVars, CallersFit, Asked, Unwatching
<1>3. OneConnects'
  BY DEF Connects, Goes, Alive, sessionVars, OneConnects
<1>4. OpenedFirst'
  BY DEF Connects, Goes, tabVars, sessionVars, OpenedFirst, Underway, Watching
<1>5. AckedIsKept'
  BY DEF Connects, Goes, tabVars, sessionVars, AckedIsKept, Watching
<1>6. ConfirmedIsOpen'
  BY DEF Connects, tabVars, ConfirmedIsOpen
<1>7. ClosedFailsAll'
  BY DEF Connects, Goes, sessionVars, ClosedFailsAll, Waiting
<1>8. OneSession'
  BY DEF Connects, sessionVars, OneSession
<1>9. WatchSurvives'
  <2>1. \A a \in Again : pc[a] \in Going /\ a[2] \notin closed' => pc'[a] \in Going
    BY DEF Connects, Goes, CallersFit
  <2> QED BY <2>1, SurvivesAgain DEF Connects, Goes, Alive, tabVars, sessionVars, TypeOK
<1> QED BY <1>1, <1>2, <1>3, <1>4, <1>5, <1>6, <1>7, <1>8, <1>9

\* The new session takes the place of none, and the watches the tabs confirmed
\* are put back on it.
LEMMA ConnectedKeeps ==
  ASSUME IInv, NEW c \in Callers, Connected(c)
  PROVE  IInv'
<1> USE CallersAssumption, BoundsAssumption, Apart DEF IInv, InFlight
<1>a. /\ made' = made + 1 /\ made' \in Sessions /\ session' = made' /\ up' = up \cup {made'}
      /\ at' = [at EXCEPT ![c] = made'] /\ holder' = None
      /\ \A d \in Callers :
           pc'[d] = IF d = c THEN WithSession(c)
                    ELSE IF d \in Again /\ d[1] \in repos /\ d[2] = made' THEN "sends" ELSE pc[d]
      /\ pc' \in [Callers -> Steps]
      /\ UNCHANGED <<tabVars, repos, closed, watches, confirmed>>
  BY DEF Connected, Sessions, TypeOK, Steps, WithSession
<1>b. c \notin Again /\ holder = c /\ 1..made \subseteq closed
  BY DEF Connected, CallersFit, OneConnects, Alive, OneSession
<1>c. WithSession(c) = IF Watching(c) THEN "opens" ELSE IF c = Dialog THEN "chooses" ELSE "sends"
  BY DEF WithSession, Watching

<1>1. TypeOK'
  BY <1>a DEF TypeOK, Sessions, tabVars
<1>2. CallersFit'
  <2> SUFFICES ASSUME NEW d \in Callers
               PROVE  /\ pc'[d] = "opens" => d \in Paths
                      /\ pc'[d] = "closes" => Unwatching(d)
                      /\ d \in Paths /\ pc'[d] # "idle" => queue[d] # <<>>
                      /\ d \in Again => at'[d] = d[2] /\ pc'[d] \notin {"asks", "connects"}
                      /\ pc'[d] \in Asked => at'[d] \in 1..made'
    BY <1>a DEF CallersFit, Unwatching, tabVars
  <2>1. CASE d = c
    BY <1>a, <1>b, <1>c, <2>1 DEF CallersFit, Watching, Connected, TypeOK
  <2>2. CASE d # c
    BY <1>a, <2>2 DEF CallersFit, Asked, TypeOK
  <2> QED BY <2>1, <2>2
<1>3. OneConnects'
  BY <1>a, <1>b, <1>c DEF OneConnects
<1>4. OpenedFirst'
  BY DEF Connected, WithSession, tabVars, OpenedFirst, Underway, Watching
<1>5. AckedIsKept'
  BY DEF Connected, WithSession, tabVars, AckedIsKept, Watching, CallersFit, Asked, TypeOK
<1>6. ConfirmedIsOpen'
  BY DEF Connected, tabVars, ConfirmedIsOpen
<1>7. ClosedFailsAll'
  BY DEF Connected, WithSession, ClosedFailsAll, Waiting
<1>8. OneSession'
  BY <1>a, <1>b DEF OneSession, TypeOK
<1>9. WatchSurvives'
  <2> SUFFICES ASSUME NEW r \in confirmed PROVE pc'[<<r, made'>>] \in Going
    BY <1>a DEF WatchSurvives, Going
  <2>1. r \in repos /\ r \in Paths
    BY DEF ConfirmedIsOpen, TypeOK
  <2>2. <<r, made'>> \in Again
    BY <2>1, <1>a
  <2> QED BY <1>a, <1>b, <2>1, <2>2 DEF Going
<1> QED BY <1>1, <1>2, <1>3, <1>4, <1>5, <1>6, <1>7, <1>8, <1>9

\* A connect that fails lets the mutex go and leaves the table as it was.
LEMMA ConnectFailsKeeps ==
  ASSUME IInv, NEW c \in Callers, ConnectFails(c)
  PROVE  IInv'
<1> USE CallersAssumption, BoundsAssumption, Apart DEF IInv, InFlight
<1>1. TypeOK'
  BY DEF ConnectFails, Goes, tabVars, sessionVars, TypeOK, Steps
<1>2. CallersFit'
  BY DEF ConnectFails, Goes, tabVars, sessionVars, CallersFit, Asked, Unwatching
<1>3. OneConnects'
  BY DEF ConnectFails, Goes, OneConnects, TypeOK
<1>4. OpenedFirst'
  BY DEF ConnectFails, Goes, tabVars, sessionVars, OpenedFirst, Underway, Watching
<1>5. AckedIsKept'
  BY DEF ConnectFails, Goes, tabVars, sessionVars, AckedIsKept, Watching
<1>6. ConfirmedIsOpen'
  BY DEF ConnectFails, tabVars, ConfirmedIsOpen
<1>7. ClosedFailsAll'
  BY DEF ConnectFails, Goes, sessionVars, ClosedFailsAll, Waiting
<1>8. OneSession'
  BY DEF ConnectFails, sessionVars, OneSession
<1>9. WatchSurvives'
  <2>1. \A a \in Again : pc[a] \in Going /\ a[2] \notin closed' => pc'[a] \in Going
    BY DEF ConnectFails, Goes, CallersFit
  <2> QED BY <2>1, SurvivesAgain DEF ConnectFails, Goes, tabVars, sessionVars, TypeOK
<1> QED BY <1>1, <1>2, <1>3, <1>4, <1>5, <1>6, <1>7, <1>8, <1>9

\* The repository belongs to the host before its request is registered.
LEMMA OpensKeeps ==
  ASSUME IInv, NEW c \in Callers, Opens(c)
  PROVE  IInv'
<1> USE CallersAssumption, BoundsAssumption, Apart DEF IInv, InFlight
<1>1. TypeOK'
  BY DEF Opens, Goes, tabVars, sessionVars, TypeOK, Steps, CallersFit
<1>2. CallersFit'
  BY DEF Opens, Goes, tabVars, sessionVars, CallersFit, Asked, Unwatching
<1>3. OneConnects'
  BY DEF Opens, Goes, OneConnects
<1>4. OpenedFirst'
  BY DEF Opens, Goes, tabVars, sessionVars, OpenedFirst, Watching
<1>5. AckedIsKept'
  BY DEF Opens, Goes, tabVars, sessionVars, AckedIsKept, Watching
<1>6. ConfirmedIsOpen'
  BY DEF Opens, tabVars, ConfirmedIsOpen
<1>7. ClosedFailsAll'
  BY DEF Opens, Goes, sessionVars, ClosedFailsAll, Waiting
<1>8. OneSession'
  BY DEF Opens, sessionVars, OneSession
<1>9. WatchSurvives'
  BY DEF Opens, Goes, sessionVars, WatchSurvives, Alive
<1> QED BY <1>1, <1>2, <1>3, <1>4, <1>5, <1>6, <1>7, <1>8, <1>9

\* A request is registered under the lock that a close drains: never on a session
\* that is closed.
LEMMA RegistersKeeps ==
  ASSUME IInv, NEW c \in Callers, Registers(c)
  PROVE  IInv'
<1> USE CallersAssumption, BoundsAssumption, Apart DEF IInv, InFlight
<1>1. TypeOK'
  BY DEF Registers, Goes, tabVars, hostVars, sessionVars, TypeOK, Steps
<1>2. CallersFit'
  BY DEF Registers, Goes, tabVars, sessionVars, CallersFit, Asked, Unwatching
<1>3. OneConnects'
  BY DEF Registers, Goes, hostVars, sessionVars, OneConnects, Alive
<1>4. OpenedFirst'
  BY DEF Registers, Goes, tabVars, hostVars, sessionVars, OpenedFirst, Underway, Watching
<1>5. AckedIsKept'
  BY DEF Registers, Goes, tabVars, sessionVars, AckedIsKept, Watching
<1>6. ConfirmedIsOpen'
  BY DEF Registers, tabVars, hostVars, ConfirmedIsOpen
<1>7. ClosedFailsAll'
  BY DEF Registers, Goes, sessionVars, ClosedFailsAll, Waiting
<1>8. OneSession'
  BY DEF Registers, hostVars, sessionVars, OneSession
<1>9. WatchSurvives'
  <2>1. \A a \in Again : pc[a] \in Going /\ a[2] \notin closed' => pc'[a] \in Going
    BY DEF Registers, Goes, sessionVars, CallersFit, Going
  <2> QED BY <2>1, SurvivesAgain DEF Registers, Goes, tabVars, hostVars, sessionVars, TypeOK
<1> QED BY <1>1, <1>2, <1>3, <1>4, <1>5, <1>6, <1>7, <1>8, <1>9

\* A request goes out on the session it is registered on.
LEMMA WritesKeeps ==
  ASSUME IInv, NEW c \in Callers, Writes(c)
  PROVE  IInv'
<1> USE CallersAssumption, BoundsAssumption, Apart DEF IInv, InFlight
<1>1. TypeOK'
  BY DEF Writes, Goes, tabVars, hostVars, sessionVars, TypeOK, Steps
<1>2. CallersFit'
  BY DEF Writes, Goes, tabVars, sessionVars, CallersFit, Asked, Unwatching
<1>3. OneConnects'
  BY DEF Writes, Goes, hostVars, sessionVars, OneConnects, Alive
<1>4. OpenedFirst'
  BY DEF Writes, Goes, tabVars, hostVars, sessionVars, OpenedFirst, Underway, Watching
<1>5. AckedIsKept'
  BY DEF Writes, Goes, tabVars, sessionVars, AckedIsKept, Watching
<1>6. ConfirmedIsOpen'
  BY DEF Writes, tabVars, hostVars, ConfirmedIsOpen
<1>7. ClosedFailsAll'
  BY DEF Writes, Goes, sessionVars, ClosedFailsAll, Waiting
<1>8. OneSession'
  BY DEF Writes, hostVars, sessionVars, OneSession
<1>9. WatchSurvives'
  BY DEF Writes, Goes, hostVars, sessionVars, WatchSurvives, Alive
<1> QED BY <1>1, <1>2, <1>3, <1>4, <1>5, <1>6, <1>7, <1>8, <1>9

\* A write that fails closes the session and fails every request on it.
LEMMA WriteFailsKeeps ==
  ASSUME IInv, NEW c \in Callers, WriteFails(c)
  PROVE  IInv'
<1> USE CallersAssumption, BoundsAssumption, Apart DEF IInv, InFlight
<1>1. TypeOK'
  <2>1. at[c] \in 1..made
    BY DEF WriteFails, CallersFit, Asked
  <2>2. pc' \in [Callers -> Steps]
    BY DEF WriteFails, PcFailing, TypeOK, Steps
  <2> QED BY <2>1, <2>2 DEF WriteFails, tabVars, hostVars, TypeOK
<1>2. CallersFit'
  BY DEF WriteFails, PcFailing, Waiting, tabVars, CallersFit, Asked, Unwatching
<1>3. OneConnects'
  BY DEF WriteFails, PcFailing, hostVars, OneConnects, Alive
<1>4. OpenedFirst'
  BY DEF WriteFails, PcFailing, Waiting, tabVars, hostVars, OpenedFirst, Watching
<1>5. AckedIsKept'
  BY DEF WriteFails, PcFailing, tabVars, AckedIsKept, Watching
<1>6. ConfirmedIsOpen'
  BY DEF WriteFails, tabVars, hostVars, ConfirmedIsOpen
<1>7. ClosedFailsAll'
  BY DEF WriteFails, PcFailing, Waiting, ClosedFailsAll
<1>8. OneSession'
  BY DEF WriteFails, hostVars, OneSession
<1>9. WatchSurvives'
  <2>1. \A a \in Again : pc[a] \in Going /\ a[2] \notin closed' => pc'[a] \in Going
    BY DEF WriteFails, PcFailing, Waiting, CallersFit
  <2>2. /\ confirmed' = confirmed /\ session' = session /\ closed \subseteq closed'
        /\ up' = up /\ watches' = watches /\ session \in 0..MaxSessions
    BY DEF WriteFails, hostVars, TypeOK
  <2> QED BY <2>1, <2>2, SurvivesAgain
<1> QED BY <1>1, <1>2, <1>3, <1>4, <1>5, <1>6, <1>7, <1>8, <1>9

\* The agent answers, and a watch or an unwatch changes what it keeps watched.
LEMMA AgentRunsKeeps ==
  ASSUME IInv, NEW c \in Callers, AgentRuns(c)
  PROVE  IInv'
<1> USE CallersAssumption, BoundsAssumption, Apart DEF IInv, InFlight
<1>a. /\ pc[c] = "sent" /\ at[c] \in up /\ at[c] \in Sessions
      /\ UNCHANGED <<tabVars, at, hostVars, made, closed, up, confirmed>>
  BY DEF AgentRuns, Sessions, TypeOK
<1>b. /\ pc' \in [Callers -> Steps] /\ pc'[c] \in {"ok", "err"}
      /\ \A d \in Callers : d # c => pc'[d] = pc[d]
  <2>1. pc' = [pc EXCEPT ![c] = "ok"] \/ pc' = [pc EXCEPT ![c] = "err"]
    BY DEF AgentRuns, Goes
  <2>2. pc \in [Callers -> Steps] /\ {"ok", "err"} \subseteq Steps
    BY DEF TypeOK, Steps
  <2> HIDE DEF IInv
  <2> QED BY <2>1, <2>2
<1>c. /\ watches' \in [Sessions -> SUBSET Paths]
      /\ \A s \in Sessions : \A r \in watches[s] : r # c \/ ~Unwatching(c) => r \in watches'[s]
      /\ pc'[c] = "ok" /\ (Watching(c) \/ c \in Again) => RepoOf(c) \in watches'[at[c]]
  <2>1. (Watching(c) => c \in Paths) /\ (Unwatching(c) => c \in Paths /\ ~Watching(c))
    BY DEF Watching, Unwatching
  <2>2. CASE pc'[c] = "err"
    <3>1. watches' = watches
      BY <2>2 DEF AgentRuns, Goes, TypeOK
    <3> QED BY <2>2, <3>1 DEF TypeOK
  <2>3. CASE pc'[c] = "ok" /\ (Watching(c) \/ c \in Again)
    <3>1. watches' = [watches EXCEPT ![at[c]] = @ \cup {RepoOf(c)}] /\ RepoOf(c) \in Paths
      BY <2>1, <2>3 DEF AgentRuns, Goes, TypeOK, RepoOf
    <3> QED BY <1>a, <3>1 DEF TypeOK
  <2>4. CASE pc'[c] = "ok" /\ Unwatching(c)
    <3>1. watches' = [watches EXCEPT ![at[c]] = @ \ {c}] /\ ~Watching(c) /\ c \notin Again
      BY <2>1, <2>4 DEF AgentRuns, Goes, TypeOK
    <3> QED BY <1>a, <2>4, <3>1 DEF TypeOK
  <2>5. CASE pc'[c] = "ok" /\ ~Watching(c) /\ c \notin Again /\ ~Unwatching(c)
    <3>1. watches' = [watches EXCEPT ![at[c]] = @]
      BY <2>5 DEF AgentRuns, Goes, TypeOK
    <3> QED BY <1>a, <2>5, <3>1 DEF TypeOK
  <2> QED BY <1>b, <2>2, <2>3, <2>4, <2>5

<1>1. TypeOK'
  BY <1>a, <1>b, <1>c DEF tabVars, hostVars, TypeOK
<1>2. CallersFit'
  BY DEF AgentRuns, Goes, tabVars, CallersFit, Unwatching, TypeOK
<1>3. OneConnects'
  BY DEF AgentRuns, Goes, hostVars, OneConnects, Alive, TypeOK
<1>4. OpenedFirst'
  BY DEF AgentRuns, Goes, tabVars, hostVars, OpenedFirst, Underway, Watching, TypeOK
<1>5. AckedIsKept'
  <2> SUFFICES ASSUME NEW r \in Paths, Watching(r), pc'[r] = "ok", at[r] \in up
               PROVE  r \in watches'[at[r]]
    BY <1>a DEF AckedIsKept, Watching, tabVars
  <2>1. r \in Callers /\ ~Unwatching(r) /\ r \notin Again /\ RepoOf(r) = r
    BY DEF Watching, Unwatching, RepoOf
  <2>2. CASE r = c
    BY <1>c, <2>1, <2>2
  <2>3. CASE r # c
    <3>1. pc[r] = "ok"
      BY <1>b, <2>1, <2>3
    <3>2. r \in watches[at[r]] /\ at[r] \in Sessions
      BY <2>1, <3>1 DEF AckedIsKept, TypeOK, Sessions
    <3> QED BY <1>c, <2>3, <3>2
  <2> QED BY <2>2, <2>3
<1>6. ConfirmedIsOpen'
  BY DEF AgentRuns, tabVars, hostVars, ConfirmedIsOpen
<1>7. ClosedFailsAll'
  BY DEF AgentRuns, Goes, ClosedFailsAll, Waiting, TypeOK
<1>8. OneSession'
  BY DEF AgentRuns, hostVars, OneSession
<1>9. WatchSurvives'
  <2> SUFFICES ASSUME Alive, NEW r \in confirmed, session \in up
               PROVE  r \in watches'[session] \/ pc'[<<r, session>>] \in Going
    BY <1>a DEF WatchSurvives, Going, Alive, hostVars
  <2>1. session \in Sessions /\ r \in Paths /\ <<r, session>> \in Again
    BY DEF Alive, Sessions, TypeOK
  <2>2. r \in watches[session] \/ pc[<<r, session>>] \in Going
    BY DEF WatchSurvives, Going
  <2>3. CASE r \in watches[session]
    <3>1. ~(c = r /\ Unwatching(c))
      <4> SUFFICES ASSUME c = r, Unwatching(c) PROVE FALSE
        OBVIOUS
      <4>1. queue[r] \in Seq(Ops) /\ queue[r] # <<>> /\ Head(queue[r]) = "unwatch"
        BY <2>1 DEF Unwatching, TypeOK
      <4>2. 1 \in 1..Len(queue[r]) /\ queue[r][1] = "unwatch"
        BY <4>1
      <4> QED BY <4>2 DEF ConfirmedIsOpen
    <3> QED BY <1>c, <2>1, <2>3, <3>1
  <2>4. CASE pc[<<r, session>>] \in Going /\ c # <<r, session>>
    BY <1>b, <2>1, <2>4
  <2>5. CASE c = <<r, session>>
    <3>1. at[c] = session /\ RepoOf(c) = r /\ c \in Again /\ ~Unwatching(c)
      BY <2>1, <2>5 DEF CallersFit, RepoOf, Unwatching
    <3> QED BY <1>b, <1>c, <2>5, <3>1 DEF Going
  <2> QED BY <2>2, <2>3, <2>4, <2>5
<1> QED BY <1>1, <1>2, <1>3, <1>4, <1>5, <1>6, <1>7, <1>8, <1>9

\* An answer finds the request that waits for it.
LEMMA RoutesKeeps ==
  ASSUME IInv, NEW c \in Callers, Routes(c)
  PROVE  IInv'
<1> USE CallersAssumption, BoundsAssumption, Apart DEF IInv, InFlight
<1>1. TypeOK'
  BY DEF Routes, Goes, tabVars, hostVars, sessionVars, TypeOK, Steps
<1>2. CallersFit'
  BY DEF Routes, Goes, tabVars, sessionVars, CallersFit, Asked, Unwatching
<1>3. OneConnects'
  BY DEF Routes, Goes, hostVars, sessionVars, OneConnects, Alive
<1>4. OpenedFirst'
  BY DEF Routes, Goes, tabVars, hostVars, sessionVars, OpenedFirst, Underway, Watching
<1>5. AckedIsKept'
  BY DEF Routes, Goes, tabVars, sessionVars, AckedIsKept, Watching
<1>6. ConfirmedIsOpen'
  BY DEF Routes, tabVars, hostVars, ConfirmedIsOpen, OpenedFirst, Underway, Watching
<1>7. ClosedFailsAll'
  BY DEF Routes, Goes, sessionVars, ClosedFailsAll, Waiting
<1>8. OneSession'
  BY DEF Routes, hostVars, sessionVars, OneSession
<1>9. WatchSurvives'
  <2> SUFFICES ASSUME Alive, NEW r \in confirmed', session \in up
               PROVE  r \in watches[session] \/ pc'[<<r, session>>] \in Going
    BY DEF Routes, WatchSurvives, Going, Alive, hostVars, sessionVars
  <2>1. session \in Sessions /\ c \in Callers
    BY DEF Alive, Sessions, TypeOK
  <2>2. CASE r \notin confirmed
    <3>1. r = c /\ Watching(c) /\ pc[c] = "ok" /\ c \in Paths
      BY <2>2 DEF Routes, Watching
    <3>2. at[c] = session
      BY <3>1 DEF Routes, OneSession, CallersFit, Asked
    <3> QED BY <3>1, <3>2 DEF AckedIsKept
  <2>3. CASE r \in confirmed
    <3>1. <<r, session>> \in Again /\ r \in Paths
      BY <2>1, <2>3 DEF TypeOK
    <3>2. r \in watches[session] \/ pc[<<r, session>>] \in Going
      BY <2>3 DEF WatchSurvives, Going
    <3>3. CASE c = <<r, session>> /\ pc[c] \in Going
      <4>1. pc[c] = "err" /\ RepoOf(c) = r /\ c \notin Paths
        BY <3>1, <3>3 DEF Routes, Going, RepoOf
      <4>2. confirmed' = confirmed \ {r}
        BY <4>1 DEF Routes, Watching
      <4> QED BY <4>2
    <3> QED BY <3>1, <3>2, <3>3 DEF Routes, Goes, TypeOK
  <2> QED BY <2>2, <2>3
<1> QED BY <1>1, <1>2, <1>3, <1>4, <1>5, <1>6, <1>7, <1>8, <1>9

\* The stream ends before anybody has noticed.
LEMMA StreamEndsKeeps ==
  ASSUME IInv, NEW s \in Sessions, StreamEnds(s)
  PROVE  IInv'
<1> USE CallersAssumption, BoundsAssumption, Apart DEF IInv, InFlight
<1>1. TypeOK'
  BY DEF StreamEnds, tabVars, hostVars, TypeOK
<1>2. CallersFit'
  BY DEF StreamEnds, tabVars, CallersFit, Unwatching
<1>3. OneConnects'
  BY DEF StreamEnds, hostVars, OneConnects, Alive
<1>4. OpenedFirst'
  BY DEF StreamEnds, tabVars, hostVars, OpenedFirst, Watching
<1>5. AckedIsKept'
  BY DEF StreamEnds, tabVars, AckedIsKept, Watching
<1>6. ConfirmedIsOpen'
  BY DEF StreamEnds, tabVars, hostVars, ConfirmedIsOpen
<1>7. ClosedFailsAll'
  BY DEF StreamEnds, ClosedFailsAll, Waiting
<1>8. OneSession'
  BY DEF StreamEnds, hostVars, OneSession
<1>9. WatchSurvives'
  BY DEF StreamEnds, hostVars, WatchSurvives, Alive
<1> QED BY <1>1, <1>2, <1>3, <1>4, <1>5, <1>6, <1>7, <1>8, <1>9

\* The reader that sees the end fails every request still registered.
LEMMA ReaderClosesKeeps ==
  ASSUME IInv, NEW s \in Sessions, ReaderCloses(s)
  PROVE  IInv'
<1> USE CallersAssumption, BoundsAssumption, Apart DEF IInv, InFlight
<1>1. TypeOK'
  BY DEF ReaderCloses, PcFailing, tabVars, hostVars, TypeOK, Steps
<1>2. CallersFit'
  BY DEF ReaderCloses, PcFailing, Waiting, tabVars, CallersFit, Unwatching
<1>3. OneConnects'
  BY DEF ReaderCloses, PcFailing, hostVars, OneConnects, Alive
<1>4. OpenedFirst'
  BY DEF ReaderCloses, PcFailing, Waiting, tabVars, hostVars, OpenedFirst, Watching
<1>5. AckedIsKept'
  BY DEF ReaderCloses, PcFailing, tabVars, AckedIsKept, Watching
<1>6. ConfirmedIsOpen'
  BY DEF ReaderCloses, tabVars, hostVars, ConfirmedIsOpen
<1>7. ClosedFailsAll'
  BY DEF ReaderCloses, PcFailing, Waiting, ClosedFailsAll
<1>8. OneSession'
  BY DEF ReaderCloses, OneSession
<1>9. WatchSurvives'
  <2>1. \A a \in Again : pc[a] \in Going /\ a[2] \notin closed' => pc'[a] \in Going
    BY DEF ReaderCloses, PcFailing, Waiting, CallersFit
  <2>2. /\ confirmed' = confirmed /\ session' = session /\ closed \subseteq closed'
        /\ up' = up /\ watches' = watches /\ session \in 0..MaxSessions
    BY DEF ReaderCloses, hostVars, TypeOK
  <2> QED BY <2>1, <2>2, SurvivesAgain
<1> QED BY <1>1, <1>2, <1>3, <1>4, <1>5, <1>6, <1>7, <1>8, <1>9

\* A call that ends leaves the chain of its tab.
LEMMA EndsKeeps ==
  ASSUME IInv, NEW c \in Callers, Ends(c)
  PROVE  IInv'
<1> USE CallersAssumption, BoundsAssumption, Apart DEF IInv, InFlight
<1>a. /\ pc[c] \in {"done", "failed"} /\ ~Unwatching(c) /\ pc' = [pc EXCEPT ![c] = "idle"]
      /\ UNCHANGED <<open, gestures, reads, at, hostVars, sessionVars, confirmed>>
      /\ IF c \in Paths THEN Settles(c) ELSE UNCHANGED queue
  BY DEF Ends, Goes
<1>b. c \in Paths => queue[c] # <<>>
  BY <1>a DEF CallersFit
<1>c. \A p \in Paths : p # c =>
        queue'[p] = queue[p] /\ (Watching(p)' <=> Watching(p)) /\ (Unwatching(p)' <=> Unwatching(p))
  BY <1>a, <1>b, SettleKeepsCalls DEF Watching, Unwatching
<1>d. queue' \in [Paths -> Seq(Ops)]
  BY <1>a, <1>b, SettleHead DEF TypeOK

<1>1. TypeOK'
  BY <1>a, <1>d DEF TypeOK, Steps, hostVars, sessionVars
<1>2. CallersFit'
  <2>1. \A d \in Callers : pc[d] = "closes" => d \in Paths
    BY DEF CallersFit, Unwatching
  <2> QED BY <1>a, <1>c, <2>1 DEF CallersFit, Asked, TypeOK, hostVars, sessionVars
<1>3. OneConnects'
  BY DEF Ends, Goes, hostVars, sessionVars, OneConnects, Alive
<1>4. OpenedFirst'
  BY <1>a, <1>c DEF OpenedFirst, Underway, hostVars, sessionVars
<1>5. AckedIsKept'
  BY <1>a, <1>c DEF AckedIsKept, sessionVars
<1>6. ConfirmedIsOpen'
  <2> SUFFICES ASSUME NEW r \in confirmed, NEW k \in 1..Len(queue'[r])
               PROVE  r \in repos /\ queue'[r][k] = "watch"
    BY <1>a DEF ConfirmedIsOpen, hostVars
  <2>1. r \in Paths
    BY DEF TypeOK
  <2>2. CASE r = c
    <3>1. k \in 1..Len(queue'[c]) /\ Settles(c) /\ queue[c] # <<>> /\ c \in Paths
      BY <1>a, <1>b, <2>1, <2>2
    <3>2. k + 1 \in 1..Len(queue[c]) /\ queue'[c][k] = queue[c][k + 1]
      BY <3>1, SettleHead
    <3> QED BY <2>2, <3>2 DEF ConfirmedIsOpen
  <2>3. CASE r # c
    BY <1>c, <2>1, <2>3 DEF ConfirmedIsOpen
  <2> QED BY <2>2, <2>3
<1>7. ClosedFailsAll'
  BY DEF Ends, Goes, sessionVars, ClosedFailsAll, Waiting
<1>8. OneSession'
  BY DEF Ends, hostVars, sessionVars, OneSession
<1>9. WatchSurvives'
  <2>1. \A a \in Again : pc[a] \in Going /\ a[2] \notin closed' => pc'[a] \in Going
    BY DEF Ends, Goes, Going
  <2> QED BY <2>1, SurvivesAgain DEF Ends, Goes, hostVars, sessionVars, TypeOK
<1> QED BY <1>1, <1>2, <1>3, <1>4, <1>5, <1>6, <1>7, <1>8, <1>9

\* An unwatch that failed still goes on to take its repository off the host.
LEMMA UnwatchFailsKeeps ==
  ASSUME IInv, NEW c \in Callers, UnwatchFails(c)
  PROVE  IInv'
<1> USE CallersAssumption, BoundsAssumption, Apart DEF IInv, InFlight
<1>1. TypeOK'
  BY DEF UnwatchFails, Goes, tabVars, hostVars, sessionVars, TypeOK, Steps
<1>2. CallersFit'
  BY DEF UnwatchFails, Goes, tabVars, sessionVars, CallersFit, Asked, Unwatching
<1>3. OneConnects'
  BY DEF UnwatchFails, Goes, hostVars, sessionVars, OneConnects, Alive
<1>4. OpenedFirst'
  BY DEF UnwatchFails, Goes, tabVars, hostVars, sessionVars, OpenedFirst, Underway, Watching
<1>5. AckedIsKept'
  BY DEF UnwatchFails, Goes, tabVars, sessionVars, AckedIsKept, Watching
<1>6. ConfirmedIsOpen'
  BY DEF UnwatchFails, tabVars, hostVars, ConfirmedIsOpen
<1>7. ClosedFailsAll'
  BY DEF UnwatchFails, Goes, sessionVars, ClosedFailsAll, Waiting
<1>8. OneSession'
  BY DEF UnwatchFails, hostVars, sessionVars, OneSession
<1>9. WatchSurvives'
  <2>1. \A a \in Again : pc[a] \in Going /\ a[2] \notin closed' => pc'[a] \in Going
    BY DEF UnwatchFails, Goes, Going
  <2> QED BY <2>1, SurvivesAgain DEF UnwatchFails, Goes, tabVars, hostVars, sessionVars, TypeOK
<1> QED BY <1>1, <1>2, <1>3, <1>4, <1>5, <1>6, <1>7, <1>8, <1>9

\* The last repository that is closed takes the session with it.
LEMMA ClosedKeeps ==
  ASSUME IInv, NEW c \in Callers, Closed(c)
  PROVE  IInv'
<1> USE CallersAssumption, BoundsAssumption, Apart DEF IInv, InFlight
<1>a. /\ pc[c] = "closes" /\ holder = None /\ repos' = repos \ {c} /\ Settles(c)
      /\ UNCHANGED <<open, gestures, reads, at, holder, made, confirmed>>
  BY DEF Closed
<1>b. c \in Paths /\ Unwatching(c) /\ queue[c] # <<>> /\ c \notin confirmed
  BY <1>a DEF CallersFit, Unwatching, ConfirmedIsOpen
<1>c. \A p \in Paths : p # c =>
        queue'[p] = queue[p] /\ (Watching(p)' <=> Watching(p)) /\ (Unwatching(p)' <=> Unwatching(p))
  BY <1>a, <1>b, SettleKeepsCalls
<1>d. queue' \in [Paths -> Seq(Ops)]
  BY <1>a, <1>b, SettleHead
<1>e. /\ pc' \in [Callers -> Steps] /\ pc'[c] = "idle"
      /\ \A d \in Callers : d # c => pc'[d] = pc[d] \/ (pc[d] # "idle" /\ pc'[d] = "failed")
      /\ \A d \in Callers : pc'[d] \in {"registered", "sent", "ok", "err"} => at[d] \notin closed'
      /\ closed \subseteq closed' /\ closed' \subseteq 1..made
      /\ up' \subseteq up /\ watches' \in [Sessions -> SUBSET Paths]
      /\ \A s \in up' : watches'[s] = watches[s]
      /\ session' \in 0..made /\ 1..made \ closed' \subseteq {session'}
  <2>1. CASE repos' = {}
    BY <1>a, <2>1, TakesAll DEF Closed, TypeOK
  <2>2. CASE repos' # {}
    <3>1. UNCHANGED <<session, closed, up, watches>> /\ pc' = [pc EXCEPT ![c] = "idle"]
      BY <2>2 DEF Closed, Goes
    <3> QED BY <3>1, <1>a DEF TypeOK, Steps, OneSession, ClosedFailsAll, Waiting
  <2> QED BY <2>1, <2>2
<1>f. session' = session \/ session' = 0
  BY <1>a, TakesAll DEF Closed

<1>1. TypeOK'
  BY <1>a, <1>d, <1>e DEF TypeOK
<1>2. CallersFit'
  <2> SUFFICES ASSUME NEW d \in Callers
               PROVE  /\ pc'[d] = "opens" => d \in Paths
                      /\ pc'[d] = "closes" => Unwatching(d)'
                      /\ d \in Paths /\ pc'[d] # "idle" => queue'[d] # <<>>
                      /\ d \in Again => at[d] = d[2] /\ pc'[d] \notin {"asks", "connects"}
                      /\ pc'[d] \in Asked => at[d] \in 1..made
    BY <1>a DEF CallersFit
  <2>1. CASE d = c
    BY <1>b, <1>e, <2>1 DEF Asked
  <2>2. CASE d # c
    <3>1. pc[d] = "closes" => d \in Paths /\ Unwatching(d)
      BY DEF CallersFit, Unwatching
    <3>2. pc'[d] = pc[d] \/ (pc[d] # "idle" /\ pc'[d] = "failed")
      BY <1>e, <2>2
    <3>3. d \in Paths => queue'[d] = queue[d] /\ (Unwatching(d)' <=> Unwatching(d))
      BY <1>c, <2>2
    <3>4. d \in Paths /\ pc'[d] # "idle" => queue'[d] # <<>>
      BY <3>2, <3>3 DEF CallersFit
    <3> QED BY <3>1, <3>2, <3>3, <3>4 DEF CallersFit, Asked
  <2> QED BY <2>1, <2>2
<1>3. OneConnects'
  BY <1>a, <1>e DEF OneConnects
<1>4. OpenedFirst'
  BY <1>a, <1>c, <1>e DEF OpenedFirst, Underway
<1>5. AckedIsKept'
  <2>1. \A p \in Paths : p # c /\ Watching(p)' /\ pc'[p] = "ok" /\ at[p] \in up' => p \in watches'[at[p]]
    BY <1>c, <1>e DEF AckedIsKept
  <2> QED BY <1>a, <1>e, <2>1 DEF AckedIsKept
<1>6. ConfirmedIsOpen'
  BY <1>a, <1>b, <1>c DEF ConfirmedIsOpen, TypeOK
<1>7. ClosedFailsAll'
  BY <1>a, <1>e DEF ClosedFailsAll, Waiting
<1>8. OneSession'
  BY <1>a, <1>e DEF OneSession
<1>9. WatchSurvives'
  <2>1. CASE session' = 0
    BY <2>1 DEF WatchSurvives, Alive
  <2>2. CASE session' = session /\ session # 0
    <3>1. repos' # {}
      BY <1>a, <2>2, TakesAll DEF Closed
    <3>2. \A a \in Again : pc[a] \in Going /\ a[2] \notin closed' => pc'[a] \in Going
      BY <1>b, <3>1 DEF Closed, Goes, TypeOK
    <3>3. session \in 0..MaxSessions
      BY DEF TypeOK
    <3> QED BY <1>a, <1>e, <2>2, <3>2, <3>3, SurvivesAgain
  <2> QED BY <1>f, <2>1, <2>2
<1> QED BY <1>1, <1>2, <1>3, <1>4, <1>5, <1>6, <1>7, <1>8, <1>9

\* Leaving the dialog asks for its session to go, unless a tab uses it.
LEMMA LeavesKeeps ==
  ASSUME IInv, Leaves
  PROVE  IInv'
<1> USE CallersAssumption, BoundsAssumption, Apart DEF IInv, InFlight
<1>1. TypeOK'
  BY DEF Leaves, Goes, tabVars, hostVars, sessionVars, TypeOK, Steps
<1>2. CallersFit'
  BY DEF Leaves, Goes, tabVars, sessionVars, CallersFit, Asked, Unwatching
<1>3. OneConnects'
  BY DEF Leaves, Goes, hostVars, sessionVars, OneConnects, Alive
<1>4. OpenedFirst'
  BY DEF Leaves, Goes, tabVars, hostVars, sessionVars, OpenedFirst, Watching
<1>5. AckedIsKept'
  BY DEF Leaves, Goes, tabVars, sessionVars, AckedIsKept, Watching
<1>6. ConfirmedIsOpen'
  BY DEF Leaves, tabVars, hostVars, ConfirmedIsOpen
<1>7. ClosedFailsAll'
  BY DEF Leaves, Goes, sessionVars, ClosedFailsAll, Waiting
<1>8. OneSession'
  BY DEF Leaves, hostVars, sessionVars, OneSession
<1>9. WatchSurvives'
  <2>1. \A a \in Again : pc[a] \in Going /\ a[2] \notin closed' => pc'[a] \in Going
    BY DEF Leaves, Goes
  <2> QED BY <2>1, SurvivesAgain DEF Leaves, Goes, tabVars, hostVars, sessionVars, TypeOK
<1> QED BY <1>1, <1>2, <1>3, <1>4, <1>5, <1>6, <1>7, <1>8, <1>9

\* A disconnect takes the session from the table and fails its requests.
LEMMA DisconnectsKeeps ==
  ASSUME IInv, Disconnects
  PROVE  IInv'
<1> USE CallersAssumption, BoundsAssumption, Apart DEF IInv, InFlight
<1>a. /\ pc[Dialog] = "disconnects" /\ holder = None /\ repos' = {} /\ confirmed' = {}
      /\ UNCHANGED <<tabVars, at, holder, made>> /\ Takes(Dialog)
  BY DEF Disconnects
<1>b. /\ session' = 0 /\ closed \subseteq closed' /\ closed' \subseteq 1..made
      /\ 1..made \subseteq closed'
      /\ up' \subseteq up /\ watches' \in [Sessions -> SUBSET Paths]
      /\ \A s \in up' : watches'[s] = watches[s]
      /\ pc' \in [Callers -> Steps] /\ pc'[Dialog] = "idle"
      /\ \A d \in Callers : d # Dialog => pc'[d] = pc[d] \/ (pc[d] # "idle" /\ pc'[d] = "failed")
      /\ \A d \in Callers : pc'[d] \in {"registered", "sent", "ok", "err"} => at[d] \notin closed'
  BY <1>a, TakesAll
<1>c. \A p : (Watching(p)' <=> Watching(p)) /\ (Unwatching(p)' <=> Unwatching(p))
  BY <1>a DEF Watching, Unwatching, tabVars

<1>1. TypeOK'
  BY <1>a, <1>b DEF TypeOK, tabVars
<1>2. CallersFit'
  <2> SUFFICES ASSUME NEW d \in Callers
               PROVE  /\ pc'[d] = "opens" => d \in Paths
                      /\ pc'[d] = "closes" => Unwatching(d)
                      /\ d \in Paths /\ pc'[d] # "idle" => queue[d] # <<>>
                      /\ d \in Again => at[d] = d[2] /\ pc'[d] \notin {"asks", "connects"}
                      /\ pc'[d] \in Asked => at[d] \in 1..made
    BY <1>a, <1>c DEF CallersFit, tabVars
  <2>1. CASE d = Dialog
    BY <1>b, <2>1 DEF Asked
  <2>2. CASE d # Dialog
    <3>1. pc'[d] = pc[d] \/ (pc[d] # "idle" /\ pc'[d] = "failed")
      BY <1>b, <2>2
    <3> QED BY <3>1 DEF CallersFit, Asked
  <2> QED BY <2>1, <2>2
<1>3. OneConnects'
  BY <1>a, <1>b DEF OneConnects
<1>4. OpenedFirst'
  <2>1. \A p \in Paths : pc'[p] \in Underway => at[p] \in closed'
    BY <1>b DEF CallersFit, Asked, Underway
  <2> QED BY <1>a, <2>1 DEF OpenedFirst
<1>5. AckedIsKept'
  BY <1>a, <1>b, <1>c DEF AckedIsKept
<1>6. ConfirmedIsOpen'
  BY <1>a DEF ConfirmedIsOpen
<1>7. ClosedFailsAll'
  BY <1>a, <1>b DEF ClosedFailsAll, Waiting
<1>8. OneSession'
  BY <1>a, <1>b DEF OneSession
<1>9. WatchSurvives'
  BY <1>a DEF WatchSurvives
<1> QED BY <1>1, <1>2, <1>3, <1>4, <1>5, <1>6, <1>7, <1>8, <1>9

-----------------------------------------------------------------------------
(* The theorems.                                                             *)

\* At the start there is no session and no tab.
LEMMA InitHolds == Init => IInv
<1> SUFFICES ASSUME Init PROVE IInv
  OBVIOUS
<1> USE CallersAssumption, BoundsAssumption, Apart DEF Init
<1>1. TypeOK
  BY DEF TypeOK, Steps, Sessions
<1>2. CallersFit /\ OneConnects /\ OpenedFirst /\ AckedIsKept /\ ConfirmedIsOpen
  BY DEF CallersFit, OneConnects, OpenedFirst, AckedIsKept, ConfirmedIsOpen, Asked, Underway
<1>3. ClosedFailsAll /\ OneSession /\ WatchSurvives
  BY DEF ClosedFailsAll, OneSession, WatchSurvives
<1> QED BY <1>1, <1>2, <1>3 DEF IInv

\* A step that changes nothing breaks nothing.
LEMMA StutterKeeps == ASSUME IInv, UNCHANGED vars PROVE IInv'
BY DEF IInv, vars, tabVars, hostVars, sessionVars, TypeOK, CallersFit, OneConnects, OpenedFirst,
   AckedIsKept, ConfirmedIsOpen, ClosedFailsAll, OneSession, WatchSurvives, Waiting, Alive,
   Watching, Unwatching, InFlight

\* Every step keeps the invariant.
LEMMA StepKeeps == ASSUME IInv, [Next]_vars PROVE IInv'
<1>1. ASSUME NEW r \in Paths, OpensTab(r) \/ ClosesTab(r) PROVE IInv'
  BY <1>1, OpensTabKeeps, ClosesTabKeeps
<1>2. ASSUME NEW c \in Callers, Calls(c) \/ Step(c) PROVE IInv'
  BY <1>2, CallsKeeps, GetsSessionKeeps, FindsNoneKeeps, ConnectsKeeps, ConnectedKeeps,
     ConnectFailsKeeps, OpensKeeps, RegistersKeeps, WritesKeeps, WriteFailsKeeps,
     AgentRunsKeeps, RoutesKeeps, EndsKeeps, UnwatchFailsKeeps, ClosedKeeps DEF Step
<1>3. ASSUME NEW s \in Sessions, StreamEnds(s) \/ ReaderCloses(s) PROVE IInv'
  BY <1>3, StreamEndsKeeps, ReaderClosesKeeps
<1>4. ASSUME Leaves \/ Disconnects PROVE IInv'
  BY <1>4, LeavesKeeps, DisconnectsKeeps
<1> QED BY <1>1, <1>2, <1>3, <1>4, StutterKeeps DEF Next

\* So it always holds.
THEOREM Inductive == Spec => []IInv
BY InitHolds, StepKeeps, PTL DEF Spec

\* No request waits on a session that is closed, whichever of a broken write, the
\* end of the stream and the last close of the host got to it first.
THEOREM NothingWaitsOnAClosedSession == Spec => []ClosedFailsAll
<1>1. IInv => ClosedFailsAll
  BY DEF IInv
<1> QED BY <1>1, Inductive, PTL

\* The host's mutex, held across the connect, is what makes the session the only one.
THEOREM HostHasOneSession == Spec => []OneSession
<1>1. IInv => OneSession
  BY DEF IInv
<1> QED BY <1>1, Inductive, PTL

\* A confirmed watch survives any number of lost connections.
THEOREM WatchesComeBack == Spec => []WatchSurvives
<1>1. IInv => WatchSurvives
  BY DEF IInv
<1> QED BY <1>1, Inductive, PTL

\* Every step keeps the types.
THEOREM HostIsTyped == Spec => []TypeOK
<1>1. IInv => TypeOK
  BY DEF IInv
<1> QED BY <1>1, Inductive, PTL
=============================================================================
