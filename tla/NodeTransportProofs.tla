-------------------------- MODULE NodeTransportProofs --------------------------
(***************************************************************************)
(* The safety of the session cache of NodeTransport, for any number of      *)
(* dispatches and of connections.  SessionCacheFresh is not inductive: a    *)
(* session that died must keep its promise in the cache until it closed,    *)
(* or its close listener would clear the promise of its successor.          *)
(***************************************************************************)
EXTENDS NodeTransport, TLAPS

(* The cache names every connection that has not failed or closed, so there  *)
(* is one of them at most, and names no other.                               *)
CacheInv ==
  /\ \A i \in Conns :
       conn[i] \in {"connecting", "open", "dead"} <=> sessionReady = i
  /\ session # None => session = sessionReady /\ conn[session] \in {"open", "dead"}

(* Who awaits a session awaits an attempt under way, and can use it.         *)
WaitInv ==
  /\ \A c \in Calls : at[c] = "awaitSession" =>
       /\ active[c] \in Conns /\ conn[active[c]] = "connecting"
       /\ ~kind[c].streaming
  /\ warm = "waiting" => prewarmReady \in Conns /\ conn[prewarmReady] = "connecting"

IInv == TypeOK /\ CacheInv /\ WaitInv /\ StreamsOffH2
-----------------------------------------------------------------------------
(* Initially nothing is connected and nobody waits. *)
LEMMA InitIInv == Init => IInv
BY ConstantsAssumption
   DEF Init, IInv, TypeOK, CacheInv, WaitInv, StreamsOffH2, Fates

(* getSession keeps the cache in order, interrupts no attempt under way, and  *)
(* hands out the connection the cache names, which has neither failed nor    *)
(* closed.                                                                   *)
LEMMA GetSessionKeeps ==
  ASSUME IInv, NEW i \in Conns, getSession(i)
  PROVE  /\ conn' \in [Conns -> {"unused", "connecting", "open", "dead", "closed",
                                 "failed"}]
         /\ {session', sessionReady'} \subseteq Conns \cup {None}
         /\ CacheInv'
         /\ \A j \in Conns : conn[j] = "connecting" => conn'[j] = "connecting"
         /\ conn'[i] \in {"connecting", "open", "dead"}
<1>1. CASE Live(session)
  BY <1>1, ConstantsAssumption
  DEF getSession, Live, IInv, TypeOK, CacheInv, sessionVars
<1>2. CASE ~Live(session) /\ sessionReady # None
  BY <1>2, ConstantsAssumption
  DEF getSession, Live, IInv, TypeOK, CacheInv, sessionVars
<1>3. CASE ~Live(session) /\ sessionReady = None
  BY <1>3, ConstantsAssumption
  DEF getSession, Live, IInv, TypeOK, CacheInv, sessionVars
<1>. QED
  BY <1>1, <1>2, <1>3

(* Dispatches that go on keep their types and do not wait any more; what     *)
(* goes over HTTP/2 can.                                                     *)
LEMMA ProceedKeeps ==
  ASSUME IInv, NEW S \in SUBSET Calls, NEW T \in SUBSET Calls, Proceed(S, T),
         \A c \in T : ~kind[c].streaming /\ kind[c].buffered,
         kind' = kind
  PROVE  /\ at' \in [Calls -> {"idle", "awaitSession", "h2", "undici", "response",
                               "error"}]
         /\ h2Wire' \in [Calls -> Fates \cup {"unsent", "transit"}]
         /\ undiciWire' \in [Calls -> Fates \cup {"unsent", "transit"}]
         /\ \A c \in Calls : at'[c] = "awaitSession" => at[c] = at'[c] /\ c \notin S \cup T
         /\ StreamsOffH2'
<1>1. /\ at \in [Calls -> {"idle", "awaitSession", "h2", "undici", "response", "error"}]
      /\ h2Wire \in [Calls -> Fates \cup {"unsent", "transit"}]
      /\ undiciWire \in [Calls -> Fates \cup {"unsent", "transit"}]
      /\ StreamsOffH2
  BY DEF IInv, TypeOK
<1>. QED
  BY <1>1 DEF Proceed, UndiciFate, StreamsOffH2
-----------------------------------------------------------------------------
(* The steps of a dispatch *)

(* A dispatch that gets its session goes on at once or awaits the attempt of  *)
(* that session.                                                             *)
LEMMA FetchKeeps == ASSUME IInv, NEW c \in Calls, Fetch(c) PROVE IInv'
<1>1. PICK i \in Conns :
        /\ getSession(i)
        /\ active' = [active EXCEPT ![c] = i]
        /\ CASE conn'[i] = "connecting" ->
                  /\ at' = [at EXCEPT ![c] = "awaitSession"]
                  /\ UNCHANGED <<h2Wire, undiciWire>>
             [] conn'[i] = "open" -> Proceed({c} \ Buffered({c}), Buffered({c}))
             [] OTHER -> Proceed({c}, {})
  BY DEF Fetch
<1>2. /\ ~kind[c].streaming
      /\ UNCHANGED <<kind, prewarmReady, warm, signalled>>
  BY DEF Fetch, prewarmVars
<1>3. /\ TypeOK
      /\ active' \in [Calls -> Conns \cup {None}]
      /\ \A d \in Calls : active'[d] = IF d = c THEN i ELSE active[d]
  BY <1>1 DEF IInv, TypeOK
<1>4. /\ conn' \in [Conns -> {"unused", "connecting", "open", "dead", "closed",
                              "failed"}]
      /\ {session', sessionReady'} \subseteq Conns \cup {None}
      /\ CacheInv'
      /\ \A j \in Conns : conn[j] = "connecting" => conn'[j] = "connecting"
  BY <1>1, GetSessionKeeps
<1>5. CASE conn'[i] = "connecting"
  <2>1. /\ at' = [at EXCEPT ![c] = "awaitSession"]
        /\ UNCHANGED <<h2Wire, undiciWire>>
    BY <1>1, <1>5
  <2>2. TypeOK'
    BY <1>2, <1>3, <1>4, <2>1 DEF TypeOK
  <2>3. WaitInv'
    BY <1>2, <1>3, <1>4, <1>5, <2>1 DEF IInv, TypeOK, WaitInv
  <2>4. StreamsOffH2'
    BY <1>2, <2>1 DEF IInv, StreamsOffH2
  <2>. QED
    BY <1>4, <2>2, <2>3, <2>4 DEF IInv
<1>6. CASE conn'[i] # "connecting"
  <2>1. PICK S \in SUBSET {c}, T \in SUBSET Buffered({c}) : Proceed(S, T) /\ S \cup T = {c}
    <3>1. CASE conn'[i] = "open"
      BY <1>1, <3>1 DEF Buffered
    <3>2. CASE conn'[i] # "open"
      BY <1>1, <1>6, <3>2
    <3>. QED
      BY <3>1, <3>2
  <2>2. /\ S \in SUBSET Calls /\ T \in SUBSET Calls
        /\ \A d \in T : ~kind[d].streaming /\ kind[d].buffered
    BY <1>2, <2>1 DEF Buffered
  <2>3. /\ at' \in [Calls -> {"idle", "awaitSession", "h2", "undici", "response",
                              "error"}]
        /\ h2Wire' \in [Calls -> Fates \cup {"unsent", "transit"}]
        /\ undiciWire' \in [Calls -> Fates \cup {"unsent", "transit"}]
        /\ \A d \in Calls : at'[d] = "awaitSession" => at[d] = at'[d] /\ d \notin S \cup T
        /\ StreamsOffH2'
    BY <1>2, <2>1, <2>2, ProceedKeeps
  <2>4. TypeOK'
    BY <1>2, <1>3, <1>4, <2>3 DEF TypeOK
  <2>5. WaitInv'
    BY <1>2, <1>3, <1>4, <2>1, <2>3 DEF IInv, WaitInv
  <2>. QED
    BY <1>4, <2>3, <2>4, <2>5 DEF IInv
<1>. QED
  BY <1>5, <1>6

(* A dispatch that turns to undici awaits no session.                        *)
LEMMA ToUndiciKeeps ==
  ASSUME IInv, NEW c \in Calls, Proceed({c}, {}),
         UNCHANGED <<kind, sessionVars, prewarmVars, active, signalled>>
  PROVE  IInv'
<1>1. UNCHANGED <<kind, conn, session, sessionReady, prewarmReady, warm, active, signalled>>
  BY DEF sessionVars, prewarmVars
<1>2. {c} \in SUBSET Calls /\ {} \in SUBSET Calls
  OBVIOUS
<1>3. /\ at' \in [Calls -> {"idle", "awaitSession", "h2", "undici", "response",
                            "error"}]
      /\ h2Wire' \in [Calls -> Fates \cup {"unsent", "transit"}]
      /\ undiciWire' \in [Calls -> Fates \cup {"unsent", "transit"}]
      /\ \A d \in Calls : at'[d] = "awaitSession" => at[d] = at'[d]
      /\ StreamsOffH2'
  BY <1>1, <1>2, ProceedKeeps
<1>4. TypeOK'
  BY <1>1, <1>3 DEF IInv, TypeOK
<1>5. CacheInv' /\ WaitInv'
  BY <1>1, <1>3 DEF IInv, CacheInv, WaitInv
<1>. QED
  BY <1>3, <1>4, <1>5 DEF IInv

(* Dispatches that settle, signals and what becomes of a request touch        *)
(* neither the session nor who awaits it.                                    *)
LEMMA CallStepKeeps ==
  ASSUME IInv, NEW c \in Calls,
         \/ H2Ends(c) \/ UndiciResponds(c) \/ UndiciFails(c) \/ Signal(c)
         \/ \E f \in Fates : ServeH2(c, f) \/ ServeUndici(c, f)
  PROVE  IInv'
<1>1. CASE H2Ends(c) \/ UndiciResponds(c) \/ UndiciFails(c)
  BY <1>1 DEF IInv, TypeOK, CacheInv, WaitInv, StreamsOffH2, sessionVars, prewarmVars,
              H2Ends, UndiciResponds, UndiciFails
<1>2. CASE Signal(c)
  BY <1>2 DEF IInv, TypeOK, CacheInv, WaitInv, StreamsOffH2, sessionVars, prewarmVars,
              callVars, Signal
<1>3. CASE \E f \in Fates : ServeH2(c, f)
  BY <1>3 DEF IInv, TypeOK, CacheInv, WaitInv, StreamsOffH2, sessionVars, prewarmVars,
              ServeH2, Fates
<1>4. CASE \E f \in Fates : ServeUndici(c, f)
  BY <1>4 DEF IInv, TypeOK, CacheInv, WaitInv, StreamsOffH2, sessionVars, prewarmVars,
              ServeUndici, Fates
<1>. QED
  BY <1>1, <1>2, <1>3, <1>4
-----------------------------------------------------------------------------
(* The events of a connection *)

(* All dispatches that await connection i go on when it settles.              *)
LEMMA WaitersGoOn ==
  ASSUME IInv, NEW i \in Conns, NEW T \in SUBSET Buffered(Waiters(i)),
         Proceed(Waiters(i) \ T, T),
         UNCHANGED <<kind, active, signalled>>
  PROVE  /\ at' \in [Calls -> {"idle", "awaitSession", "h2", "undici", "response",
                               "error"}]
         /\ h2Wire' \in [Calls -> Fates \cup {"unsent", "transit"}]
         /\ undiciWire' \in [Calls -> Fates \cup {"unsent", "transit"}]
         /\ StreamsOffH2'
         /\ \A c \in Calls : at'[c] = "awaitSession" =>
              at[c] = "awaitSession" /\ active'[c] = active[c] /\ active[c] # i
<1>1. /\ Waiters(i) \ T \in SUBSET Calls /\ T \in SUBSET Calls
      /\ \A c \in T : ~kind[c].streaming /\ kind[c].buffered
  BY DEF IInv, WaitInv, Waiters, Buffered
<1>2. /\ at' \in [Calls -> {"idle", "awaitSession", "h2", "undici", "response",
                            "error"}]
      /\ h2Wire' \in [Calls -> Fates \cup {"unsent", "transit"}]
      /\ undiciWire' \in [Calls -> Fates \cup {"unsent", "transit"}]
      /\ \A c \in Calls : at'[c] = "awaitSession" =>
           at[c] = at'[c] /\ c \notin (Waiters(i) \ T) \cup T
      /\ StreamsOffH2'
  BY <1>1, ProceedKeeps
<1>. QED
  BY <1>2 DEF Waiters

(* The connection that opens is the one the cache names.                     *)
LEMMA ConnectedKeeps == ASSUME IInv, NEW i \in Conns, Connected(i) PROVE IInv'
<1>1. /\ conn[i] = "connecting" /\ conn' = [conn EXCEPT ![i] = "open"]
      /\ session' = i
      /\ Proceed(Waiters(i) \ Buffered(Waiters(i)), Buffered(Waiters(i)))
      /\ warm' = IF warm = "waiting" /\ prewarmReady = i THEN "resolved" ELSE warm
      /\ UNCHANGED <<kind, sessionReady, prewarmReady, active, signalled>>
  BY DEF Connected
<1>2. /\ at' \in [Calls -> {"idle", "awaitSession", "h2", "undici", "response",
                            "error"}]
      /\ h2Wire' \in [Calls -> Fates \cup {"unsent", "transit"}]
      /\ undiciWire' \in [Calls -> Fates \cup {"unsent", "transit"}]
      /\ StreamsOffH2'
      /\ \A c \in Calls : at'[c] = "awaitSession" =>
           at[c] = "awaitSession" /\ active'[c] = active[c] /\ active[c] # i
  BY <1>1, WaitersGoOn
<1>3. TypeOK'
  BY <1>1, <1>2 DEF IInv, TypeOK
<1>4. CacheInv'
  BY <1>1, ConstantsAssumption DEF IInv, TypeOK, CacheInv
<1>5. WaitInv'
  BY <1>1, <1>2 DEF IInv, TypeOK, WaitInv
<1>. QED
  BY <1>2, <1>3, <1>4, <1>5 DEF IInv

(* The attempt that fails is the one the cache names, and nobody is left      *)
(* waiting for it.                                                           *)
LEMMA ConnectFailsKeeps == ASSUME IInv, NEW i \in Conns, ConnectFails(i) PROVE IInv'
<1>1. /\ conn[i] = "connecting" /\ conn' = [conn EXCEPT ![i] = "failed"]
      /\ sessionReady' = None
      /\ Proceed(Waiters(i), {})
      /\ warm' = IF warm = "waiting" /\ prewarmReady = i THEN "rejected" ELSE warm
      /\ UNCHANGED <<kind, session, prewarmReady, active, signalled>>
  BY DEF ConnectFails
<1>2. /\ at' \in [Calls -> {"idle", "awaitSession", "h2", "undici", "response",
                            "error"}]
      /\ h2Wire' \in [Calls -> Fates \cup {"unsent", "transit"}]
      /\ undiciWire' \in [Calls -> Fates \cup {"unsent", "transit"}]
      /\ StreamsOffH2'
      /\ \A c \in Calls : at'[c] = "awaitSession" =>
           at[c] = "awaitSession" /\ active'[c] = active[c] /\ active[c] # i
  <2>1. Proceed(Waiters(i) \ {}, {}) /\ {} \in SUBSET Buffered(Waiters(i))
    <3>1. Waiters(i) \ {} = Waiters(i)
      OBVIOUS
    <3>. QED
      BY <1>1, <3>1
  <2>. QED
    BY <1>1, <2>1, WaitersGoOn
<1>3. TypeOK'
  BY <1>1, <1>2 DEF IInv, TypeOK
<1>4. CacheInv'
  BY <1>1, ConstantsAssumption DEF IInv, TypeOK, CacheInv
<1>5. WaitInv'
  BY <1>1, <1>2 DEF IInv, TypeOK, WaitInv
<1>. QED
  BY <1>2, <1>3, <1>4, <1>5 DEF IInv

(* A session that died keeps its promise in the cache until it says so.      *)
LEMMA DiesKeeps == ASSUME IInv, NEW i \in Conns, Dies(i) PROVE IInv'
<1>1. /\ conn[i] = "open" /\ conn' = [conn EXCEPT ![i] = "dead"]
      /\ UNCHANGED <<kind, session, sessionReady, prewarmReady, warm, at, active, h2Wire,
                     undiciWire, signalled>>
  BY DEF Dies, prewarmVars, callVars
<1>2. TypeOK' /\ StreamsOffH2'
  BY <1>1 DEF IInv, TypeOK, StreamsOffH2
<1>3. CacheInv' /\ WaitInv'
  BY <1>1, ConstantsAssumption DEF IInv, TypeOK, CacheInv, WaitInv
<1>. QED
  BY <1>2, <1>3 DEF IInv

(* The promise that the close listener clears is that of its own session.    *)
LEMMA CloseKeeps == ASSUME IInv, NEW i \in Conns, Close(i) PROVE IInv'
<1>1. /\ conn[i] = "dead" /\ conn' = [conn EXCEPT ![i] = "closed"]
      /\ session' = IF session = i THEN None ELSE session
      /\ sessionReady' = None
      /\ UNCHANGED <<kind, prewarmReady, warm, at, active, h2Wire, undiciWire, signalled>>
  BY DEF Close, prewarmVars, callVars
<1>2. TypeOK' /\ StreamsOffH2'
  BY <1>1 DEF IInv, TypeOK, StreamsOffH2
<1>3. CacheInv' /\ WaitInv'
  BY <1>1, ConstantsAssumption DEF IInv, TypeOK, CacheInv, WaitInv
<1>. QED
  BY <1>2, <1>3 DEF IInv

(* prewarm() takes a promise of the cache or the one it took before; it waits *)
(* only for an attempt under way.                                            *)
LEMMA PrewarmKeeps == ASSUME IInv, Prewarm PROVE IInv'
<1>1. PICK i \in Conns :
        /\ IF prewarmReady = None THEN getSession(i)
           ELSE i = prewarmReady /\ UNCHANGED sessionVars
        /\ prewarmReady' = i
        /\ warm' = CASE conn'[i] = "connecting" -> "waiting"
                     [] conn'[i] = "failed"     -> "rejected"
                     [] OTHER                   -> "resolved"
  BY DEF Prewarm
<1>2. UNCHANGED <<kind, at, active, h2Wire, undiciWire, signalled>>
  BY DEF Prewarm, callVars
<1>3. /\ conn' \in [Conns -> {"unused", "connecting", "open", "dead", "closed",
                              "failed"}]
      /\ {session', sessionReady'} \subseteq Conns \cup {None}
      /\ CacheInv'
      /\ \A j \in Conns : conn[j] = "connecting" => conn'[j] = "connecting"
  <2>1. CASE prewarmReady = None
    BY <1>1, <2>1, GetSessionKeeps
  <2>2. CASE prewarmReady # None
    <3>1. UNCHANGED <<conn, session, sessionReady>>
      BY <1>1, <2>2 DEF sessionVars
    <3>. QED
      BY <3>1 DEF IInv, TypeOK, CacheInv
  <2>. QED
    BY <2>1, <2>2
<1>4. /\ warm' \in {"waiting", "rejected", "resolved"}
      /\ warm' = "waiting" => conn'[i] = "connecting"
  BY <1>1
<1>5. TypeOK' /\ StreamsOffH2'
  BY <1>1, <1>2, <1>3, <1>4 DEF IInv, TypeOK, StreamsOffH2
<1>6. WaitInv'
  BY <1>1, <1>2, <1>3, <1>4 DEF IInv, WaitInv
<1>. QED
  BY <1>3, <1>5, <1>6 DEF IInv

(* A caller of prewarm() that goes on waits no more.                         *)
LEMMA PrewarmReturnsKeeps == ASSUME IInv, PrewarmReturns PROVE IInv'
<1>1. /\ warm' = "idle"
      /\ UNCHANGED <<kind, conn, session, sessionReady, prewarmReady, at, active, h2Wire,
                     undiciWire, signalled>>
  BY DEF PrewarmReturns, sessionVars, callVars
<1>. QED
  BY <1>1 DEF IInv, TypeOK, CacheInv, WaitInv, StreamsOffH2
-----------------------------------------------------------------------------
(* The theorems *)

(* Every step keeps the invariant. *)
LEMMA NextKeeps == IInv /\ [Next]_vars => IInv'
<1>. SUFFICES ASSUME IInv, [Next]_vars PROVE IInv'
  OBVIOUS
<1>1. CASE Prewarm \/ PrewarmReturns
  BY <1>1, PrewarmKeeps, PrewarmReturnsKeeps
<1>2. CASE \E i \in Conns : Connected(i) \/ ConnectFails(i) \/ Dies(i) \/ Close(i)
  BY <1>2, ConnectedKeeps, ConnectFailsKeeps, DiesKeeps, CloseKeeps
<1>3. ASSUME NEW c \in Calls, Fetch(c) PROVE IInv'
  BY <1>3, FetchKeeps
<1>4. ASSUME NEW c \in Calls, StreamFetch(c) PROVE IInv'
  BY <1>4, ToUndiciKeeps DEF StreamFetch
<1>5. ASSUME NEW c \in Calls, H2Fails(c) PROVE IInv'
  BY <1>5, ToUndiciKeeps DEF H2Fails
<1>6. ASSUME NEW c \in Calls,
             \/ H2Ends(c) \/ UndiciResponds(c) \/ UndiciFails(c) \/ Signal(c)
             \/ \E f \in Fates : ServeH2(c, f) \/ ServeUndici(c, f)
      PROVE  IInv'
  BY <1>6, CallStepKeeps
<1>7. CASE UNCHANGED vars
  BY <1>7 DEF vars, sessionVars, prewarmVars, callVars, IInv, TypeOK, CacheInv, WaitInv,
              StreamsOffH2
<1>. QED
  BY <1>1, <1>2, <1>3, <1>4, <1>5, <1>6, <1>7 DEF Next

(* The inductive invariant holds throughout, whatever the number of          *)
(* dispatches and of reconnections of createNodeTransportFromModules.        *)
THEOREM Invariance == Spec => []IInv
BY InitIInv, NextKeeps, PTL DEF Spec

(* Every variable of the transport stays in its range.                       *)
THEOREM TypeCorrect == Spec => []TypeOK
<1>1. IInv => TypeOK
  BY DEF IInv
<1>. QED
  BY <1>1, Invariance, PTL

(* getSession leaves no two sessions open: connections that are being opened  *)
(* or are open are the one the cache names.                                  *)
THEOREM OneSessionCorrect == Spec => []OneSession
<1>1. IInv => OneSession
  BY DEF IInv, CacheInv, OneSession
<1>. QED
  BY <1>1, Invariance, PTL

(* The promise getSession hands out is never that of an attempt that failed   *)
(* or of a session that closed, and it is that of the session.               *)
THEOREM SessionCacheFreshCorrect == Spec => []SessionCacheFresh
<1>1. IInv => SessionCacheFresh
  BY ConstantsAssumption DEF IInv, TypeOK, CacheInv, SessionCacheFresh
<1>. QED
  BY <1>1, Invariance, PTL

(* No dispatch and no prewarm() awaits a connection attempt that is over.    *)
THEOREM WaitersOnLiveAttemptCorrect == Spec => []WaitersOnLiveAttempt
<1>1. IInv => WaitersOnLiveAttempt
  BY DEF IInv, WaitInv, WaitersOnLiveAttempt
<1>. QED
  BY <1>1, Invariance, PTL

(* No streamed response and no streamed body is ever sent over the session.  *)
THEOREM StreamsOffH2Correct == Spec => []StreamsOffH2
<1>1. IInv => StreamsOffH2
  BY DEF IInv
<1>. QED
  BY <1>1, Invariance, PTL
=============================================================================
