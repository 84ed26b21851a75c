----------------------------- MODULE NodeTransport -----------------------------
(***************************************************************************)
(* createNodeTransportFromModules (src/http.ts): the fetch of Node.js.  All *)
(* clients of one origin share one HTTP/2 session, opened on demand; what   *)
(* cannot go over it goes to the undici pool.  Each call here is one        *)
(* dispatch of #dispatch.  Event listeners and the microtasks they resume   *)
(* run to their end before the next event, so one event is one step.        *)
(***************************************************************************)
EXTENDS FiniteSets, Naturals

CONSTANTS Calls,  \* dispatches
          Conns,  \* connections http2.connect may open: bounds reconnection
          None,   \* undefined
          Kinds   \* the sorts of dispatch made

(* buffered: the body is a string, bytes or absent; streaming: made through  *)
(* streamFetch; repeatable: the method is idempotent.                        *)
DispatchKinds == [buffered : BOOLEAN, streaming : BOOLEAN, repeatable : BOOLEAN]

ASSUME ConstantsAssumption ==
  /\ None \notin Conns
  /\ Kinds \subseteq DispatchKinds

VARIABLES kind,          \* kind[c]: what dispatch c asks for
          conn,          \* conn[i]: state of connection i
          session,       \* the local variable of the factory
          sessionReady,  \* the connection whose promise it holds
          prewarmReady,  \* the connection whose promise it holds
          warm,          \* the last prewarm() call
          at,            \* where dispatch c is
          active,        \* the session dispatch c got or waits for
          signalled,     \* init.signal of c has fired: timeout or caller
          h2Wire,        \* fate of the request c sent over HTTP/2
          undiciWire     \* fate of the request c sent through undici

sessionVars == <<conn, session, sessionReady>>
prewarmVars == <<prewarmReady, warm>>
callVars == <<at, active, h2Wire, undiciWire>>
vars == <<kind, sessionVars, prewarmVars, callVars, signalled>>

Init ==
  /\ kind \in [Calls -> Kinds]
  /\ conn = [i \in Conns |-> "unused"]
  /\ session = None
  /\ sessionReady = None
  /\ prewarmReady = None
  /\ warm = "idle"
  /\ at = [c \in Calls |-> "idle"]
  /\ active = [c \in Calls |-> None]
  /\ signalled = [c \in Calls |-> FALSE]
  /\ h2Wire = [c \in Calls |-> "unsent"]
  /\ undiciWire = [c \in Calls |-> "unsent"]

-----------------------------------------------------------------------------
(* Sessions *)

Live(i) == i # None /\ conn[i] = "open"

(* Shares no connection attempt between concurrent callers. *)
ReconnectWhenNoSession(i) ==
  IF Live(session) THEN i = session /\ UNCHANGED sessionVars
  ELSE /\ i # None /\ conn[i] = "unused"
       /\ conn' = [conn EXCEPT ![i] = "connecting"]
       /\ sessionReady' = i
       /\ UNCHANGED session

(* getSession resolves, now or later, with connection i: the live session,   *)
(* the promise under way or already settled, or a new connection.            *)
getSession(i) ==
  IF Live(session) THEN i = session /\ UNCHANGED sessionVars
  ELSE IF sessionReady # None THEN i = sessionReady /\ UNCHANGED sessionVars
  ELSE /\ i # None /\ conn[i] = "unused"
       /\ conn' = [conn EXCEPT ![i] = "connecting"]
       /\ sessionReady' = i
       /\ UNCHANGED session

Waiters(i) == {c \in Calls : at[c] = "awaitSession" /\ active[c] = i}

(* uf(url, init), outside src/: undici sends nothing once the signal in init  *)
(* has fired.                                                                *)
UndiciFate(c) == IF signalled[c] THEN "unsent" ELSE "transit"

(* Dispatches S go on to undici; dispatches T are sent over HTTP/2.          *)
Proceed(S, T) ==
  /\ at' = [c \in Calls |-> IF c \in S THEN "undici"
                            ELSE IF c \in T THEN "h2" ELSE at[c]]
  /\ undiciWire' = [c \in Calls |-> IF c \in S THEN UndiciFate(c) ELSE undiciWire[c]]
  /\ h2Wire' = [c \in Calls |-> IF c \in T THEN "transit" ELSE h2Wire[c]]

Buffered(S) == {c \in S : kind[c].buffered}

(* transport.fetch(): await getSession(), then the request on that session.  *)
(* A session that closed but has not emitted it yet throws at the request,   *)
(* and a streamed body is turned down (the stream opened for it is closed    *)
(* before any of it is sent): both go on to undici.                          *)
Fetch(c) ==
  /\ at[c] = "idle" /\ ~kind[c].streaming
  /\ \E i \in Conns :
       /\ getSession(i)
       /\ active' = [active EXCEPT ![c] = i]
       /\ CASE conn'[i] = "connecting" ->
                 /\ at' = [at EXCEPT ![c] = "awaitSession"]
                 /\ UNCHANGED <<h2Wire, undiciWire>>
            [] conn'[i] = "open" -> Proceed({c} \ Buffered({c}), Buffered({c}))
            [] OTHER -> Proceed({c}, {})
  /\ UNCHANGED <<kind, prewarmVars, signalled>>

(* transport.streamFetch(): straight to undici. *)
StreamFetch(c) ==
  /\ at[c] = "idle" /\ kind[c].streaming
  /\ Proceed({c}, {})
  /\ UNCHANGED <<kind, sessionVars, prewarmVars, active, signalled>>

(* "connect": the promise resolves and every dispatch awaiting it sends.     *)
Connected(i) ==
  /\ conn[i] = "connecting"
  /\ conn' = [conn EXCEPT ![i] = "open"]
  /\ session' = i
  /\ Proceed(Waiters(i) \ Buffered(Waiters(i)), Buffered(Waiters(i)))
  /\ warm' = IF warm = "waiting" /\ prewarmReady = i THEN "resolved" ELSE warm
  /\ UNCHANGED <<kind, sessionReady, prewarmReady, active, signalled>>

(* Keeps the promise that was rejected. *)
ConnectFailsKeepingPromise(i) ==
  /\ conn[i] = "connecting"
  /\ conn' = [conn EXCEPT ![i] = "failed"]
  /\ Proceed(Waiters(i), {})
  /\ warm' = IF warm = "waiting" /\ prewarmReady = i THEN "rejected" ELSE warm
  /\ UNCHANGED <<kind, session, sessionReady, prewarmReady, active, signalled>>

(* Clears the promise without rejecting it. *)
ConnectFailsSilently(i) ==
  /\ conn[i] = "connecting"
  /\ conn' = [conn EXCEPT ![i] = "failed"]
  /\ sessionReady' = None
  /\ UNCHANGED <<kind, session, prewarmVars, callVars, signalled>>

(* Keeps the error in place of the promise it rejects. *)
ConnectFailsKeepingError(i) ==
  /\ conn[i] = "connecting"
  /\ conn' = [conn EXCEPT ![i] = "failed"]
  /\ sessionReady' = "error"
  /\ Proceed(Waiters(i), {})
  /\ warm' = IF warm = "waiting" /\ prewarmReady = i THEN "rejected" ELSE warm
  /\ UNCHANGED <<kind, session, prewarmReady, active, signalled>>

(* "error" before "connect": fail() rejects the promise.                     *)
ConnectFails(i) ==
  /\ conn[i] = "connecting"
  /\ conn' = [conn EXCEPT ![i] = "failed"]
  /\ sessionReady' = None
  /\ Proceed(Waiters(i), {})
  /\ warm' = IF warm = "waiting" /\ prewarmReady = i THEN "rejected" ELSE warm
  /\ UNCHANGED <<kind, session, prewarmReady, active, signalled>>

(* The session is closed or destroyed; its events are still to come.         *)
Dies(i) ==
  /\ conn[i] = "open"
  /\ conn' = [conn EXCEPT ![i] = "dead"]
  /\ UNCHANGED <<kind, session, sessionReady, prewarmVars, callVars, signalled>>

(* The close listener that leaves the settled promise behind. *)
CloseKeepingPromise(i) ==
  /\ conn[i] = "dead"
  /\ conn' = [conn EXCEPT ![i] = "closed"]
  /\ session' = IF session = i THEN None ELSE session
  /\ UNCHANGED <<kind, sessionReady, prewarmVars, callVars, signalled>>

(* "close", with "error" just before it when the session was destroyed by    *)
(* one: Node emits the two back to back.                                     *)
Close(i) ==
  /\ conn[i] = "dead"
  /\ conn' = [conn EXCEPT ![i] = "closed"]
  /\ session' = IF session = i THEN None ELSE session
  /\ sessionReady' = None
  /\ UNCHANGED <<kind, prewarmVars, callVars, signalled>>

(* prewarm(): prewarmReady ??= getSession().  The promise of a connection    *)
(* that was ever open resolves at once.                                      *)
Prewarm ==
  /\ warm = "idle"
  /\ \E i \in Conns :
       /\ IF prewarmReady = None THEN getSession(i)
          ELSE i = prewarmReady /\ UNCHANGED sessionVars
       /\ prewarmReady' = i
       /\ warm' = CASE conn'[i] = "connecting" -> "waiting"
                    [] conn'[i] = "failed"     -> "rejected"
                    [] OTHER                   -> "resolved"
  /\ UNCHANGED <<kind, callVars, signalled>>

(* The caller of prewarm() goes on. *)
PrewarmReturns ==
  /\ warm \in {"resolved", "rejected"}
  /\ warm' = "idle"
  /\ UNCHANGED <<kind, sessionVars, prewarmReady, callVars, signalled>>
-----------------------------------------------------------------------------
(* A dispatch after it was sent *)

Answered == {"executed", "refused"}

(* "end": the buffered response resolves the promise, signal or no signal.   *)
H2Ends(c) ==
  /\ at[c] = "h2" /\ h2Wire[c] \in Answered
  /\ at' = [at EXCEPT ![c] = "response"]
  /\ UNCHANGED <<kind, sessionVars, prewarmVars, active, signalled, h2Wire, undiciWire>>

(* "error" of the request, its stream reset or its session gone: the catch   *)
(* of transport.fetch turns to undici whatever became of the request.        *)
H2Fails(c) ==
  /\ at[c] = "h2"
  /\ Proceed({c}, {})
  /\ UNCHANGED <<kind, sessionVars, prewarmVars, active, signalled>>

UndiciResponds(c) ==
  /\ at[c] = "undici" /\ undiciWire[c] \in Answered /\ ~signalled[c]
  /\ at' = [at EXCEPT ![c] = "response"]
  /\ UNCHANGED <<kind, sessionVars, prewarmVars, active, signalled, h2Wire, undiciWire>>

(* The connection fails, or the signal has fired.                            *)
UndiciFails(c) ==
  /\ at[c] = "undici"
  /\ at' = [at EXCEPT ![c] = "error"]
  /\ UNCHANGED <<kind, sessionVars, prewarmVars, active, signalled, h2Wire, undiciWire>>

UndiciAborts(c) == signalled[c] /\ UndiciFails(c)

Settled(c) == at[c] \in {"response", "error"}

(* The timeout or the caller's signal fires. *)
Signal(c) ==
  /\ ~signalled[c] /\ ~Settled(c)
  /\ signalled' = [signalled EXCEPT ![c] = TRUE]
  /\ UNCHANGED <<kind, sessionVars, prewarmVars, callVars>>

(* What becomes of a request under way. *)
ServeH2(c, fate) ==
  /\ h2Wire[c] = "transit"
  /\ h2Wire' = [h2Wire EXCEPT ![c] = fate]
  /\ UNCHANGED <<kind, sessionVars, prewarmVars, at, active, signalled, undiciWire>>

ServeUndici(c, fate) ==
  /\ undiciWire[c] = "transit"
  /\ undiciWire' = [undiciWire EXCEPT ![c] = fate]
  /\ UNCHANGED <<kind, sessionVars, prewarmVars, at, active, signalled, h2Wire>>

Fates == {"executed", "refused", "lost"}

Next ==
  \/ Prewarm \/ PrewarmReturns
  \/ \E i \in Conns : Connected(i) \/ ConnectFails(i) \/ Dies(i) \/ Close(i)
  \/ \E c \in Calls :
       \/ Fetch(c) \/ StreamFetch(c) \/ H2Ends(c) \/ H2Fails(c)
       \/ UndiciResponds(c) \/ UndiciFails(c) \/ Signal(c)
       \/ \E f \in Fates : ServeH2(c, f) \/ ServeUndici(c, f)

Spec == Init /\ [][Next]_vars

(* Connecting ends one way or the other, a session that died says so and its *)
(* requests fail, a response that arrived is delivered, and undici honours   *)
(* its signal.  Nothing is assumed of the server.                            *)
Fairness ==
  /\ \A i \in Conns : WF_vars(Connected(i) \/ ConnectFails(i)) /\ WF_vars(Close(i))
  /\ \A c \in Calls :
       /\ WF_vars(H2Ends(c)) /\ WF_vars(UndiciResponds(c)) /\ WF_vars(UndiciAborts(c))
       /\ WF_vars(active[c] # None /\ conn[active[c]] \in {"dead", "closed"} /\ H2Fails(c))

FairSpec == Spec /\ Fairness
-----------------------------------------------------------------------------
(* Properties *)

(* Every variable stays in its range.                                        *)
TypeOK ==
  /\ kind \in [Calls -> Kinds]
  /\ conn \in [Conns -> {"unused", "connecting", "open", "dead", "closed", "failed"}]
  /\ {session, sessionReady, prewarmReady} \subseteq Conns \cup {None}
  /\ warm \in {"idle", "waiting", "resolved", "rejected"}
  /\ at \in [Calls -> {"idle", "awaitSession", "h2", "undici", "response", "error"}]
  /\ active \in [Calls -> Conns \cup {None}]
  /\ signalled \in [Calls -> BOOLEAN]
  /\ h2Wire \in [Calls -> Fates \cup {"unsent", "transit"}]
  /\ undiciWire \in [Calls -> Fates \cup {"unsent", "transit"}]

(* However many dispatches and prewarms ask for a session while one is being  *)
(* opened, is dying or has just closed, getSession never leaves two sessions *)
(* to the origin open: none is leaked.                                       *)
OneSession ==
  \A i, j \in Conns :
    {conn[i], conn[j]} \subseteq {"connecting", "open"} => i = j

(* The two cached variables agree: the promise getSession hands out is never  *)
(* that of a connection attempt that failed or of a session that closed, so  *)
(* the transport reconnects after either, and it is that of the session.     *)
SessionCacheFresh ==
  /\ sessionReady # None => conn[sessionReady] \in {"connecting", "open", "dead"}
  /\ session # None => session = sessionReady

(* What the HTTP/2 session cannot carry - a streamed response or a streamed   *)
(* request body - is never sent over it whole, so the server gets it only    *)
(* once (an upload opens a stream there and closes it before its body).      *)
StreamsOffH2 ==
  \A c \in Calls : kind[c].streaming \/ ~kind[c].buffered => h2Wire[c] = "unsent"

(* Nobody is left waiting for a session that will not come: a dispatch or a   *)
(* prewarm() that awaits one - its own or that of another - awaits a         *)
(* connection attempt still under way.                                       *)
WaitersOnLiveAttempt ==
  /\ \A c \in Calls : at[c] = "awaitSession" => conn[active[c]] = "connecting"
  /\ warm = "waiting" => conn[prewarmReady] = "connecting"
-----------------------------------------------------------------------------
(* Claims of the repository that this code does not keep *)

(* "it never silently re-sends a request the server may have already          *)
(* processed" (docs/explanation/reliability.md:6): the server acts at most   *)
(* once on a dispatch that is not repeatable.                                *)
NeverResentOnceProcessed ==
  \A c \in Calls : ~kind[c].repeatable =>
    ~(h2Wire[c] = "executed" /\ undiciWire[c] = "executed")

(* "the underlying fetch rejects" when a signal fires                         *)
(* (docs/explanation/reliability.md:248): a dispatch under way settles.      *)
SignalEndsDispatch ==
  \A c \in Calls : (signalled[c] /\ at[c] # "idle") ~> Settled(c)
=============================================================================
