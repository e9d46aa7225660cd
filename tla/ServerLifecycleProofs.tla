------------------------ MODULE ServerLifecycleProofs ------------------------
(***************************************************************************)
(* Proofs about ServerLifecycle, for any number of accept loops,           *)
(* connections and calls.  LifecycleInv is shown to be inductive with one  *)
(* lemma per action: under each, one step per part of the invariant that   *)
(* mentions a variable the action changes.                                 *)
(***************************************************************************)
EXTENDS ServerLifecycle, TLAPS

\* The initial state satisfies the inductive invariant.
LEMMA InitInv == Init => LifecycleInv
<1> SUFFICES ASSUME Init PROVE LifecycleInv
  OBVIOUS
<1> USE DEF Init
<1>1. TypeOK
  BY DEF TypeOK, LoopSteps, ConnSteps, CallSteps, ConnState
<1>2. LoopInv
  BY DEF LoopInv
<1>3. StateInv
  BY DEF StateInv
<1>4. TrackInv
  BY DEF TrackInv
<1>5. SweepInv
  BY ServerAssumption DEF SweepInv, Callers
<1>6. ShutdownInv
  BY DEF ShutdownInv, Callers
<1>7. SetterInv
  BY DEF SetterInv
<1> QED
  BY <1>1, <1>2, <1>3, <1>4, <1>5, <1>6, <1>7 DEF LifecycleInv

-----------------------------------------------------------------------------
\* Serve.

\* trackListener adds a loop only while no Shutdown has begun.
LEMMA ServeTrackKeeps ==
  ASSUME LifecycleInv, NEW l \in Loops, ServeTrack(l)
  PROVE  LifecycleInv'
<1> USE DEF LifecycleInv, TypeOK, Callers, ServeTrack, unlocked, loopTo,
          srvVars, connVars, callVars
<1>1. TypeOK'
  BY ServerAssumption DEF LoopSteps
<1>2. LoopInv'
  BY ServerAssumption DEF LoopInv
<1>3. TrackInv'
  BY ServerAssumption DEF LoopInv, TrackInv
<1>4. ShutdownInv'
  BY ServerAssumption DEF LoopInv, SweepInv, ShutdownInv
<1>5. StateInv' /\ SweepInv' /\ SetterInv'
  BY DEF StateInv, SweepInv, SetterInv
<1> QED
  BY <1>1, <1>2, <1>3, <1>4, <1>5

\* Accept hands a fresh connection to one loop.
LEMMA ServeAcceptKeeps ==
  ASSUME LifecycleInv, NEW l \in Loops, ServeAccept(l)
  PROVE  LifecycleInv'
<1> USE DEF LifecycleInv, TypeOK, Callers, ServeAccept, loopTo, connTo,
          srvVars, callVars
<1>1. TypeOK'
  BY ServerAssumption DEF LoopSteps, ConnSteps
<1>2. LoopInv'
  BY ServerAssumption DEF LoopInv
<1>3. StateInv'
  BY ServerAssumption DEF LoopInv, StateInv
<1>4. TrackInv'
  BY ServerAssumption DEF LoopInv, TrackInv
<1>5. SweepInv'
  BY ServerAssumption DEF LoopInv, StateInv, SweepInv
<1>6. SetterInv'
  BY ServerAssumption DEF StateInv, SweepInv, TrackInv, SetterInv
<1>7. ShutdownInv'
  BY DEF ShutdownInv
<1> QED
  BY <1>1, <1>2, <1>3, <1>4, <1>5, <1>6, <1>7

\* An accept error leads to the deferred calls.
LEMMA ServeAcceptErrorKeeps ==
  ASSUME LifecycleInv, NEW l \in Loops, ServeAcceptError(l)
  PROVE  LifecycleInv'
<1> USE DEF LifecycleInv, TypeOK, Callers, ServeAcceptError, loopTo, srvVars,
          connVars, callVars
<1>1. TypeOK'
  BY ServerAssumption DEF LoopSteps
<1>2. LoopInv'
  BY ServerAssumption DEF LoopInv
<1>3. TrackInv'
  BY ServerAssumption DEF LoopInv, TrackInv
<1>4. StateInv' /\ SweepInv' /\ ShutdownInv' /\ SetterInv'
  BY DEF StateInv, SweepInv, ShutdownInv, SetterInv
<1> QED
  BY <1>1, <1>2, <1>3, <1>4

\* trackConn adds a connection, which only a listed loop can bring.
LEMMA ServeTrackConnKeeps ==
  ASSUME LifecycleInv, NEW l \in Loops, ServeTrackConn(l)
  PROVE  LifecycleInv'
<1> USE DEF LifecycleInv, TypeOK, Callers, ServeTrackConn, unlocked, loopTo,
          srvVars, callVars
<1>1. TypeOK'
  BY ServerAssumption DEF LoopSteps, LoopInv
<1>2. LoopInv'
  BY ServerAssumption DEF LoopInv
<1>3. TrackInv'
  BY ServerAssumption DEF LoopInv, TrackInv
<1>4. SweepInv'
  BY ServerAssumption DEF LoopInv, StateInv, SweepInv
<1>5. ShutdownInv'
  BY ServerAssumption DEF LoopInv, SweepInv, ShutdownInv
<1>6. StateInv' /\ SetterInv'
  BY DEF StateInv, SetterInv
<1> QED
  BY <1>1, <1>2, <1>3, <1>4, <1>5, <1>6

\* The store of StateNew and the start of conn.serve.
LEMMA ServeConnKeeps ==
  ASSUME LifecycleInv, NEW l \in Loops, ServeConn(l)
  PROVE  LifecycleInv'
<1> USE DEF LifecycleInv, TypeOK, Callers, ServeConn, setState, loopTo,
          connTo, srvVars, callVars
<1>1. TypeOK'
  BY ServerAssumption DEF LoopSteps, ConnSteps, ConnState
<1>2. LoopInv'
  BY ServerAssumption DEF LoopInv
<1>3. StateInv'
  BY ServerAssumption DEF LoopInv, StateInv
<1>4. TrackInv'
  BY ServerAssumption DEF LoopInv, TrackInv
<1>5. SweepInv'
  BY ServerAssumption DEF LoopInv, StateInv, SweepInv
<1>6. SetterInv'
  BY ServerAssumption DEF StateInv, SweepInv, TrackInv, SetterInv
<1>7. ShutdownInv'
  BY DEF ShutdownInv
<1> QED
  BY <1>1, <1>2, <1>3, <1>4, <1>5, <1>6, <1>7

\* A loop leaves the listener group.
LEMMA ServeUntrackKeeps ==
  ASSUME LifecycleInv, NEW l \in Loops, ServeUntrack(l)
  PROVE  LifecycleInv'
<1> USE DEF LifecycleInv, TypeOK, Callers, ServeUntrack, unlocked, loopTo,
          srvVars, connVars, callVars
<1>1. TypeOK'
  BY ServerAssumption DEF LoopSteps
<1>2. LoopInv'
  BY ServerAssumption DEF LoopInv
<1>3. TrackInv'
  BY ServerAssumption DEF LoopInv, TrackInv
<1>4. ShutdownInv'
  BY ServerAssumption DEF LoopInv, SweepInv, ShutdownInv
<1>5. StateInv' /\ SweepInv' /\ SetterInv'
  BY DEF StateInv, SweepInv, SetterInv
<1> QED
  BY <1>1, <1>2, <1>3, <1>4, <1>5

\* A loop closes its listener.
LEMMA ServeCloseKeeps ==
  ASSUME LifecycleInv, NEW l \in Loops, ServeClose(l)
  PROVE  LifecycleInv'
<1> USE DEF LifecycleInv, TypeOK, Callers, ServeClose, loopTo, srvVars,
          connVars, callVars
<1>1. TypeOK'
  BY ServerAssumption DEF LoopSteps
<1>2. LoopInv'
  BY ServerAssumption DEF LoopInv
<1>3. TrackInv'
  BY ServerAssumption DEF LoopInv, TrackInv
<1>4. StateInv' /\ SweepInv' /\ ShutdownInv' /\ SetterInv'
  BY DEF StateInv, SweepInv, ShutdownInv, SetterInv
<1> QED
  BY <1>1, <1>2, <1>3, <1>4

-----------------------------------------------------------------------------
\* conn.serve.

\* readRequest returns a request.
LEMMA ReadRequestKeeps ==
  ASSUME LifecycleInv, NEW c \in Conns, ReadRequest(c)
  PROVE  LifecycleInv'
<1> USE DEF LifecycleInv, TypeOK, Callers, ReadRequest, connTo, connLeaves,
          srvVars, loopVars, callVars
<1>1. TypeOK'
  BY ServerAssumption DEF ConnSteps
<1>2. LoopInv'
  BY ServerAssumption DEF LoopInv
<1>3. StateInv'
  BY ServerAssumption DEF LoopInv, StateInv
<1>4. TrackInv'
  BY ServerAssumption DEF LoopInv, TrackInv
<1>5. SweepInv'
  BY ServerAssumption DEF LoopInv, StateInv, SweepInv
<1>6. SetterInv'
  BY ServerAssumption DEF StateInv, SweepInv, TrackInv, SetterInv
<1>7. ShutdownInv'
  BY DEF ShutdownInv
<1> QED
  BY <1>1, <1>2, <1>3, <1>4, <1>5, <1>6, <1>7

\* readRequest fails.
LEMMA ReadRequestErrorKeeps ==
  ASSUME LifecycleInv, NEW c \in Conns, ReadRequestError(c)
  PROVE  LifecycleInv'
<1> USE DEF LifecycleInv, TypeOK, Callers, ReadRequestError, connTo,
          connLeaves, srvVars, loopVars, callVars
<1>1. TypeOK'
  BY ServerAssumption DEF ConnSteps
<1>2. LoopInv'
  BY ServerAssumption DEF LoopInv
<1>3. StateInv'
  BY ServerAssumption DEF LoopInv, StateInv
<1>4. TrackInv'
  BY ServerAssumption DEF LoopInv, TrackInv
<1>5. SweepInv'
  BY ServerAssumption DEF LoopInv, StateInv, SweepInv
<1>6. SetterInv'
  BY ServerAssumption DEF StateInv, SweepInv, TrackInv, SetterInv
<1>7. ShutdownInv'
  BY DEF ShutdownInv
<1> QED
  BY <1>1, <1>2, <1>3, <1>4, <1>5, <1>6, <1>7

\* The store of StateActive.
LEMMA SetActiveKeeps ==
  ASSUME LifecycleInv, NEW c \in Conns, SetActive(c)
  PROVE  LifecycleInv'
<1> USE DEF LifecycleInv, TypeOK, Callers, SetActive, setState, connTo,
          connLeaves, srvVars, loopVars, callVars
<1>1. TypeOK'
  BY ServerAssumption DEF ConnSteps, ConnState
<1>2. LoopInv'
  BY ServerAssumption DEF LoopInv
<1>3. StateInv'
  BY ServerAssumption DEF LoopInv, StateInv
<1>4. TrackInv'
  BY ServerAssumption DEF LoopInv, TrackInv
<1>5. SweepInv'
  BY ServerAssumption DEF LoopInv, StateInv, SweepInv
<1>6. SetterInv'
  BY ServerAssumption DEF StateInv, SweepInv, TrackInv, SetterInv
<1>7. ShutdownInv'
  BY DEF ShutdownInv
<1> QED
  BY <1>1, <1>2, <1>3, <1>4, <1>5, <1>6, <1>7

\* Hijack marks the connection.
LEMMA HijackKeeps ==
  ASSUME LifecycleInv, NEW c \in Conns, Hijack(c)
  PROVE  LifecycleInv'
<1> USE DEF LifecycleInv, TypeOK, Callers, Hijack, connTo, connLeaves,
          srvVars, loopVars, callVars
<1>1. TypeOK'
  BY ServerAssumption DEF ConnSteps
<1>2. LoopInv'
  BY ServerAssumption DEF LoopInv
<1>3. StateInv'
  BY ServerAssumption DEF LoopInv, StateInv
<1>4. TrackInv'
  BY ServerAssumption DEF LoopInv, TrackInv
<1>5. SweepInv'
  BY ServerAssumption DEF LoopInv, StateInv, SweepInv
<1>6. SetterInv'
  BY ServerAssumption DEF StateInv, SweepInv, TrackInv, SetterInv
<1>7. ShutdownInv'
  BY DEF ShutdownInv
<1> QED
  BY <1>1, <1>2, <1>3, <1>4, <1>5, <1>6, <1>7

\* A hijacked connection is no longer tracked.
LEMMA HijackStateKeeps ==
  ASSUME LifecycleInv, NEW c \in Conns, HijackState(c)
  PROVE  LifecycleInv'
<1> USE DEF LifecycleInv, TypeOK, Callers, HijackState, unlocked, setState,
          connTo, connLeaves, srvVars, loopVars, callVars
<1>1. TypeOK'
  BY ServerAssumption DEF ConnSteps, ConnState
<1>2. LoopInv'
  BY ServerAssumption DEF LoopInv
<1>3. StateInv'
  BY ServerAssumption DEF LoopInv, StateInv, TrackInv
<1>4. TrackInv'
  BY ServerAssumption DEF LoopInv, TrackInv
<1>5. SweepInv'
  BY ServerAssumption DEF LoopInv, StateInv, SweepInv
<1>6. ShutdownInv'
  BY ServerAssumption DEF LoopInv, SweepInv, ShutdownInv
<1>7. SetterInv'
  BY ServerAssumption DEF StateInv, SweepInv, TrackInv, SetterInv
<1> QED
  BY <1>1, <1>2, <1>3, <1>4, <1>5, <1>6, <1>7

\* The handler returns.
LEMMA HandlerReturnsKeeps ==
  ASSUME LifecycleInv, NEW c \in Conns, HandlerReturns(c)
  PROVE  LifecycleInv'
<1> USE DEF LifecycleInv, TypeOK, Callers, HandlerReturns, connTo, connLeaves,
          srvVars, loopVars, callVars
<1>1. TypeOK'
  BY ServerAssumption DEF ConnSteps
<1>2. LoopInv'
  BY ServerAssumption DEF LoopInv
<1>3. StateInv'
  BY ServerAssumption DEF LoopInv, StateInv
<1>4. TrackInv'
  BY ServerAssumption DEF LoopInv, TrackInv
<1>5. SweepInv'
  BY ServerAssumption DEF LoopInv, StateInv, SweepInv
<1>6. SetterInv'
  BY ServerAssumption DEF StateInv, SweepInv, TrackInv, SetterInv
<1>7. ShutdownInv'
  BY DEF ShutdownInv
<1> QED
  BY <1>1, <1>2, <1>3, <1>4, <1>5, <1>6, <1>7

\* The error answer is written.
LEMMA RefuseKeeps ==
  ASSUME LifecycleInv, NEW c \in Conns, Refuse(c)
  PROVE  LifecycleInv'
<1> USE DEF LifecycleInv, TypeOK, Callers, Refuse, connTo, connLeaves,
          srvVars, loopVars, callVars
<1>1. TypeOK'
  BY ServerAssumption DEF ConnSteps
<1>2. LoopInv'
  BY ServerAssumption DEF LoopInv
<1>3. StateInv'
  BY ServerAssumption DEF LoopInv, StateInv
<1>4. TrackInv'
  BY ServerAssumption DEF LoopInv, TrackInv
<1>5. SweepInv'
  BY ServerAssumption DEF LoopInv, StateInv, SweepInv
<1>6. SetterInv'
  BY ServerAssumption DEF StateInv, SweepInv, TrackInv, SetterInv
<1>7. ShutdownInv'
  BY DEF ShutdownInv
<1> QED
  BY <1>1, <1>2, <1>3, <1>4, <1>5, <1>6, <1>7

\* finishRequest returns.
LEMMA FinishKeeps ==
  ASSUME LifecycleInv, NEW c \in Conns, Finish(c)
  PROVE  LifecycleInv'
<1> USE DEF LifecycleInv, TypeOK, Callers, Finish, connTo, connLeaves,
          srvVars, loopVars, callVars
<1>1. TypeOK'
  BY ServerAssumption DEF ConnSteps
<1>2. LoopInv'
  BY ServerAssumption DEF LoopInv
<1>3. StateInv'
  BY ServerAssumption DEF LoopInv, StateInv
<1>4. TrackInv'
  BY ServerAssumption DEF LoopInv, TrackInv
<1>5. SweepInv'
  BY ServerAssumption DEF LoopInv, StateInv, SweepInv
<1>6. SetterInv'
  BY ServerAssumption DEF StateInv, SweepInv, TrackInv, SetterInv
<1>7. ShutdownInv'
  BY DEF ShutdownInv
<1> QED
  BY <1>1, <1>2, <1>3, <1>4, <1>5, <1>6, <1>7

\* The store of StateIdle.
LEMMA SetIdleKeeps ==
  ASSUME LifecycleInv, NEW c \in Conns, SetIdle(c)
  PROVE  LifecycleInv'
<1> USE DEF LifecycleInv, TypeOK, Callers, SetIdle, setState, connTo,
          connLeaves, srvVars, loopVars, callVars
<1>1. TypeOK'
  BY ServerAssumption DEF ConnSteps, ConnState
<1>2. LoopInv'
  BY ServerAssumption DEF LoopInv
<1>3. StateInv'
  BY ServerAssumption DEF LoopInv, StateInv
<1>4. TrackInv'
  BY ServerAssumption DEF LoopInv, TrackInv
<1>5. SweepInv'
  BY ServerAssumption DEF LoopInv, StateInv, SweepInv
<1>6. SetterInv'
  BY ServerAssumption DEF StateInv, SweepInv, TrackInv, SetterInv
<1>7. ShutdownInv'
  BY DEF ShutdownInv
<1> QED
  BY <1>1, <1>2, <1>3, <1>4, <1>5, <1>6, <1>7

\* The keep-alive flag is read after StateIdle was stored.
LEMMA CheckKeepAlivesKeeps ==
  ASSUME LifecycleInv, NEW c \in Conns, CheckKeepAlives(c)
  PROVE  LifecycleInv'
<1> USE DEF LifecycleInv, TypeOK, Callers, CheckKeepAlives, connTo,
          connLeaves, doKeepAlives, srvVars, loopVars, callVars
<1>1. TypeOK'
  BY ServerAssumption DEF ConnSteps
<1>2. LoopInv'
  BY ServerAssumption DEF LoopInv
<1>3. StateInv'
  BY ServerAssumption DEF LoopInv, StateInv
<1>4. TrackInv'
  BY ServerAssumption DEF LoopInv, TrackInv
<1>5. SweepInv'
  BY ServerAssumption DEF LoopInv, StateInv, SweepInv
<1>6. SetterInv'
  BY ServerAssumption DEF StateInv, SweepInv, TrackInv, SetterInv
<1>7. ShutdownInv'
  BY DEF ShutdownInv
<1> QED
  BY <1>1, <1>2, <1>3, <1>4, <1>5, <1>6, <1>7

\* The first bytes of the next request.
LEMMA PeekKeeps ==
  ASSUME LifecycleInv, NEW c \in Conns, Peek(c)
  PROVE  LifecycleInv'
<1> USE DEF LifecycleInv, TypeOK, Callers, Peek, connTo, connLeaves, srvVars,
          loopVars, callVars
<1>1. TypeOK'
  BY ServerAssumption DEF ConnSteps
<1>2. LoopInv'
  BY ServerAssumption DEF LoopInv
<1>3. StateInv'
  BY ServerAssumption DEF LoopInv, StateInv
<1>4. TrackInv'
  BY ServerAssumption DEF LoopInv, TrackInv
<1>5. SweepInv'
  BY ServerAssumption DEF LoopInv, StateInv, SweepInv
<1>6. SetterInv'
  BY ServerAssumption DEF StateInv, SweepInv, TrackInv, SetterInv
<1>7. ShutdownInv'
  BY DEF ShutdownInv
<1> QED
  BY <1>1, <1>2, <1>3, <1>4, <1>5, <1>6, <1>7

\* The wait for the next request fails.
LEMMA PeekErrorKeeps ==
  ASSUME LifecycleInv, NEW c \in Conns, PeekError(c)
  PROVE  LifecycleInv'
<1> USE DEF LifecycleInv, TypeOK, Callers, PeekError, connTo, connLeaves,
          srvVars, loopVars, callVars
<1>1. TypeOK'
  BY ServerAssumption DEF ConnSteps
<1>2. LoopInv'
  BY ServerAssumption DEF LoopInv
<1>3. StateInv'
  BY ServerAssumption DEF LoopInv, StateInv
<1>4. TrackInv'
  BY ServerAssumption DEF LoopInv, TrackInv
<1>5. SweepInv'
  BY ServerAssumption DEF LoopInv, StateInv, SweepInv
<1>6. SetterInv'
  BY ServerAssumption DEF StateInv, SweepInv, TrackInv, SetterInv
<1>7. ShutdownInv'
  BY DEF ShutdownInv
<1> QED
  BY <1>1, <1>2, <1>3, <1>4, <1>5, <1>6, <1>7

\* conn.serve closes the connection.
LEMMA ConnCloseKeeps ==
  ASSUME LifecycleInv, NEW c \in Conns, ConnClose(c)
  PROVE  LifecycleInv'
<1> USE DEF LifecycleInv, TypeOK, Callers, ConnClose, connTo, connLeaves,
          srvVars, loopVars, callVars
<1>1. TypeOK'
  BY ServerAssumption DEF ConnSteps
<1>2. LoopInv'
  BY ServerAssumption DEF LoopInv
<1>3. StateInv'
  BY ServerAssumption DEF LoopInv, StateInv
<1>4. TrackInv'
  BY ServerAssumption DEF LoopInv, TrackInv
<1>5. SweepInv'
  BY ServerAssumption DEF LoopInv, StateInv, SweepInv
<1>6. SetterInv'
  BY ServerAssumption DEF StateInv, SweepInv, TrackInv, SetterInv
<1>7. ShutdownInv'
  BY DEF ShutdownInv
<1> QED
  BY <1>1, <1>2, <1>3, <1>4, <1>5, <1>6, <1>7

\* A closed connection is no longer tracked.
LEMMA ConnUntrackKeeps ==
  ASSUME LifecycleInv, NEW c \in Conns, ConnUntrack(c)
  PROVE  LifecycleInv'
<1> USE DEF LifecycleInv, TypeOK, Callers, ConnUntrack, unlocked, setState,
          connTo, connLeaves, srvVars, loopVars, callVars
<1>1. TypeOK'
  BY ServerAssumption DEF ConnSteps, ConnState
<1>2. LoopInv'
  BY ServerAssumption DEF LoopInv
<1>3. StateInv'
  BY ServerAssumption DEF LoopInv, StateInv
<1>4. TrackInv'
  BY ServerAssumption DEF LoopInv, TrackInv
<1>5. SweepInv'
  BY ServerAssumption DEF LoopInv, StateInv, SweepInv
<1>6. ShutdownInv'
  BY ServerAssumption DEF LoopInv, SweepInv, ShutdownInv
<1>7. SetterInv'
  BY ServerAssumption DEF StateInv, SweepInv, TrackInv, SetterInv
<1> QED
  BY <1>1, <1>2, <1>3, <1>4, <1>5, <1>6, <1>7

\* Time passes.
LEMMA AgeKeeps ==
  ASSUME LifecycleInv, NEW c \in Conns, Age(c)
  PROVE  LifecycleInv'
<1> USE DEF LifecycleInv, TypeOK, Callers, Age, connLeaves, srvVars, loopVars,
          callVars
<1>1. TypeOK'
  BY ServerAssumption
<1>2. LoopInv' /\ StateInv' /\ TrackInv' /\ SweepInv' /\ ShutdownInv' /\ SetterInv'
  BY DEF LoopInv, StateInv, TrackInv, SweepInv, ShutdownInv, SetterInv
<1> QED
  BY <1>1, <1>2

-----------------------------------------------------------------------------
\* Shutdown and SetKeepAlivesEnabled.

\* inShutdown is set.
LEMMA ShutdownBeginKeeps ==
  ASSUME LifecycleInv, NEW x \in Callers, ShutdownBegin(x)
  PROVE  LifecycleInv'
<1> USE DEF LifecycleInv, TypeOK, Callers, ShutdownBegin, callTo, loopVars,
          connVars
<1>1. TypeOK'
  BY ServerAssumption DEF CallSteps
<1>2. SweepInv'
  BY ServerAssumption DEF LoopInv, StateInv, SweepInv
<1>3. ShutdownInv'
  BY ServerAssumption DEF LoopInv, SweepInv, ShutdownInv
<1>4. SetterInv'
  BY ServerAssumption DEF StateInv, SweepInv, TrackInv, SetterInv
<1>5. LoopInv' /\ StateInv' /\ TrackInv'
  BY DEF LoopInv, StateInv, TrackInv
<1> QED
  BY <1>1, <1>2, <1>3, <1>4, <1>5

\* The listeners are closed.
LEMMA closeListenersLockedKeeps ==
  ASSUME LifecycleInv, NEW x \in Callers, closeListenersLocked(x)
  PROVE  LifecycleInv'
<1> USE DEF LifecycleInv, TypeOK, Callers, closeListenersLocked, unlocked,
          callTo, srvVars, connVars
<1>1. TypeOK'
  BY ServerAssumption DEF CallSteps
<1>2. SweepInv'
  BY ServerAssumption DEF LoopInv, StateInv, SweepInv
<1>3. ShutdownInv'
  BY ServerAssumption DEF LoopInv, SweepInv, ShutdownInv
<1>4. SetterInv'
  BY ServerAssumption DEF StateInv, SweepInv, TrackInv, SetterInv
<1>5. LoopInv' /\ StateInv' /\ TrackInv'
  BY DEF LoopInv, StateInv, TrackInv
<1> QED
  BY <1>1, <1>2, <1>3, <1>4, <1>5

\* Shutdown has waited for the accept loops.
LEMMA ListenerGroupWaitKeeps ==
  ASSUME LifecycleInv, NEW x \in Callers, ListenerGroupWait(x)
  PROVE  LifecycleInv'
<1> USE DEF LifecycleInv, TypeOK, Callers, ListenerGroupWait, callTo, srvVars,
          loopVars, connVars
<1>1. TypeOK'
  BY ServerAssumption DEF CallSteps
<1>2. SweepInv'
  BY ServerAssumption DEF LoopInv, StateInv, SweepInv
<1>3. ShutdownInv'
  BY ServerAssumption DEF LoopInv, SweepInv, ShutdownInv
<1>4. SetterInv'
  BY ServerAssumption DEF StateInv, SweepInv, TrackInv, SetterInv
<1>5. LoopInv' /\ StateInv' /\ TrackInv'
  BY DEF LoopInv, StateInv, TrackInv
<1> QED
  BY <1>1, <1>2, <1>3, <1>4, <1>5

\* closeIdleConns takes the lock and starts with all tracked connections.
LEMMA SweepBeginKeeps ==
  ASSUME LifecycleInv, NEW x \in Callers, SweepBegin(x)
  PROVE  LifecycleInv'
<1> USE DEF LifecycleInv, TypeOK, Callers, SweepBegin, unlocked, callTo,
          loopVars, connVars
<1>1. TypeOK'
  BY ServerAssumption DEF CallSteps
<1>2. SweepInv'
  BY ServerAssumption DEF LoopInv, StateInv, SweepInv
<1>3. ShutdownInv'
  BY ServerAssumption DEF LoopInv, SweepInv, ShutdownInv
<1>4. SetterInv'
  BY ServerAssumption DEF StateInv, SweepInv, TrackInv, SetterInv
<1>5. LoopInv' /\ StateInv' /\ TrackInv'
  BY DEF LoopInv, StateInv, TrackInv
<1> QED
  BY <1>1, <1>2, <1>3, <1>4, <1>5

\* closeIdleConns looks at one connection.
LEMMA SweepLookKeeps ==
  ASSUME LifecycleInv, NEW x \in Callers, SweepLook(x)
  PROVE  LifecycleInv'
<1> USE DEF LifecycleInv, TypeOK, Callers, SweepLook, srvVars, loopVars,
          connVars, sweepIdle
<1>1. TypeOK'
  <2>1. PICK c \in todo :
          /\ todo' = todo \ {c}
          /\ IF sweepIdle(c)
             THEN victim' = c /\ UNCHANGED quiescent
             ELSE quiescent' = FALSE /\ UNCHANGED victim
    OBVIOUS
  <2>2. victim' \in Conns \cup {Nobody} /\ todo' \subseteq Conns
    BY <2>1
  <2>3. quiescent' \in BOOLEAN
    BY <2>1
  <2> QED
    BY <2>2, <2>3
<1>2. SweepInv'
  BY ServerAssumption DEF LoopInv, StateInv, SweepInv
<1>3. SetterInv'
  BY ServerAssumption DEF StateInv, SweepInv, TrackInv, SetterInv
<1>4. LoopInv' /\ StateInv' /\ TrackInv' /\ ShutdownInv'
  BY DEF LoopInv, StateInv, TrackInv, ShutdownInv
<1> QED
  BY <1>1, <1>2, <1>3, <1>4

\* closeIdleConns closes the connection it found idle.
LEMMA SweepCloseKeeps ==
  ASSUME LifecycleInv, NEW x \in Callers, SweepClose(x)
  PROVE  LifecycleInv'
<1> USE DEF LifecycleInv, TypeOK, Callers, SweepClose, srvVars, loopVars
<1>1. TypeOK'
  BY ServerAssumption
<1>2. LoopInv'
  BY ServerAssumption DEF LoopInv, SweepInv
<1>3. TrackInv'
  BY ServerAssumption DEF LoopInv, TrackInv
<1>4. SweepInv'
  BY ServerAssumption DEF LoopInv, StateInv, SweepInv
<1>5. ShutdownInv'
  BY ServerAssumption DEF LoopInv, SweepInv, ShutdownInv
<1>6. SetterInv'
  BY ServerAssumption DEF StateInv, SweepInv, TrackInv, SetterInv
<1>7. StateInv'
  BY DEF StateInv
<1> QED
  BY <1>1, <1>2, <1>3, <1>4, <1>5, <1>6, <1>7

\* closeIdleConns releases the lock.
LEMMA SweepEndKeeps ==
  ASSUME LifecycleInv, NEW x \in Callers, SweepEnd(x)
  PROVE  LifecycleInv'
<1> USE DEF LifecycleInv, TypeOK, Callers, SweepEnd, callTo, loopVars,
          connVars
<1>1. TypeOK'
  BY ServerAssumption DEF CallSteps
<1>2. SweepInv'
  BY ServerAssumption DEF LoopInv, StateInv, SweepInv
<1>3. ShutdownInv'
  BY ServerAssumption DEF LoopInv, SweepInv, ShutdownInv
<1>4. SetterInv'
  BY ServerAssumption DEF StateInv, SweepInv, TrackInv, SetterInv
<1>5. LoopInv' /\ StateInv' /\ TrackInv'
  BY DEF LoopInv, StateInv, TrackInv
<1> QED
  BY <1>1, <1>2, <1>3, <1>4, <1>5

\* The poll timer.
LEMMA ShutdownTickKeeps ==
  ASSUME LifecycleInv, NEW x \in Callers, ShutdownTick(x)
  PROVE  LifecycleInv'
<1> USE DEF LifecycleInv, TypeOK, Callers, ShutdownTick, callTo, srvVars,
          loopVars, connVars
<1>1. TypeOK'
  BY ServerAssumption DEF CallSteps
<1>2. SweepInv'
  BY ServerAssumption DEF LoopInv, StateInv, SweepInv
<1>3. ShutdownInv'
  BY ServerAssumption DEF LoopInv, SweepInv, ShutdownInv
<1>4. SetterInv'
  BY ServerAssumption DEF StateInv, SweepInv, TrackInv, SetterInv
<1>5. LoopInv' /\ StateInv' /\ TrackInv'
  BY DEF LoopInv, StateInv, TrackInv
<1> QED
  BY <1>1, <1>2, <1>3, <1>4, <1>5

\* The context of Shutdown.
LEMMA ShutdownExpiresKeeps ==
  ASSUME LifecycleInv, NEW x \in Callers, ShutdownExpires(x)
  PROVE  LifecycleInv'
<1> USE DEF LifecycleInv, TypeOK, Callers, ShutdownExpires, callTo, srvVars,
          loopVars, connVars
<1>1. TypeOK'
  BY ServerAssumption DEF CallSteps
<1>2. SweepInv'
  BY ServerAssumption DEF LoopInv, StateInv, SweepInv
<1>3. ShutdownInv'
  BY ServerAssumption DEF LoopInv, SweepInv, ShutdownInv
<1>4. SetterInv'
  BY ServerAssumption DEF StateInv, SweepInv, TrackInv, SetterInv
<1>5. LoopInv' /\ StateInv' /\ TrackInv'
  BY DEF LoopInv, StateInv, TrackInv
<1> QED
  BY <1>1, <1>2, <1>3, <1>4, <1>5

\* The flag is stored before the sweep.
LEMMA SetKeepAlivesEnabledKeeps ==
  ASSUME LifecycleInv, NEW x \in Callers, SetKeepAlivesEnabled(x)
  PROVE  LifecycleInv'
<1> USE DEF LifecycleInv, TypeOK, Callers, SetKeepAlivesEnabled, callTo,
          loopVars, connVars
<1>1. TypeOK'
  BY ServerAssumption DEF CallSteps
<1>2. SweepInv'
  BY ServerAssumption DEF LoopInv, StateInv, SweepInv
<1>3. ShutdownInv'
  BY ServerAssumption DEF LoopInv, SweepInv, ShutdownInv
<1>4. SetterInv'
  BY ServerAssumption DEF StateInv, SweepInv, TrackInv, SetterInv
<1>5. LoopInv' /\ StateInv' /\ TrackInv'
  BY DEF LoopInv, StateInv, TrackInv
<1> QED
  BY <1>1, <1>2, <1>3, <1>4, <1>5

-----------------------------------------------------------------------------
\* Every step keeps the inductive invariant.
LEMMA NextKeeps == LifecycleInv /\ [Next]_vars => LifecycleInv'
<1> SUFFICES ASSUME LifecycleInv, [Next]_vars PROVE LifecycleInv'
  OBVIOUS
<1>1. ASSUME NEW l \in Loops, Serve(l) PROVE LifecycleInv'
  BY <1>1, ServeTrackKeeps, ServeAcceptKeeps, ServeAcceptErrorKeeps,
     ServeTrackConnKeeps, ServeConnKeeps, ServeUntrackKeeps, ServeCloseKeeps
     DEF Serve
<1>2. ASSUME NEW c \in Conns, ConnServe(c) PROVE LifecycleInv'
  BY <1>2, ReadRequestKeeps, ReadRequestErrorKeeps, SetActiveKeeps, HijackKeeps,
     HijackStateKeeps, RefuseKeeps, HandlerReturnsKeeps, FinishKeeps, SetIdleKeeps,
     CheckKeepAlivesKeeps, PeekKeeps, PeekErrorKeeps, ConnCloseKeeps, ConnUntrackKeeps DEF ConnServe
<1>3. ASSUME NEW c \in Conns, Age(c) PROVE LifecycleInv'
  BY <1>3, AgeKeeps
<1>4. ASSUME NEW x \in Callers, Call(x) PROVE LifecycleInv'
  BY <1>4, ShutdownBeginKeeps, closeListenersLockedKeeps, ListenerGroupWaitKeeps,
     SweepBeginKeeps, SweepLookKeeps, SweepCloseKeeps, SweepEndKeeps,
     ShutdownTickKeeps, ShutdownExpiresKeeps, SetKeepAlivesEnabledKeeps
     DEF Call, closeIdleConns
<1>5. CASE UNCHANGED vars
  BY <1>5 DEF vars, srvVars, loopVars, connVars, callVars, LifecycleInv, TypeOK,
         LoopInv, StateInv, TrackInv, SweepInv, ShutdownInv, SetterInv
<1> QED
  BY <1>1, <1>2, <1>3, <1>4, <1>5 DEF Next

\* The inductive invariant of Serve, conn.serve and the sweeps holds whatever
\* the number of loops, connections and calls.
THEOREM LifecycleInvariant == Spec => []LifecycleInv
  BY InitInv, NextKeeps, PTL DEF Spec

\* When Shutdown returns nil, no accept loop is left and every connection it
\* ever accepted is closed or hijacked.
THEOREM ShutdownDrains == Spec => []Drained
<1>1. LifecycleInv => Drained
  <2> SUFFICES ASSUME LifecycleInv, NEW x \in Shutdowns, sd[x] = "done"
               PROVE  /\ \A l \in Loops : sv[l] \in {"init", "close", "done"}
                      /\ activeConn = {}
                      /\ \A c \in Conns : pc[c] # "none" => c \in rwcClosed \cup hijacked
    BY DEF Drained
  <2>1. listeners = {} /\ activeConn = {}
    BY DEF LifecycleInv, ShutdownInv
  <2>2. \A l \in Loops : sv[l] \in {"init", "close", "done"}
    BY <2>1 DEF LifecycleInv, TypeOK, LoopInv, LoopSteps
  <2>3. \A c \in Conns : pc[c] # "none" => c \in rwcClosed \cup hijacked
    BY <2>1, <2>2 DEF LifecycleInv, TrackInv
  <2> QED
    BY <2>1, <2>2, <2>3
<1> QED
  BY <1>1, LifecycleInvariant, PTL

\* Once SetKeepAlivesEnabled(false) has returned, no connection is left waiting
\* for another request.
THEOREM KeepAlivesAreSwept == Spec => []KeepAliveSwept
<1>1. LifecycleInv => KeepAliveSwept
  BY DEF LifecycleInv, SetterInv, KeepAliveSwept
<1> QED
  BY <1>1, LifecycleInvariant, PTL

\* Every store of c.curState is a transition the comments of ConnState allow.
THEOREM StatesFollowTheLaw == Spec => ConnStateLaw
<1> DEFINE Law == \A c \in Conns : curState'[c] # curState[c]
                      => <<curState[c], curState'[c]>> \in Transitions
<1>1. ASSUME LifecycleInv, Next PROVE Law
  <2> USE <1>1 DEF LifecycleInv, TypeOK, StateInv, setState, Transitions
  <2>1. ASSUME NEW l \in Loops, Serve(l) PROVE Law
    BY <2>1 DEF Serve, ServeTrack, ServeAccept, ServeAcceptError, ServeTrackConn,
           ServeConn, ServeUntrack, ServeClose, connVars, LoopInv
  <2>2. ASSUME NEW c \in Conns, ConnServe(c) PROVE Law
    BY <2>2 DEF ConnServe, ReadRequest, ReadRequestError, SetActive, Hijack,
           HijackState, Refuse, HandlerReturns, Finish, SetIdle, CheckKeepAlives,
           Peek, PeekError, ConnClose, ConnUntrack
  <2>3. ASSUME NEW c \in Conns, Age(c) PROVE Law
    BY <2>3 DEF Age
  <2>4. ASSUME NEW x \in Callers, Call(x) PROVE Law
    BY <2>4 DEF Call, closeIdleConns, ShutdownBegin, closeListenersLocked,
           ListenerGroupWait, SweepBegin, SweepLook, SweepClose, SweepEnd,
           ShutdownTick, ShutdownExpires, SetKeepAlivesEnabled, connVars
  <2> QED
    BY <2>1, <2>2, <2>3, <2>4 DEF Next
<1>2. LifecycleInv /\ [Next]_vars => [Law]_vars
  BY <1>1
<1> QED
  BY <1>2, LifecycleInvariant, PTL DEF Spec, ConnStateLaw

=============================================================================
