--------------------------- MODULE ServingProofs ---------------------------
(***************************************************************************)
(* Proofs about Serving, for any servers, calls, workers and direct        *)
(* changes.                                                                *)
(***************************************************************************)
EXTENDS Serving, SequenceTheorems, TLAPS

(* The part of the state the locking depends on is typed.                  *)
Typed ==
  /\ owner \in Servers \cup {Nobody}
  /\ server \in [Servers -> Up \cup {"down", "opened", "held", "refused", "escaped", "ended", "killed"}]
  /\ queue \in [Servers -> Seq(Changes)]
  /\ call \in [Calls -> OnWorker \cup {"idle", "sent", "over"}]
  /\ via \in [Calls -> Servers \cup {Nobody}]

(* A server is up exactly while it holds the lock.                         *)
UpOwns == \A s \in Servers : server[s] \in Up <=> owner = s

(* What is asked and not over was asked of a server that still answers,    *)
(* what no worker took up of one that has not cut it off.                  *)
Hosted ==
  /\ \A c \in Calls : call[c] \in OnWorker =>
       via[c] \in Servers /\ server[via[c]] \in {"serving", "stopping", "draining"}
  /\ \A c \in Calls : call[c] = "sent" =>
       via[c] \in Servers /\ server[via[c]] \in {"serving", "stopping"}

(* Whoever makes its change is the first of its server's queue.            *)
FirstIn == \A c \in Making : queue[via[c]] # <<>> /\ Head(queue[via[c]]) = c

IInv == Typed /\ UpOwns /\ Hosted /\ FirstIn

LEMMA Start == Init => IInv
BY NobodyAssumption DEF Init, IInv, Typed, UpOwns, Hosted, FirstIn, Making, Calls, OnWorker, Up

(* A step of a server that leaves calls alone keeps the invariant when it  *)
(* keeps servers up and owning together and takes no answering one down.   *)
LEMMA ServerKeeps ==
  ASSUME IInv, NEW s \in Servers, UNCHANGED callVars,
         Opens(s) \/ Owns(s) \/ FindsHeld(s) \/ Refused(s) \/ Binds(s) \/ CannotBind(s)
           \/ Marks(s) \/ Stops(s)
  PROVE  IInv'
<1> USE NobodyAssumption DEF IInv, Typed, lockVars, callVars, Goes
<1>1. Typed'
  BY DEF Opens, Owns, FindsHeld, Refused, Binds, CannotBind, Marks, Stops, Up
<1>2. UpOwns'
  BY DEF Opens, Owns, FindsHeld, Refused, Binds, CannotBind, Marks, Stops, Up, UpOwns
<1>3. Hosted'
  BY DEF Opens, Owns, FindsHeld, Refused, Binds, CannotBind, Marks, Stops, Hosted, OnWorker
<1>4. FirstIn'
  BY DEF FirstIn, Making
<1> QED
  BY <1>1, <1>2, <1>3, <1>4

(* Ending a server: nothing it took up is left, or it is dropped with it.  *)
LEMMA EndKeeps ==
  ASSUME IInv, NEW s \in Servers, CutsOff(s) \/ LetsGo(s) \/ Killed(s)
  PROVE  IInv'
<1> USE NobodyAssumption DEF IInv, Typed, lockVars, callVars, Goes
<1>1. CASE CutsOff(s)
  <2>1. Typed'
    BY <1>1 DEF CutsOff, Up
  <2>2. UpOwns'
    BY <1>1 DEF CutsOff, Up, UpOwns
  <2>3. Hosted'
    BY <1>1 DEF CutsOff, Hosted, OnWorker, Of
  <2>4. FirstIn'
    BY <1>1 DEF CutsOff, FirstIn, Making, Calls, Of
  <2> QED
    BY <2>1, <2>2, <2>3, <2>4
<1>2. CASE LetsGo(s)
  <2>1. Typed' /\ FirstIn'
    BY <1>2 DEF LetsGo, FirstIn, Making
  <2>2. UpOwns'
    BY <1>2 DEF LetsGo, Up, UpOwns
  <2>3. Hosted'
    BY <1>2 DEF LetsGo, Hosted, Busy, Of
  <2> QED
    BY <2>1, <2>2, <2>3
<1>3. CASE Killed(s)
  <2>1. Typed'
    BY <1>3 DEF Killed
  <2>2. UpOwns'
    BY <1>3 DEF Killed, Up, UpOwns
  <2>3. Hosted'
    BY <1>3 DEF Killed, Hosted, Of, OnWorker
  <2>4. FirstIn'
    BY <1>3 DEF Killed, FirstIn, Making, Calls, Of, Hosted, OnWorker
  <2> QED
    BY <2>1, <2>2, <2>3, <2>4
<1> QED
  BY <1>1, <1>2, <1>3

(* A call's own steps: a turn is drawn at the queue's end, and passed on   *)
(* by the one first in it alone.                                           *)
LEMMA CallKeeps ==
  ASSUME IInv, NEW c \in Calls,
         Sends(c) \/ Runs(c) \/ Closes(c) \/ (c \in Changes /\ CallStep(c))
  PROVE  IInv'
<1> USE NobodyAssumption DEF IInv, Typed, lockVars, callVars, Moves
<1>1. CASE Sends(c)
  BY <1>1 DEF Sends, UpOwns, Hosted, FirstIn, Making, OnWorker, Calls
<1>2. CASE Runs(c)
  BY <1>2 DEF Runs, UpOwns, Hosted, FirstIn, Making, OnWorker, Calls
<1>3. CASE Closes(c)
  BY <1>3 DEF Closes, UpOwns, Hosted, FirstIn, Making, OnWorker, Calls
<1>4. CASE c \in Changes /\ Draws(c)
  <2>1. via[c] \in Servers /\ c \in Changes
    BY <1>4 DEF Draws, Hosted, OnWorker
  <2>2. queue' \in [Servers -> Seq(Changes)]
    BY <1>4, <2>1, AppendProperties DEF Draws
  <2>3. \A s \in Servers : queue[s] # <<>> => queue'[s] # <<>> /\ Head(queue'[s]) = Head(queue[s])
    BY <1>4, <2>1, AppendProperties DEF Draws
  <2>4. FirstIn'
    BY <1>4, <2>3 DEF Draws, FirstIn, Making, Hosted, OnWorker, Calls
  <2> QED
    BY <1>4, <2>2, <2>4 DEF Draws, UpOwns, Hosted, OnWorker
<1>5. CASE c \in Changes /\ Enters(c)
  BY <1>5 DEF Enters, UpOwns, Hosted, FirstIn, Making, OnWorker, Calls
<1>6. CASE c \in Changes /\ Acts(c)
  BY <1>6 DEF Acts, UpOwns, Hosted, FirstIn, Making, OnWorker, Calls
<1>7. CASE c \in Changes /\ Exits(c)
  <2>1. \A d \in Making : d # c => via[d] # via[c]
    BY <1>7 DEF Exits, FirstIn, Making
  <2>2. queue' \in [Servers -> Seq(Changes)]
    BY <1>7 DEF Exits, FirstIn, Making, Hosted, OnWorker
  <2>3. FirstIn'
    BY <1>7, <2>1 DEF Exits, FirstIn, Making, Calls
  <2> QED
    BY <1>7, <2>2, <2>3 DEF Exits, UpOwns, Hosted, OnWorker
<1> QED
  BY <1>1, <1>2, <1>3, <1>4, <1>5, <1>6, <1>7 DEF CallStep

LEMMA Kept == IInv /\ [Next]_vars => IInv'
<1> SUFFICES ASSUME IInv, [Next]_vars PROVE IInv'
  OBVIOUS
<1>1. ASSUME NEW s \in Servers, ServerStep(s) \/ Stops(s) \/ Killed(s) PROVE IInv'
  <2>1. CASE CutsOff(s) \/ LetsGo(s) \/ Killed(s)
    BY <2>1, EndKeeps
  <2>2. CASE ~(CutsOff(s) \/ LetsGo(s) \/ Killed(s))
    <3>1. UNCHANGED callVars
      BY <1>1, <2>2 DEF ServerStep, callVars, Opens, Owns, FindsHeld, Refused, Binds, CannotBind,
                        Marks, Stops
    <3> QED
      BY <1>1, <2>2, <3>1, ServerKeeps DEF ServerStep
  <2> QED
    BY <2>1, <2>2
<1>2. ASSUME NEW c \in Calls, Sends(c) \/ Runs(c) \/ Closes(c) \/ (c \in Changes /\ CallStep(c)) PROVE IInv'
  BY <1>2, CallKeeps
<1>3. CASE UNCHANGED <<owner, server, queue, call, via>>
  BY <1>3 DEF IInv, Typed, UpOwns, Hosted, FirstIn, Making
<1>4. ASSUME NEW d \in Direct, DirectStep(d) PROVE IInv'
  BY <1>3, <1>4 DEF DirectStep, Looks, Probes, ProbeDone, ProbeFails, Named, LandsDirectly, lockVars, callVars
<1>5. CASE UNCHANGED vars
  BY <1>3, <1>5 DEF vars, lockVars, callVars
<1> QED
  BY <1>1, <1>2, <1>4, <1>5 DEF Next, AllOver, Calls

(* The invariant holds in every state of the servers and their calls.      *)
THEOREM Invariant == Spec => []IInv
BY Start, Kept, PTL DEF Spec

(* Whatever is started, stopped or killed when, changes are made one at a  *)
(* time and under the lock of the server that took them (Server.stop).     *)
THEOREM MadeUnderTheLock == Spec => []ChangesUnderTheLock
<1>1. IInv => ChangesUnderTheLock
  BY DEF IInv, Typed, UpOwns, Hosted, FirstIn, ChangesUnderTheLock, Making, OnWorker, Up, Calls
<1> QED
  BY <1>1, Invariant, PTL

(* The rest of the state is typed by its own steps.                        *)
Rest ==
  /\ text \in Servers \cup {"absent", "empty"}
  /\ shared \subseteq Direct
  /\ told \in [Calls -> {"nothing", "unreachable", "landed", "refused", "read"}]
  /\ direct \in [Direct -> {"idle", "opened", "held", "probing", "clear", "landed", "refused", "escaped"}]
  /\ landed \in [Changes -> Nat]

LEMMA RestKept == Typed /\ Rest /\ [Next]_vars => Rest'
<1> SUFFICES ASSUME Typed, Rest, [Next]_vars PROVE Rest'
  OBVIOUS
<1> USE DEF Rest, lockVars, callVars
<1>1. ASSUME NEW s \in Servers, ServerStep(s) \/ Stops(s) \/ Killed(s) PROVE Rest'
  <2> owner \in Servers \cup {Nobody}
    BY DEF Typed
  <2>1. CASE Opens(s) \/ Owns(s) \/ Binds(s) \/ CannotBind(s) \/ Marks(s)
             \/ LetsGo(s) \/ Stops(s)
    BY <2>1 DEF Opens, Owns, Binds, CannotBind, Marks, LetsGo, Stops
  <2>2. CASE FindsHeld(s) \/ Refused(s)
    BY <2>2 DEF FindsHeld, Refused
  <2>3. CASE CutsOff(s) \/ Killed(s)
    BY <2>3 DEF CutsOff, Killed, CutOff
  <2> QED
    BY <1>1, <2>1, <2>2, <2>3 DEF ServerStep
<1>2. ASSUME NEW c \in Calls, Sends(c) \/ Runs(c) \/ Closes(c) PROVE Rest'
  BY <1>2 DEF Sends, Runs, Closes, Answered
<1>3. ASSUME NEW c \in Changes, CallStep(c) PROVE Rest'
  <2>1. CASE Acts(c)
    BY <2>1, AppendProperties DEF Acts
  <2>2. CASE Runs(c) \/ Draws(c) \/ Enters(c) \/ Exits(c)
    BY <2>2 DEF Runs, Draws, Enters, Exits, Answered, Result
  <2> QED
    BY <1>3, <2>1, <2>2 DEF CallStep
<1>4. ASSUME NEW d \in Direct, DirectStep(d) PROVE Rest'
  <2> owner \in Servers \cup {Nobody}
    BY DEF Typed
  <2>1. CASE LandsDirectly(d)
    BY <2>1, AppendProperties DEF LandsDirectly, Steps
  <2>2. CASE Looks(d) \/ Probes(d) \/ ProbeDone(d) \/ ProbeFails(d) \/ Named(d)
    BY <2>2 DEF Looks, Probes, ProbeDone, ProbeFails, Named, Steps
  <2> QED
    BY <1>4, <2>1, <2>2 DEF DirectStep
<1>5. CASE UNCHANGED vars
  BY <1>5 DEF vars
<1> QED
  BY <1>1, <1>2, <1>3, <1>4, <1>5 DEF Next, AllOver, Calls

(* Every state is typed: servers, calls and direct changes each go through *)
(* the steps of their course and no other (kb.server, kb.served).          *)
THEOREM TypeCorrect == Spec => []TypeOK
<1>1. Init => Rest
  BY DEF Init, Rest
<1>2. IInv /\ Rest => TypeOK
  BY DEF IInv, Typed, Rest, TypeOK
<1>3. IInv => Typed
  BY DEF IInv
<1> QED
  BY <1>1, <1>2, <1>3, Invariant, RestKept, PTL DEF Spec

(* No start that is refused, and no probe, touches the name the server that*)
(* holds the store left in its file (served.owned opens it to append).     *)
LEMMA NameKept == IInv /\ NamesItsServer /\ [Next]_vars => NamesItsServer'
<1> SUFFICES ASSUME IInv, NamesItsServer, [Next]_vars PROVE NamesItsServer'
  OBVIOUS
<1> USE TextAssumption DEF NamesItsServer, lockVars
<1>1. ASSUME NEW s \in Servers, ServerStep(s) \/ Stops(s) \/ Killed(s) PROVE NamesItsServer'
  BY <1>1 DEF ServerStep, Goes, Opens, Owns, FindsHeld, Refused, Binds, CannotBind, Marks,
              CutsOff, LetsGo, Stops, Killed, IInv, Typed, UpOwns, Up
<1>2. ASSUME NEW c \in Calls, Sends(c) \/ Runs(c) \/ Closes(c) \/ CallStep(c) PROVE NamesItsServer'
  BY <1>2 DEF Sends, Runs, Closes, CallStep, Draws, Enters, Acts, Exits
<1>3. ASSUME NEW d \in Direct, DirectStep(d) PROVE NamesItsServer'
  BY <1>3 DEF DirectStep, Looks, Probes, ProbeDone, ProbeFails, Named, LandsDirectly
<1>4. CASE UNCHANGED vars
  BY <1>4 DEF vars
<1> QED
  BY <1>1, <1>2, <1>3, <1>4 DEF Next, AllOver, Calls

(* While a server serves, its store's file names it (served.mark).         *)
THEOREM NamedWhileServing == Spec => []NamesItsServer
<1>1. Init => NamesItsServer
  BY DEF Init, NamesItsServer
<1> QED
  BY <1>1, Invariant, NameKept, PTL DEF Spec

(* What a change was told against where it is: it lands once, when it acts,*)
(* and an answer other than the server's loss is given when it is over.    *)
Told ==
  \A c \in Changes :
    /\ landed[c] <= 1
    /\ call[c] \notin {"acted", "over"} => landed[c] = 0
    /\ told[c] = "landed" => call[c] = "over" /\ landed[c] = 1
    /\ told[c] = "refused" => call[c] = "over" /\ landed[c] = 0

(* A server's steps answer nobody but with its loss, and land nothing.     *)
LEMMA ServerTells ==
  ASSUME Typed, Rest, Told, NEW s \in Servers, ServerStep(s) \/ Stops(s) \/ Killed(s)
  PROVE  Told'
<1> USE DEF Typed, Rest, Told, lockVars, callVars, Goes
<1>1. CASE CutsOff(s)
  BY <1>1 DEF CutsOff, CutOff, Calls
<1>2. CASE Killed(s)
  BY <1>2 DEF Killed, CutOff, Calls
<1>3. CASE UNCHANGED <<callVars, landed>>
  BY <1>3
<1>4. CASE Opens(s) \/ Owns(s) \/ FindsHeld(s) \/ Refused(s) \/ Binds(s) \/ CannotBind(s)
           \/ Marks(s) \/ LetsGo(s) \/ Stops(s)
  BY <1>3, <1>4 DEF Opens, Owns, FindsHeld, Refused, Binds, CannotBind, Marks, LetsGo, Stops
<1> QED
  BY <1>1, <1>2, <1>4 DEF ServerStep

(* A change's own steps: it has not landed before it acts, and its answer  *)
(* is what its act came to, unless it was answered for already.            *)
LEMMA ChangeTells ==
  ASSUME Typed, Rest, Told, NEW c \in Changes, Sends(c) \/ CallStep(c)
  PROVE  Told'
<1> USE DEF Typed, Rest, Told, Moves, Calls
<1>1. CASE Sends(c)
  BY <1>1 DEF Sends
<1>2. CASE Runs(c)
  BY <1>2, KindsAssumption DEF Runs
<1>3. CASE Draws(c) \/ Enters(c)
  BY <1>3 DEF Draws, Enters
<1>4. CASE Acts(c)
  BY <1>4 DEF Acts
<1>5. CASE Exits(c)
  BY <1>5 DEF Exits, Answered, Result
<1> QED
  BY <1>1, <1>2, <1>3, <1>4, <1>5 DEF CallStep

LEMMA ToldKept == Typed /\ Rest /\ Told /\ [Next]_vars => Told'
<1> SUFFICES ASSUME Typed, Rest, Told, [Next]_vars PROVE Told'
  OBVIOUS
<1>1. ASSUME NEW c \in Streams, Sends(c) \/ Runs(c) \/ Closes(c) PROVE Told'
  <2> c \notin Changes
    BY KindsAssumption
  <2> QED
    BY <1>1 DEF Sends, Runs, Closes, Answered, Moves, Typed, Rest, Told, Calls
<1>2. CASE UNCHANGED <<callVars, landed>>
  BY <1>2 DEF callVars, Told
<1>3. ASSUME NEW d \in Direct, DirectStep(d) PROVE Told'
  BY <1>2, <1>3 DEF DirectStep, Looks, Probes, ProbeDone, ProbeFails, Named, LandsDirectly
<1>4. CASE UNCHANGED vars
  BY <1>2, <1>4 DEF vars
<1> QED
  BY <1>1, <1>3, <1>4, ServerTells, ChangeTells DEF Next, AllOver

(* However its server is stopped, killed or drained meanwhile, a client is *)
(* told what became of its change: "landed" of one that landed once,       *)
(* "refused" of one that never did (network.called, _OneAtATime).          *)
THEOREM ToldSo == Spec => []ToldTruly
<1>1. Init => Rest /\ Told
  BY DEF Init, Rest, Told, Calls
<1>2. IInv => Typed
  BY DEF IInv
<1>3. Told => ToldTruly
  BY DEF Told, ToldTruly
<1> QED
  BY <1>1, <1>2, <1>3, Invariant, RestKept, ToldKept, PTL DEF Spec
=============================================================================
