------------------------------ MODULE Serving ------------------------------
(***************************************************************************)
(* A store served (kb.server, kb.served): a server owns the store by an    *)
(* exclusive flock on kb/served.yaml, names its address in that file, and  *)
(* takes the changes asked of it on a pool of workers one at a time, until *)
(* it is told to stop or is killed.  A change asked of the store directly  *)
(* first probes the lock, shared, and is refused while a server holds it.  *)
(* Each server's lock on changes is the queue that InOrder implements      *)
(* (Turns); each server serves at an address of its own.                   *)
(***************************************************************************)
EXTENDS Naturals, FiniteSets, Sequences, SequencesExt

CONSTANTS
  Servers,  (* Processes that serve the store, each once.                  *)
  Changes,  (* Changes asked of a server, over the network.                *)
  Streams,  (* Exports asked of a server, streamed to their readers.       *)
  Direct,   (* Changes asked of the store directly, each in its process.   *)
  Workers,  (* The number of calls a server answers at once.               *)
  Nobody

Calls == Changes \cup Streams

ASSUME WorkersAssumption == Workers \in Nat \ {0}
ASSUME NobodyAssumption == Nobody \notin Servers
ASSUME TextAssumption == Servers \cap {"absent", "empty"} = {}
ASSUME KindsAssumption == Changes \cap Streams = {}

VARIABLES
  text,    (* What kb/served.yaml says: absent, empty, or whose address.   *)
  owner,   (* The server that holds the file's exclusive lock.             *)
  shared,  (* The direct changes that hold it shared.                      *)
  server,  (* Where each server is.                                        *)
  queue,   (* The turns drawn from each server's lock, the first inside.   *)
  call,    (* Where each call asked of a server is.                        *)
  via,     (* The server each was asked of.                                *)
  told,    (* What each was answered.                                      *)
  direct,  (* Where each direct change is.                                 *)
  landed   (* How often each change asked of a server has landed.          *)

lockVars == <<text, owner, shared>>
callVars == <<queue, call, via, told>>
vars == <<lockVars, server, callVars, direct, landed>>

Up == {"owns", "bound", "serving", "stopping", "draining"}
OnWorker == {"running", "queued", "inside", "acted", "streaming"}

(* Servers, calls and direct changes are each somewhere in their course.   *)
TypeOK ==
  /\ text \in Servers \cup {"absent", "empty"}
  /\ owner \in Servers \cup {Nobody}
  /\ shared \subseteq Direct
  /\ server \in [Servers -> Up \cup {"down", "opened", "held", "refused", "escaped", "ended", "killed"}]
  /\ queue \in [Servers -> Seq(Changes)]
  /\ call \in [Calls -> OnWorker \cup {"idle", "sent", "over"}]
  /\ via \in [Calls -> Servers \cup {Nobody}]
  /\ told \in [Calls -> {"nothing", "unreachable", "landed", "refused", "read"}]
  /\ direct \in [Direct -> {"idle", "opened", "held", "probing", "clear", "landed", "refused", "escaped"}]
  /\ landed \in [Changes -> Nat]

Init ==
  /\ text = "absent"
  /\ owner = Nobody
  /\ shared = {}
  /\ server = [s \in Servers |-> "down"]
  /\ queue = [s \in Servers |-> <<>>]
  /\ call = [c \in Calls |-> "idle"]
  /\ via = [c \in Calls |-> Nobody]
  /\ told = [c \in Calls |-> "nothing"]
  /\ direct = [d \in Direct |-> "idle"]
  /\ landed = [c \in Changes |-> 0]

-----------------------------------------------------------------------------
(* A server's start, step by step.                                         *)

Goes(s, from, to) == server[s] = from /\ server' = [server EXCEPT ![s] = to]

(* Mutated: the file opened to be written anew, which empties it.          *)
OpensEmptied(s) ==
  /\ Goes(s, "down", "opened")
  /\ text' = "empty"
  /\ UNCHANGED <<owner, shared, callVars, direct, landed>>

(* owned: the file opened, made when there is none, what it says kept.     *)
Opens(s) ==
  /\ Goes(s, "down", "opened")
  /\ text' = IF text = "absent" THEN "empty" ELSE text
  /\ UNCHANGED <<owner, shared, callVars, direct, landed>>

(* owned: the lock taken, or found held, by a server or by a probe.        *)
Owns(s) ==
  /\ owner = Nobody /\ shared = {}
  /\ Goes(s, "opened", "owns")
  /\ owner' = s
  /\ UNCHANGED <<text, shared, callVars, direct, landed>>

FindsHeld(s) ==
  /\ owner # Nobody \/ shared # {}
  /\ Goes(s, "opened", "held")
  /\ UNCHANGED <<lockVars, callVars, direct, landed>>

(* _named: refused naming what the file says by now; an empty file raises. *)
Refused(s) ==
  /\ Goes(s, "held", IF text = "empty" THEN "escaped" ELSE "refused")
  /\ UNCHANGED <<lockVars, callVars, direct, landed>>

(* The address bound, and mark begun: the file emptied.                    *)
Binds(s) ==
  /\ Goes(s, "owns", "bound")
  /\ text' = "empty"
  /\ UNCHANGED <<owner, shared, callVars, direct, landed>>

(* Nothing can listen at the address: what was made is undone, lock last.  *)
CannotBind(s) ==
  /\ Goes(s, "owns", "ended")
  /\ owner' = Nobody
  /\ UNCHANGED <<text, shared, callVars, direct, landed>>

(* mark: the file written as it is flushed; then the server answers.       *)
Marks(s) ==
  /\ Goes(s, "bound", "serving")
  /\ text' = s
  /\ UNCHANGED <<owner, shared, callVars, direct, landed>>

-----------------------------------------------------------------------------
(* A call asked of a server: a request, the pool, a turn, an answer.       *)

Moves(c, from, to) == call[c] = from /\ call' = [call EXCEPT ![c] = to]

Of(s) == {c \in Calls : via[c] = s}
Busy(s) == {c \in Of(s) : call[c] \in OnWorker}

(* A client calls the server its connection names; one that does not       *)
(* answer is answered for (network.called).                                *)
Sends(c) ==
  /\ \E s \in Servers :
       /\ via' = [via EXCEPT ![c] = s]
       /\ IF server[s] = "serving"
          THEN Moves(c, "idle", "sent") /\ UNCHANGED told
          ELSE Moves(c, "idle", "over") /\ told' = [told EXCEPT ![c] = "unreachable"]
  /\ UNCHANGED <<lockVars, server, queue, direct, landed>>

(* A worker free takes the call up, a stream to give it message by message.*)
Runs(c) ==
  /\ Cardinality(Busy(via[c])) < Workers
  /\ Moves(c, "sent", IF c \in Streams THEN "streaming" ELSE "running")
  /\ UNCHANGED <<lockVars, server, queue, via, told, direct, landed>>

(* _OneAtATime: a change waits for its turn, is made, and passes it on.    *)
Draws(c) ==
  /\ Moves(c, "running", "queued")
  /\ queue' = [queue EXCEPT ![via[c]] = Append(@, c)]
  /\ UNCHANGED <<lockVars, server, via, told, direct, landed>>

Enters(c) ==
  /\ Moves(c, "queued", "inside")
  /\ queue[via[c]] # <<>> /\ Head(queue[via[c]]) = c
  /\ UNCHANGED <<lockVars, server, queue, via, told, direct, landed>>

(* The servicer the server hosts lands the change, without a probe.        *)
Acts(c) ==
  /\ Moves(c, "inside", "acted")
  /\ landed' \in {landed, [landed EXCEPT ![c] = @ + 1]}
  /\ UNCHANGED <<lockVars, server, queue, via, told, direct>>

Result(c) == IF landed[c] > 0 THEN "landed" ELSE "refused"

(* Answered, unless its client was cut off and answered for already.       *)
Answered(c, answer) ==
  told' = [told EXCEPT ![c] = IF @ = "nothing" THEN answer ELSE @]

(* Mutated: a change that was refused leaves without passing its turn on.  *)
ExitsHolding(c) ==
  /\ Moves(c, "acted", "over")
  /\ queue' = IF Result(c) = "landed" THEN [queue EXCEPT ![via[c]] = Tail(@)] ELSE queue
  /\ Answered(c, Result(c))
  /\ UNCHANGED <<lockVars, server, via, direct, landed>>

Exits(c) ==
  /\ Moves(c, "acted", "over")
  /\ queue' = [queue EXCEPT ![via[c]] = Tail(@)]
  /\ Answered(c, Result(c))
  /\ UNCHANGED <<lockVars, server, via, direct, landed>>

(* A stream ends given whole, closed by its reader, or cut off.            *)
Closes(c) ==
  /\ Moves(c, "streaming", "over")
  /\ Answered(c, "read")
  /\ UNCHANGED <<lockVars, server, queue, via, direct, landed>>

-----------------------------------------------------------------------------
(* A server's end.                                                         *)

(* stop: told by a signal, it answers nothing new.                         *)
Stops(s) ==
  /\ Goes(s, "serving", "stopping")
  /\ UNCHANGED <<lockVars, callVars, direct, landed>>

Unanswered(s) == {c \in Of(s) : told[c] = "nothing"}

(* Mutated: whoever is cut off is told that nothing was written.           *)
CutOffRefused(s) == [c \in Calls |-> IF c \in Unanswered(s) THEN "refused" ELSE told[c]]

(* Its client can tell only that the server does not answer it any more.   *)
CutOff(s) == [c \in Calls |-> IF c \in Unanswered(s) THEN "unreachable" ELSE told[c]]

(* Everything is answered, or the seconds of grace are over: what is still *)
(* unanswered is cut off, and what no worker has taken up is dropped.      *)
CutsOff(s) ==
  /\ Goes(s, "stopping", "draining")
  /\ told' = CutOff(s)
  /\ call' = [c \in Calls |-> IF c \in Of(s) /\ call[c] = "sent" THEN "over" ELSE call[c]]
  /\ UNCHANGED <<lockVars, queue, via, direct, landed>>

(* Mutated: the store let go without waiting for the workers.              *)
LetsGoEarly(s) ==
  /\ Goes(s, "draining", "ended")
  /\ owner' = Nobody
  /\ UNCHANGED <<text, shared, callVars, direct, landed>>

(* The pool shut down, which waits for its workers, then the store let go. *)
LetsGo(s) ==
  /\ Busy(s) = {}
  /\ Goes(s, "draining", "ended")
  /\ owner' = Nobody
  /\ UNCHANGED <<text, shared, callVars, direct, landed>>

(* The process killed: its lock goes, and whatever was asked of it.        *)
Killed(s) ==
  /\ server[s] \in Up
  /\ server' = [server EXCEPT ![s] = "killed"]
  /\ owner' = Nobody
  /\ queue' = [queue EXCEPT ![s] = <<>>]
  /\ call' = [c \in Calls |-> IF c \in Of(s) THEN "over" ELSE call[c]]
  /\ told' = CutOff(s)
  /\ UNCHANGED <<text, shared, via, direct, landed>>

-----------------------------------------------------------------------------
(* A change asked of the store directly: unserved, then the write path.    *)

Steps(d, from, to) == direct[d] = from /\ direct' = [direct EXCEPT ![d] = to]

Looks(d) ==
  /\ Steps(d, "idle", IF text = "absent" THEN "clear" ELSE "opened")
  /\ UNCHANGED <<lockVars, server, callVars, landed>>

Probes(d) ==
  /\ owner = Nobody
  /\ Steps(d, "opened", "probing")
  /\ shared' = shared \cup {d}
  /\ UNCHANGED <<text, owner, server, callVars, landed>>

ProbeDone(d) ==
  /\ Steps(d, "probing", "clear")
  /\ shared' = shared \ {d}
  /\ UNCHANGED <<text, owner, server, callVars, landed>>

ProbeFails(d) ==
  /\ owner # Nobody
  /\ Steps(d, "opened", "held")
  /\ UNCHANGED <<lockVars, server, callVars, landed>>

(* Refused naming what the file says by now; an empty file raises instead. *)
Named(d) ==
  /\ Steps(d, "held", IF text = "empty" THEN "escaped" ELSE "refused")
  /\ UNCHANGED <<lockVars, server, callVars, landed>>

LandsDirectly(d) ==
  /\ Steps(d, "clear", "landed")
  /\ UNCHANGED <<lockVars, server, callVars, landed>>

-----------------------------------------------------------------------------

ServerStep(s) ==
  \/ Opens(s) \/ Owns(s) \/ FindsHeld(s) \/ Refused(s) \/ Binds(s) \/ CannotBind(s)
  \/ Marks(s) \/ CutsOff(s) \/ LetsGo(s)

CallStep(c) == Runs(c) \/ Draws(c) \/ Enters(c) \/ Acts(c) \/ Exits(c)

DirectStep(d) ==
  Looks(d) \/ Probes(d) \/ ProbeDone(d) \/ ProbeFails(d) \/ Named(d) \/ LandsDirectly(d)

(* Everything asked is over, and nothing is up.                            *)
AllOver ==
  /\ \A s \in Servers : server[s] \in {"refused", "escaped", "ended", "killed"}
  /\ \A c \in Calls : call[c] = "over"
  /\ \A d \in Direct : direct[d] \in {"landed", "refused", "escaped"}
  /\ UNCHANGED vars

Next ==
  \/ \E s \in Servers : ServerStep(s) \/ Stops(s) \/ Killed(s)
  \/ \E c \in Changes : Sends(c) \/ CallStep(c)
  \/ \E c \in Streams : Sends(c) \/ Runs(c) \/ Closes(c)
  \/ \E d \in Direct : DirectStep(d)
  \/ AllOver

Spec == Init /\ [][Next]_vars

(* A process goes on while it runs, and a worker with the call it took; a  *)
(* reader gives its stream up in the end (a stream has no deadline).  No   *)
(* process need be started, told to stop or killed, and nothing be asked.  *)
FairSpec ==
  /\ Spec
  /\ \A s \in Servers : WF_vars(server[s] # "down" /\ ServerStep(s))
  /\ \A c \in Changes : WF_vars(CallStep(c))
  /\ \A c \in Streams : WF_vars(Runs(c) \/ Closes(c))

-----------------------------------------------------------------------------

Making == {c \in Changes : call[c] \in {"inside", "acted"}}

(* Changes are made one at a time, whichever server takes them, and only   *)
(* while that server holds its store: one that stops lets go of it when    *)
(* nothing it took up is still being made (Server.stop, _OneAtATime).      *)
ChangesUnderTheLock ==
  /\ \A c \in Making : owner = via[c]
  /\ \A c, d \in Making : c = d

(* A server that serves is the one its store's file names, whatever starts *)
(* were tried and refused meanwhile (served.mark, served.owned).           *)
NamesItsServer ==
  \A s \in Servers : server[s] \in {"serving", "stopping", "draining"} => text = s

(* What a client is told of its change is so: landed once, or not at all,  *)
(* unless the server was lost to it (network.called).                      *)
ToldTruly ==
  \A c \in Changes :
    /\ landed[c] <= 1
    /\ told[c] = "landed" => landed[c] = 1
    /\ told[c] = "refused" => landed[c] = 0

(* Every call asked of a server is answered.                               *)
EveryCallAnswered == \A c \in Calls : call[c] = "sent" ~> told[c] # "nothing"

(* A server told to stop lets the store go, for another to serve.          *)
StopsAtLast == \A s \in Servers : server[s] = "stopping" ~> owner # s

(* boundary: a call that writes is refused while a server owns the store.  *)
DirectRefusedWhileOwned ==
  [][\A d \in Direct : direct[d] # "landed" /\ direct'[d] = "landed" => owner = Nobody]_vars

(* owned: a start is refused when another server holds the store.          *)
StartRefusedByAServer ==
  [][\A s \in Servers : server[s] = "opened" /\ server'[s] = "held" => owner # Nobody]_vars
=============================================================================
