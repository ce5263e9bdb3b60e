---------------------------- MODULE JugglerClient ----------------------------
(***************************************************************************)
(* juggler.Client over a PipeTransport: any number of goroutines that Call *)
(* or Send, the one goroutine that runs readLoop, a goroutine that Closes  *)
(* the client, and the browser at the other end of the two pipes.          *)
(*                                                                         *)
(* A process of this module is one execution of Call or of Send.  The      *)
(* calls in Inline are made by an event handler, which readLoop runs on    *)
(* its own goroutine (Page.onConsole and onUncaughtError hand the event to *)
(* the user's function there).                                             *)
(***************************************************************************)
EXTENDS Naturals, Sequences

CONSTANTS
  Calls,       (* executions of Client.Call                                *)
  Inline,      (* those of them made from an event handler                 *)
  NoDeadline,  (* those of them whose context carries no deadline          *)
  Sends,       (* executions of Client.Send                                *)
  PipeCap,     (* how many requests the client-to-browser pipe holds       *)
  MaxEvents,   (* bound: events the browser emits                          *)
  Nobody, NoMsg

Procs == Calls \cup Sends

ASSUME ClientAssumption ==
  /\ Inline \subseteq Calls
  /\ NoDeadline \subseteq Calls
  /\ Calls \cap Sends = {}
  /\ PipeCap \in Nat \ {0}
  /\ MaxEvents \in Nat

VARIABLES
  pc,           (* where each execution is                                 *)
  nextID,       (* Client.nextID                                           *)
  id,           (* the message id of each execution, 0 before it has one   *)
  pending,      (* the calls whose channel is in Client.pending, under id  *)
  ch,           (* the one-slot channel of each call                       *)
  got,          (* the reply a call returned with                          *)
  outcome,      (* how an execution returned                               *)
  expired,      (* the calls whose context is done                         *)
  writing,      (* the holder of PipeTransport.writeMu                     *)
  done,         (* Client.done is closed                                   *)
  closer,       (* progress of Client.Close                                *)
  rl,           (* what readLoop is doing                                  *)
  cur,          (* the message readLoop holds                              *)
  target,       (* the call whose channel readLoop looked up               *)
  handled,      (* events whose handlers have returned                     *)
  toBrowser,    (* the client-to-browser pipe                              *)
  fromBrowser,  (* the browser-to-client pipe and the reader's buffer      *)
  inBrowser,    (* requests the browser has read and not answered          *)
  emitted,      (* events the browser has written                          *)
  served,       (* the executions the browser has answered (history)       *)
  up            (* the browser process holds its pipe ends open            *)

callVars    == <<pc, id, got, outcome, expired>>
tableVars   == <<pending, ch>>
readerVars  == <<rl, cur, target, handled>>
browserVars == <<inBrowser, emitted, served, up>>
vars == <<callVars, nextID, tableVars, writing, done, closer, readerVars,
          toBrowser, fromBrowser, browserVars>>

Request == [id : Nat, from : Procs]
Reply   == [kind : {"reply"}, id : Nat, for : Procs, after : Nat]
Event   == [kind : {"event"}, n : Nat]

ASSUME NullAssumption == Nobody \notin Procs /\ NoMsg \notin Reply \cup Event

InCall == {"register", "lock", "write", "wait", "cleanup"}

TypeOK ==
  /\ pc \in [Procs -> {"idle", "returned"} \cup InCall]
  /\ nextID \in Nat
  /\ id \in [Procs -> Nat]
  /\ pending \subseteq Calls
  /\ ch \in [Calls -> Reply \cup {NoMsg}]
  /\ got \in [Calls -> Reply \cup {NoMsg}]
  /\ outcome \in [Procs -> {"none", "sent", "answered", "failed", "ctx", "closed"}]
  /\ expired \subseteq Calls
  /\ writing \in Procs \cup {Nobody}
  /\ done \in BOOLEAN
  /\ closer \in {"no", "signalled", "closed"}
  /\ rl \in {"receive", "deliver", "handler", "ended"}
  /\ cur \in Reply \cup Event \cup {NoMsg}
  /\ target \in Calls \cup {Nobody}
  /\ rl = "deliver" => cur \in Reply /\ target \in Calls
  /\ rl = "handler" => cur \in Event
  /\ handled \in Nat
  /\ toBrowser \in Seq(Request)
  /\ fromBrowser \in Seq(Reply \cup Event)
  /\ inBrowser \subseteq Request
  /\ emitted \in Nat
  /\ served \subseteq Procs
  /\ up \in BOOLEAN

Init ==
  /\ pc = [p \in Procs |-> "idle"]
  /\ nextID = 0
  /\ id = [p \in Procs |-> 0]
  /\ pending = {}
  /\ ch = [c \in Calls |-> NoMsg]
  /\ got = [c \in Calls |-> NoMsg]
  /\ outcome = [p \in Procs |-> "none"]
  /\ expired = {}
  /\ writing = Nobody
  /\ done = FALSE
  /\ closer = "no"
  /\ rl = "receive" /\ cur = NoMsg /\ target = Nobody /\ handled = 0
  /\ toBrowser = <<>> /\ fromBrowser = <<>>
  /\ inBrowser = {} /\ emitted = 0 /\ served = {} /\ up = TRUE

Goto(p, l) == pc' = [pc EXCEPT ![p] = l]
Return(p, how) ==
  /\ Goto(p, "returned")
  /\ outcome' = [outcome EXCEPT ![p] = how]

transportClosed == closer = "closed"

-----------------------------------------------------------------------------
(* Client.Call and Client.Send.  A params value that does not marshal ends *)
(* Call before any of this and is left out.                                *)

(* nextID.Add(1): one atomic step, whatever the other goroutines do. *)
AddID_Shared == nextID
AddID == nextID + 1

Begin(p) ==
  /\ pc[p] = "idle"
  /\ p \in Inline => rl = "handler" /\ \A h \in Inline : pc[h] \in {"idle", "returned"}
  /\ nextID' = AddID
  /\ id' = [id EXCEPT ![p] = nextID']
  /\ Goto(p, IF p \in Calls THEN "register" ELSE "lock")
  /\ UNCHANGED <<got, outcome, expired, tableVars, writing, done, closer,
                 readerVars, toBrowser, fromBrowser, browserVars>>

(* pending[id] = ch replaces whatever was registered under the same id. *)
Register_Skipped(c) ==
  /\ pc[c] = "register"
  /\ Goto(c, "lock")
  /\ UNCHANGED <<id, got, outcome, expired, nextID, tableVars, writing, done,
                 closer, readerVars, toBrowser, fromBrowser, browserVars>>

Register(c) ==
  /\ pc[c] = "register"
  /\ pending' = {d \in pending : id[d] # id[c]} \cup {c}
  /\ Goto(c, "lock")
  /\ UNCHANGED <<id, got, outcome, expired, nextID, ch, writing, done, closer,
                 readerVars, toBrowser, fromBrowser, browserVars>>

(* transport.Send returns an error: Call still has its entry to delete. *)
SendFailed(p) ==
  /\ IF p \in Calls
     THEN /\ Goto(p, "cleanup")
          /\ outcome' = [outcome EXCEPT ![p] = "failed"]
     ELSE Return(p, "failed")

(* json.Marshal(msg) fails, before the lock is taken. *)
MarshalFails(p) ==
  /\ pc[p] = "lock"
  /\ SendFailed(p)
  /\ UNCHANGED <<id, got, expired, nextID, tableVars, writing, done, closer,
                 readerVars, toBrowser, fromBrowser, browserVars>>

LockWriter(p) ==
  /\ pc[p] = "lock"
  /\ writing = Nobody
  /\ writing' = p
  /\ Goto(p, "write")
  /\ UNCHANGED <<id, got, outcome, expired, nextID, tableVars, done, closer,
                 readerVars, toBrowser, fromBrowser, browserVars>>

(* The write blocks while the pipe is full: no context interrupts it. *)
Write(p) ==
  /\ pc[p] = "write"
  /\ up /\ ~transportClosed
  /\ Len(toBrowser) < PipeCap
  /\ toBrowser' = Append(toBrowser, [id |-> id[p], from |-> p])
  /\ writing' = Nobody
  /\ IF p \in Calls
     THEN Goto(p, "wait") /\ UNCHANGED outcome
     ELSE Return(p, "sent")
  /\ UNCHANGED <<id, got, expired, nextID, tableVars, done, closer,
                 readerVars, fromBrowser, browserVars>>

WriteFails(p) ==
  /\ pc[p] = "write"
  /\ ~up \/ transportClosed
  /\ writing' = Nobody
  /\ SendFailed(p)
  /\ UNCHANGED <<id, got, expired, nextID, tableVars, done, closer,
                 readerVars, toBrowser, fromBrowser, browserVars>>

(* The three arms of the select.  When several are ready Go picks one. *)
TakeReply(c) ==
  /\ pc[c] = "wait"
  /\ ch[c] # NoMsg
  /\ got' = [got EXCEPT ![c] = ch[c]]
  /\ ch' = [ch EXCEPT ![c] = NoMsg]
  /\ Return(c, "answered")
  /\ UNCHANGED <<id, expired, nextID, pending, writing, done, closer,
                 readerVars, toBrowser, fromBrowser, browserVars>>

GiveUp(c) ==
  /\ pc[c] = "wait"
  /\ c \in expired
  /\ Goto(c, "cleanup")
  /\ outcome' = [outcome EXCEPT ![c] = "ctx"]
  /\ UNCHANGED <<id, got, expired, nextID, tableVars, writing, done, closer,
                 readerVars, toBrowser, fromBrowser, browserVars>>

(* This arm leaves the entry in pending. *)
SeeDone_Dropped(c) == FALSE /\ UNCHANGED vars
SeeDone(c) ==
  /\ pc[c] = "wait"
  /\ done
  /\ Return(c, "closed")
  /\ UNCHANGED <<id, got, expired, nextID, tableVars, writing, done, closer,
                 readerVars, toBrowser, fromBrowser, browserVars>>

(* delete(pending, id) under pendingMu, then return. *)
Forget_KeepsEntry(c) ==
  /\ pc[c] = "cleanup"
  /\ Goto(c, "returned")
  /\ UNCHANGED <<id, got, outcome, expired, nextID, tableVars, writing, done,
                 closer, readerVars, toBrowser, fromBrowser, browserVars>>

Forget(c) ==
  /\ pc[c] = "cleanup"
  /\ pending' = {d \in pending : id[d] # id[c]}
  /\ Goto(c, "returned")
  /\ UNCHANGED <<id, got, outcome, expired, nextID, ch, writing, done, closer,
                 readerVars, toBrowser, fromBrowser, browserVars>>

(* Every context of a Call has a deadline: the caller's, or the default.   *)
HasTimer_CallersOnly(c) == c \notin NoDeadline
HasTimer(c) == c \in Calls

Expire(c) ==
  /\ pc[c] \in InCall
  /\ HasTimer(c)
  /\ c \notin expired
  /\ expired' = expired \cup {c}
  /\ UNCHANGED <<pc, id, got, outcome, nextID, tableVars, writing, done, closer,
                 readerVars, toBrowser, fromBrowser, browserVars>>

-----------------------------------------------------------------------------
(* Client.Close: done first, then both pipe ends. *)

CloseDone ==
  /\ closer = "no"
  /\ closer' = "signalled"
  /\ done' = TRUE
  /\ UNCHANGED <<callVars, nextID, tableVars, writing, readerVars, toBrowser,
                 fromBrowser, browserVars>>

CloseTransport_Skipped ==
  /\ closer = "signalled"
  /\ UNCHANGED vars

CloseTransport ==
  /\ closer = "signalled"
  /\ closer' = "closed"
  /\ UNCHANGED <<callVars, nextID, tableVars, writing, done, readerVars,
                 toBrowser, fromBrowser, browserVars>>

-----------------------------------------------------------------------------
(* Client.readLoop *)

(* The pending calls a response with message id i is for: at most one,     *)
(* because Register keeps one call per id.                                 *)
Lookup_AnyExecution(i) == {p \in Procs : id[p] = i}
Lookup(i) == {c \in pending : id[c] = i}

(* A response: the entry is looked up and deleted in one critical section. *)
ReceiveReply ==
  /\ rl = "receive"
  /\ fromBrowser # <<>>
  /\ Head(fromBrowser).kind = "reply"
  /\ fromBrowser' = Tail(fromBrowser)
  /\ LET m == Head(fromBrowser) IN
       \/ /\ Lookup(m.id) = {}
          /\ UNCHANGED <<rl, cur, target, pending>>
       \/ \E c \in Lookup(m.id) :
            /\ pending' = pending \ {c}
            /\ rl' = "deliver" /\ cur' = m /\ target' = c
  /\ UNCHANGED <<callVars, nextID, ch, writing, done, closer, handled,
                 toBrowser, browserVars>>

(* ch <- msg would block on a full slot. *)
Deliver ==
  /\ rl = "deliver"
  /\ ch[target] = NoMsg
  /\ ch' = [ch EXCEPT ![target] = cur]
  /\ rl' = "receive" /\ cur' = NoMsg /\ target' = Nobody
  /\ UNCHANGED <<callVars, nextID, pending, writing, done, closer, handled,
                 toBrowser, fromBrowser, browserVars>>

ReceiveEvent_Async ==
  /\ rl = "receive"
  /\ fromBrowser # <<>>
  /\ Head(fromBrowser).kind = "event"
  /\ fromBrowser' = Tail(fromBrowser)
  /\ UNCHANGED <<callVars, nextID, tableVars, writing, done, closer, readerVars,
                 toBrowser, browserVars>>

ReceiveEvent ==
  /\ rl = "receive"
  /\ fromBrowser # <<>>
  /\ Head(fromBrowser).kind = "event"
  /\ fromBrowser' = Tail(fromBrowser)
  /\ rl' = "handler" /\ cur' = Head(fromBrowser)
  /\ UNCHANGED <<callVars, nextID, tableVars, writing, done, closer, target,
                 handled, toBrowser, browserVars>>

(* The handlers return once the calls they made have returned. *)
HandlerReturns_Spawned ==
  /\ rl = "handler"
  /\ handled' = cur.n
  /\ rl' = "receive" /\ cur' = NoMsg
  /\ UNCHANGED <<callVars, nextID, tableVars, writing, done, closer, target,
                 toBrowser, fromBrowser, browserVars>>

HandlerReturns ==
  /\ rl = "handler"
  /\ \A h \in Inline : pc[h] \in {"idle", "returned"}
  /\ handled' = cur.n
  /\ rl' = "receive" /\ cur' = NoMsg
  /\ UNCHANGED <<callVars, nextID, tableVars, writing, done, closer, target,
                 toBrowser, fromBrowser, browserVars>>

(* Receive fails: the browser is gone, this side is closed, or what comes  *)
(* next from the browser is not a message.  What is buffered stays unread. *)
ReceiveFails ==
  /\ rl = "receive"
  /\ done' = TRUE
  /\ rl' = "ended"
  /\ UNCHANGED <<callVars, nextID, tableVars, writing, closer, cur, target,
                 handled, toBrowser, fromBrowser, browserVars>>

-----------------------------------------------------------------------------
(* The browser: it reads requests in order, answers each at most once and  *)
(* in any order, and writes events of its own in between.                  *)

BrowserReads ==
  /\ up
  /\ toBrowser # <<>>
  /\ inBrowser' = inBrowser \cup {Head(toBrowser)}
  /\ toBrowser' = Tail(toBrowser)
  /\ UNCHANGED <<callVars, nextID, tableVars, writing, done, closer, readerVars,
                 fromBrowser, emitted, served, up>>

BrowserAnswers(r) ==
  /\ up
  /\ r \in inBrowser
  /\ inBrowser' = inBrowser \ {r}
  /\ served' = served \cup {r.from}
  /\ fromBrowser' = Append(fromBrowser,
       [kind |-> "reply", id |-> r.id, for |-> r.from, after |-> emitted])
  /\ UNCHANGED <<callVars, nextID, tableVars, writing, done, closer, readerVars,
                 toBrowser, emitted, up>>

BrowserEmits ==
  /\ up
  /\ emitted < MaxEvents
  /\ emitted' = emitted + 1
  /\ fromBrowser' = Append(fromBrowser, [kind |-> "event", n |-> emitted'])
  /\ UNCHANGED <<callVars, nextID, tableVars, writing, done, closer, readerVars,
                 toBrowser, inBrowser, served, up>>

BrowserExits ==
  /\ up
  /\ up' = FALSE
  /\ toBrowser' = <<>> /\ inBrowser' = {}
  /\ UNCHANGED <<callVars, nextID, tableVars, writing, done, closer, readerVars,
                 fromBrowser, emitted, served>>

-----------------------------------------------------------------------------
Work(p) ==
  \/ MarshalFails(p) \/ LockWriter(p) \/ Write(p) \/ WriteFails(p)
  \/ p \in Calls /\ (Register(p) \/ TakeReply(p) \/ GiveUp(p) \/ SeeDone(p) \/ Forget(p))
ReadLoop == ReceiveReply \/ Deliver \/ ReceiveEvent \/ HandlerReturns \/ ReceiveFails
Browser  == BrowserReads \/ (\E r \in inBrowser : BrowserAnswers(r)) \/ BrowserEmits
              \/ BrowserExits

Next ==
  \/ \E p \in Procs : Begin(p) \/ Work(p)
  \/ \E c \in Calls : Expire(c)
  \/ CloseDone \/ CloseTransport
  \/ ReadLoop
  \/ Browser

Spec == Init /\ [][Next]_vars

(* Receive returns when there is something to read, or never will be. *)
Readable == fromBrowser # <<>> \/ ~up \/ transportClosed

(* Go runs every goroutine that can run; a marshalling error, a new call   *)
(* and a Close are not owed to anyone, and neither is any browser step.    *)
ClientFairness ==
  /\ \A p \in Procs :
       /\ SF_vars(LockWriter(p))
       /\ WF_vars(Write(p) \/ WriteFails(p))
  /\ \A c \in Calls :
       /\ WF_vars(Register(c))
       /\ WF_vars(TakeReply(c) \/ GiveUp(c) \/ SeeDone(c))
       /\ WF_vars(Forget(c))
  /\ WF_vars(ReadLoop /\ (rl = "receive" => Readable))
  /\ WF_vars(CloseTransport)
TimerFairness   == \A c \in Calls : WF_vars(Expire(c))
BrowserFairness == WF_vars(BrowserReads)

FairSpec  == Spec /\ ClientFairness
TimedSpec == FairSpec /\ TimerFairness

-----------------------------------------------------------------------------
(* Properties *)

Elems(q) == {q[k] : k \in 1..Len(q)}
Answers(m, c) == m.kind = "reply" /\ m.id = id[c]

(* Correlation: a Call that returns with a reply has the reply the browser *)
(* gave to that call's own request, whatever other goroutines send at the  *)
(* same time and in whatever order the browser answers.                    *)
OwnReply == \A c \in Calls : outcome[c] = "answered" => got[c].for = c

(* A call in its select can always still be answered while the browser     *)
(* lives: its reply is in its channel, or in readLoop's hands, or its      *)
(* entry is in pending and the request or the reply is on its way.  A      *)
(* request written before its entry is registered would break this.        *)
OnItsWay(c) ==
  \/ \E r \in Elems(toBrowser) \cup inBrowser : r.id = id[c]
  \/ \E m \in Elems(fromBrowser) : Answers(m, c)
WaitingIsAnswerable ==
  \A c \in Calls : pc[c] = "wait" /\ up =>
     \/ ch[c] # NoMsg
     \/ rl = "deliver" /\ target = c
     \/ c \in pending /\ OnItsWay(c)

(* While the client is open, pending holds only calls that have not        *)
(* returned: every other return path of Call deletes its entry.            *)
NoLeakWhileOpen == ~done => \A c \in pending : pc[c] \in InCall

(* Events keep their place before a reply: when a reply is in a channel,   *)
(* the handlers of every event the browser wrote before it have returned.  *)
(* Page and Browser rely on it to find the state an event left behind once *)
(* a Call has returned.                                                    *)
EventsBeforeReply == \A c \in Calls : ch[c] # NoMsg => ch[c].after <= handled

(* A Call made by an event handler on readLoop's goroutine can only time   *)
(* out or fail: its reply is behind the very handler that waits for it.    *)
InlineNeverAnswered == \A h \in Inline : outcome[h] # "answered"

(* A Call that has written its request returns within its deadline, or the *)
(* default one, however silent the browser is and whatever readLoop does.  *)
WaitEnds ==
  TimerFairness => \A c \in Calls : pc[c] = "wait" ~> pc[c] = "returned"

(* When the client is done, the calls in their select return without a     *)
(* timer having to fire; and closing it ends every execution in progress,  *)
(* the ones blocked in a write on a full pipe included.                    *)
CloseReleases ==
  /\ \A c \in Calls : done /\ pc[c] = "wait" ~> pc[c] = "returned"
  /\ \A p \in Procs : closer # "no" /\ pc[p] \in InCall ~> pc[p] = "returned"

(* The comment on DefaultCallTimeout: it bounds a Call whose context has   *)
(* no deadline.                                                            *)
DeadlineBoundsCall ==
  \A c \in NoDeadline : pc[c] \in InCall ~> pc[c] = "returned"

(* The calls as their callers see them, for the abstract specification.    *)
View(at, how) ==
  CASE at = "idle" -> "new"
    [] at = "returned" -> IF how \in {"answered", "closed"} THEN how ELSE "failed"
    [] OTHER -> "open"
AbsCall == [c \in Calls |-> View(pc[c], outcome[c])]

Rpc == INSTANCE RpcCalls WITH call <- AbsCall, served <- served \cap Calls, down <- done

(* Client keeps the promise of RpcCalls: one outcome per call, an answer   *)
(* only if the browser served that call, "closed" only once the client is  *)
(* down.                                                                   *)
KeepsPromise == Rpc!Safety

(* With timers that fire and a browser that goes on reading its pipe, the  *)
(* fairness of RpcCalls holds too: every call that is opened finishes.     *)
KeepsFullPromise == TimerFairness /\ BrowserFairness => Rpc!Fairness

-----------------------------------------------------------------------------
(* The inductive strengthenings the proofs use. *)

(* Executions that have begun have distinct ids, all of them handed out. *)
IdsDistinct ==
  /\ \A p \in Procs : pc[p] # "idle" => id[p] \in 1..nextID
  /\ \A p, q \in Procs : pc[p] # "idle" /\ pc[q] # "idle" /\ id[p] = id[q] => p = q

(* Every message on its way carries the id of the execution it belongs to, *)
(* which has written its request.                                          *)
Unwritten == {"idle", "register", "lock", "write"}
FromItsSender(r) == pc[r.from] \notin Unwritten /\ r.id = id[r.from]
ForItsSender(m)  == pc[m.for] \notin Unwritten /\ m.id = id[m.for] /\ m.for \in served
WireInv ==
  /\ \A k \in 1..Len(toBrowser) : FromItsSender(toBrowser[k])
  /\ \A r \in inBrowser : FromItsSender(r)
  /\ \A k \in 1..Len(fromBrowser) :
       fromBrowser[k].kind = "reply" => ForItsSender(fromBrowser[k])

(* Every reply that has left the wire is with the call it answers. *)
HandInv ==
  /\ rl = "deliver" => cur.for = target /\ target \in served
  /\ \A c \in Calls : ch[c] # NoMsg => ch[c].for = c /\ c \in served
  /\ \A c \in Calls : outcome[c] = "answered" => got[c].for = c /\ c \in served
  /\ \A c \in pending : pc[c] \notin {"idle", "register"}
  /\ \A c \in Calls : pc[c] = "cleanup" => outcome[c] \in {"ctx", "failed"}

(* readLoop's ch <- msg always finds the slot empty. *)
ReadLoopNeverBlocks == rl = "deliver" => ch[target] = NoMsg

(* A call whose reply has been looked up is no longer registered. *)
SlotInv ==
  \A c \in Calls : ch[c] # NoMsg \/ (rl = "deliver" /\ target = c) =>
    c \notin pending /\ pc[c] \notin {"idle", "register"}

(* Event n is behind readLoop, or in its hands, or among the first k       *)
(* messages it will receive.                                               *)
Accounted(n, k) ==
  \/ n <= handled
  \/ rl = "handler" /\ cur.n = n
  \/ \E j \in 1..k : fromBrowser[j].kind = "event" /\ fromBrowser[j].n = n

EventOrderInv ==
  /\ handled <= emitted
  /\ \A k \in 1..Len(fromBrowser) : fromBrowser[k].kind = "event" =>
       /\ handled < fromBrowser[k].n /\ fromBrowser[k].n <= emitted
       /\ rl = "handler" => cur.n < fromBrowser[k].n
       /\ \A j \in 1..(k - 1) :
            fromBrowser[j].kind = "event" => fromBrowser[j].n < fromBrowser[k].n
  /\ rl = "handler" => handled < cur.n /\ cur.n <= emitted

BeforeReplyInv ==
  /\ \A n \in 1..emitted : Accounted(n, Len(fromBrowser))
  /\ \A k \in 1..Len(fromBrowser) : fromBrowser[k].kind = "reply" =>
       /\ fromBrowser[k].after <= emitted
       /\ \A n \in 1..fromBrowser[k].after : Accounted(n, k - 1)
  /\ rl = "deliver" => cur.after <= handled

(* A call is registered before its request is written, and stays so until  *)
(* readLoop has its reply.                                                 *)
AnswerableInv ==
  /\ \A c \in Calls : pc[c] \in {"lock", "write"} => c \in pending
  /\ WaitingIsAnswerable

(* A handler's call holds readLoop, so nothing reaches its channel.        *)
InlineInv ==
  \A h \in Inline :
    /\ pc[h] \in InCall => rl = "handler" /\ ch[h] = NoMsg
    /\ outcome[h] # "answered"

IInv ==
  /\ TypeOK /\ IdsDistinct /\ WireInv /\ HandInv /\ SlotInv
  /\ ReadLoopNeverBlocks /\ NoLeakWhileOpen
  /\ EventOrderInv /\ BeforeReplyInv /\ EventsBeforeReply
  /\ AnswerableInv /\ InlineInv

=============================================================================
