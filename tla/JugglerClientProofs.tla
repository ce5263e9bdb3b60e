------------------------- MODULE JugglerClientProofs -------------------------
(***************************************************************************)
(* Proofs about JugglerClient for every set of calls and sends, every pipe *)
(* capacity and every number of events.                                    *)
(***************************************************************************)
EXTENDS JugglerClient, TLAPS

(* Every variable keeps its type: in particular readLoop always holds a    *)
(* message of the kind its state calls for.                                *)
THEOREM TypeCorrect == Spec => []TypeOK
<1> USE ClientAssumption DEF TypeOK, InCall
<1>1. Init => TypeOK
  <2> SUFFICES ASSUME Init PROVE TypeOK
    OBVIOUS
  <2> USE DEF Init
  <2>1. toBrowser \in Seq(Request) /\ fromBrowser \in Seq(Reply \cup Event)
    OBVIOUS
  <2>2. QED
    BY <2>1
<1>2. TypeOK /\ [Next]_vars => TypeOK'
  <2> SUFFICES ASSUME TypeOK, [Next]_vars PROVE TypeOK'
    OBVIOUS
  <2> USE DEF callVars, tableVars, readerVars, browserVars, Goto, Return
  <2>0. Calls \subseteq Procs
    BY DEF Procs
  <2>1. ASSUME NEW p \in Procs, Begin(p) PROVE TypeOK'
    BY <2>1 DEF Begin, AddID
  <2>2. ASSUME NEW p \in Procs, MarshalFails(p) PROVE TypeOK'
    <3>1. CASE p \in Calls
      BY <2>2, <3>1 DEF MarshalFails, SendFailed
    <3>2. CASE p \notin Calls
      BY <2>2, <3>2 DEF MarshalFails, SendFailed
    <3>3. QED
      BY <3>1, <3>2
  <2>3. ASSUME NEW p \in Procs, LockWriter(p) PROVE TypeOK'
    BY <2>3 DEF LockWriter
  <2>4. ASSUME NEW p \in Procs, Write(p) PROVE TypeOK'
    <3>1. [id |-> id[p], from |-> p] \in Request
      BY DEF Request
    <3>2. toBrowser' \in Seq(Request)
      BY <2>4, <3>1 DEF Write
    <3>3. pc' \in [Procs -> {"idle", "returned"} \cup InCall]
      BY <2>4 DEF Write
    <3>4. outcome' \in [Procs -> {"none", "sent", "answered", "failed", "ctx", "closed"}]
      BY <2>4 DEF Write
    <3>5. QED
      BY <2>4, <3>2, <3>3, <3>4 DEF Write
  <2>5. ASSUME NEW p \in Procs, WriteFails(p) PROVE TypeOK'
    <3>1. CASE p \in Calls
      BY <2>5, <3>1 DEF WriteFails, SendFailed
    <3>2. CASE p \notin Calls
      BY <2>5, <3>2 DEF WriteFails, SendFailed
    <3>3. QED
      BY <3>1, <3>2
  <2>6. ASSUME NEW c \in Calls, Register(c) PROVE TypeOK'
    BY <2>0, <2>6 DEF Register
  <2>7. ASSUME NEW c \in Calls, TakeReply(c) PROVE TypeOK'
    BY <2>0, <2>7 DEF TakeReply
  <2>8. ASSUME NEW c \in Calls, GiveUp(c) PROVE TypeOK'
    BY <2>0, <2>8 DEF GiveUp
  <2>9. ASSUME NEW c \in Calls, SeeDone(c) PROVE TypeOK'
    BY <2>0, <2>9 DEF SeeDone
  <2>10. ASSUME NEW c \in Calls, Forget(c) PROVE TypeOK'
    BY <2>0, <2>10 DEF Forget
  <2>11. ASSUME NEW c \in Calls, Expire(c) PROVE TypeOK'
    BY <2>0, <2>11 DEF Expire
  <2>12. CASE CloseDone
    BY <2>12 DEF CloseDone
  <2>13. CASE CloseTransport
    BY <2>13 DEF CloseTransport
  <2>14. CASE ReceiveReply
    <3>1. Head(fromBrowser) \in Reply \cup Event /\ fromBrowser' \in Seq(Reply \cup Event)
      BY <2>14 DEF ReceiveReply
    <3>2. Head(fromBrowser) \in Reply
      BY <2>14, <3>1 DEF ReceiveReply, Event
    <3>3. pending' \subseteq Calls
      BY <2>14 DEF ReceiveReply
    <3>4. /\ rl' \in {"receive", "deliver"}
          /\ cur' \in Reply \cup Event \cup {NoMsg}
          /\ target' \in Calls \cup {Nobody}
          /\ rl' = "deliver" => cur' \in Reply /\ target' \in Calls
      BY <2>14, <3>2 DEF ReceiveReply, Lookup
    <3>5. QED
      BY <2>14, <3>1, <3>3, <3>4 DEF ReceiveReply
  <2>15. CASE Deliver
    BY <2>15 DEF Deliver
  <2>16. CASE ReceiveEvent
    <3>1. Head(fromBrowser) \in Reply \cup Event /\ fromBrowser' \in Seq(Reply \cup Event)
      BY <2>16 DEF ReceiveEvent
    <3>2. Head(fromBrowser) \in Event
      BY <2>16, <3>1 DEF ReceiveEvent, Reply
    <3>3. QED
      BY <2>16, <3>1, <3>2 DEF ReceiveEvent
  <2>17. CASE HandlerReturns
    BY <2>17 DEF HandlerReturns, Event
  <2>18. CASE ReceiveFails
    BY <2>18 DEF ReceiveFails
  <2>19. CASE BrowserReads
    <3>1. Head(toBrowser) \in Request /\ toBrowser' \in Seq(Request)
      BY <2>19 DEF BrowserReads
    <3>2. QED
      BY <2>19, <3>1 DEF BrowserReads
  <2>20. CASE BrowserEmits
    <3>1. [kind |-> "event", n |-> emitted'] \in Event
      BY <2>20 DEF BrowserEmits, Event
    <3>2. QED
      BY <2>20, <3>1 DEF BrowserEmits
  <2>21. CASE BrowserExits
    <3>1. toBrowser' \in Seq(Request)
      BY <2>21 DEF BrowserExits
    <3>2. QED
      BY <2>21, <3>1 DEF BrowserExits
  <2>22. ASSUME NEW r \in inBrowser, BrowserAnswers(r) PROVE TypeOK'
    <3>1. [kind |-> "reply", id |-> r.id, for |-> r.from, after |-> emitted] \in Reply
      BY DEF Request, Reply
    <3>2. r.from \in Procs
      BY DEF Request
    <3>3. QED
      BY <2>22, <3>1, <3>2 DEF BrowserAnswers
  <2>23. CASE UNCHANGED vars
    BY <2>23 DEF vars
  <2>24. QED
    BY <2>1, <2>2, <2>3, <2>4, <2>5, <2>6, <2>7, <2>8, <2>9, <2>10,
       <2>11, <2>12, <2>13, <2>14, <2>15, <2>16, <2>17, <2>18, <2>19,
       <2>20, <2>21, <2>22, <2>23
    DEF Next, Work, ReadLoop, Browser
<1>3. QED
  BY <1>1, <1>2, PTL DEF Spec

-----------------------------------------------------------------------------
(* nextID.Add hands every execution an id of its own. *)
LEMMA DistinctIds == Spec => []IdsDistinct
<1> USE ClientAssumption DEF TypeOK, InCall, IdsDistinct
<1>1. Init => IdsDistinct
  BY DEF Init
<1>2. TypeOK /\ IdsDistinct /\ [Next]_vars => IdsDistinct'
  <2> SUFFICES ASSUME TypeOK, IdsDistinct, [Next]_vars PROVE IdsDistinct'
    OBVIOUS
  <2> USE DEF callVars, tableVars, readerVars, browserVars, Goto, Return
  <2>0. Calls \subseteq Procs
    BY DEF Procs
  <2>1. ASSUME NEW p \in Procs, Begin(p) PROVE IdsDistinct'
    BY <2>1 DEF Begin, AddID
  <2>2. ASSUME NEW p \in Procs, MarshalFails(p) PROVE IdsDistinct'
    <3>1. CASE p \in Calls
      BY <2>2, <3>1 DEF MarshalFails, SendFailed
    <3>2. CASE p \notin Calls
      BY <2>2, <3>2 DEF MarshalFails, SendFailed
    <3>3. QED
      BY <3>1, <3>2
  <2>3. ASSUME NEW p \in Procs, LockWriter(p) PROVE IdsDistinct'
    BY <2>3 DEF LockWriter
  <2>4. ASSUME NEW p \in Procs, Write(p) PROVE IdsDistinct'
    <3>1. CASE p \in Calls
      BY <2>4, <3>1 DEF Write
    <3>2. CASE p \notin Calls
      BY <2>4, <3>2 DEF Write
    <3>3. QED
      BY <3>1, <3>2
  <2>5. ASSUME NEW p \in Procs, WriteFails(p) PROVE IdsDistinct'
    <3>1. CASE p \in Calls
      BY <2>5, <3>1 DEF WriteFails, SendFailed
    <3>2. CASE p \notin Calls
      BY <2>5, <3>2 DEF WriteFails, SendFailed
    <3>3. QED
      BY <3>1, <3>2
  <2>6. ASSUME NEW c \in Calls, Register(c) PROVE IdsDistinct'
    BY <2>0, <2>6 DEF Register
  <2>7. ASSUME NEW c \in Calls, TakeReply(c) PROVE IdsDistinct'
    BY <2>0, <2>7 DEF TakeReply
  <2>8. ASSUME NEW c \in Calls, GiveUp(c) PROVE IdsDistinct'
    BY <2>0, <2>8 DEF GiveUp
  <2>9. ASSUME NEW c \in Calls, SeeDone(c) PROVE IdsDistinct'
    BY <2>0, <2>9 DEF SeeDone
  <2>10. ASSUME NEW c \in Calls, Forget(c) PROVE IdsDistinct'
    BY <2>0, <2>10 DEF Forget
  <2>11. ASSUME NEW c \in Calls, Expire(c) PROVE IdsDistinct'
    BY <2>0, <2>11 DEF Expire
  <2>12. CASE CloseDone
    BY <2>12 DEF CloseDone
  <2>13. CASE CloseTransport
    BY <2>13 DEF CloseTransport
  <2>14. CASE ReceiveReply
    BY <2>14 DEF ReceiveReply
  <2>15. CASE Deliver
    BY <2>15 DEF Deliver
  <2>16. CASE ReceiveEvent
    BY <2>16 DEF ReceiveEvent
  <2>17. CASE HandlerReturns
    BY <2>17 DEF HandlerReturns
  <2>18. CASE ReceiveFails
    BY <2>18 DEF ReceiveFails
  <2>19. CASE BrowserReads
    BY <2>19 DEF BrowserReads
  <2>20. CASE BrowserEmits
    BY <2>20 DEF BrowserEmits
  <2>21. CASE BrowserExits
    BY <2>21 DEF BrowserExits
  <2>22. ASSUME NEW r \in inBrowser, BrowserAnswers(r) PROVE IdsDistinct'
    BY <2>22 DEF BrowserAnswers
  <2>23. CASE UNCHANGED vars
    BY <2>23 DEF vars
  <2>24. QED
    BY <2>1, <2>2, <2>3, <2>4, <2>5, <2>6, <2>7, <2>8, <2>9, <2>10,
       <2>11, <2>12, <2>13, <2>14, <2>15, <2>16, <2>17, <2>18, <2>19,
       <2>20, <2>21, <2>22, <2>23
    DEF Next, Work, ReadLoop, Browser
<1>3. QED
  BY <1>1, <1>2, TypeCorrect, PTL DEF Spec

(* An execution that has begun keeps its id, and what was served stays so. *)
LEMMA OnceBegun ==
  ASSUME TypeOK, [Next]_vars
  PROVE  /\ \A q \in Procs : pc[q] # "idle" => pc'[q] # "idle" /\ id'[q] = id[q]
         /\ \A q \in Procs : pc[q] \notin Unwritten => pc'[q] \notin Unwritten
         /\ served \subseteq served'
<1> DEFINE Kept == /\ \A q \in Procs : pc[q] # "idle" => pc'[q] # "idle" /\ id'[q] = id[q]
                   /\ \A q \in Procs : pc[q] \notin Unwritten => pc'[q] \notin Unwritten
                   /\ served \subseteq served'
<1> SUFFICES Kept
  OBVIOUS
<1> USE ClientAssumption DEF TypeOK, InCall, Unwritten, callVars, browserVars, Goto, Return
<1>0. Calls \subseteq Procs
  BY DEF Procs
<1>1. ASSUME NEW p \in Procs, Begin(p) PROVE Kept
  BY <1>1 DEF Begin
<1>2. ASSUME NEW p \in Procs, MarshalFails(p) PROVE Kept
  BY <1>2 DEF MarshalFails, SendFailed
<1>3. ASSUME NEW p \in Procs, LockWriter(p) PROVE Kept
  BY <1>3 DEF LockWriter
<1>4. ASSUME NEW p \in Procs, Write(p) PROVE Kept
  BY <1>4 DEF Write
<1>5. ASSUME NEW p \in Procs, WriteFails(p) PROVE Kept
  BY <1>5 DEF WriteFails, SendFailed
<1>6. ASSUME NEW c \in Calls, Register(c) PROVE Kept
  BY <1>0, <1>6 DEF Register
<1>7. ASSUME NEW c \in Calls, TakeReply(c) PROVE Kept
  BY <1>0, <1>7 DEF TakeReply
<1>8. ASSUME NEW c \in Calls, GiveUp(c) PROVE Kept
  BY <1>0, <1>8 DEF GiveUp
<1>9. ASSUME NEW c \in Calls, SeeDone(c) PROVE Kept
  BY <1>0, <1>9 DEF SeeDone
<1>10. ASSUME NEW c \in Calls, Forget(c) PROVE Kept
  BY <1>0, <1>10 DEF Forget
<1>11. ASSUME NEW c \in Calls, Expire(c) PROVE Kept
  BY <1>0, <1>11 DEF Expire
<1>12. CASE CloseDone
  BY <1>12 DEF CloseDone
<1>13. CASE CloseTransport
  BY <1>13 DEF CloseTransport
<1>14. CASE ReceiveReply
  BY <1>14 DEF ReceiveReply
<1>15. CASE Deliver
  BY <1>15 DEF Deliver
<1>16. CASE ReceiveEvent
  BY <1>16 DEF ReceiveEvent
<1>17. CASE HandlerReturns
  BY <1>17 DEF HandlerReturns
<1>18. CASE ReceiveFails
  BY <1>18 DEF ReceiveFails
<1>19. CASE BrowserReads
  BY <1>19 DEF BrowserReads
<1>20. CASE BrowserEmits
  BY <1>20 DEF BrowserEmits
<1>21. CASE BrowserExits
  BY <1>21 DEF BrowserExits
<1>22. ASSUME NEW r \in inBrowser, BrowserAnswers(r) PROVE Kept
  BY <1>22 DEF BrowserAnswers
<1>23. CASE UNCHANGED vars
  BY <1>23 DEF vars
<1>24. QED
  BY <1>1, <1>2, <1>3, <1>4, <1>5, <1>6, <1>7, <1>8, <1>9, <1>10,
     <1>11, <1>12, <1>13, <1>14, <1>15, <1>16, <1>17, <1>18, <1>19,
     <1>20, <1>21, <1>22, <1>23
  DEF Next, Work, ReadLoop, Browser

(* Which steps move which queue. *)
LEMMA WireSteps ==
  ASSUME [Next]_vars
  PROVE  /\ \/ toBrowser' = toBrowser
            \/ \E p \in Procs : Write(p)
            \/ BrowserReads \/ BrowserExits
         /\ \/ inBrowser' = inBrowser
            \/ BrowserReads \/ BrowserExits
            \/ \E r \in inBrowser : BrowserAnswers(r)
         /\ \/ fromBrowser' = fromBrowser
            \/ ReceiveReply \/ ReceiveEvent \/ BrowserEmits
            \/ \E r \in inBrowser : BrowserAnswers(r)
  BY DEF Next, Work, ReadLoop, Browser, vars, browserVars, Begin,
     MarshalFails, LockWriter, Write, WriteFails, Register, TakeReply,
     GiveUp, SeeDone, Forget, Expire, CloseDone, CloseTransport,
     ReceiveReply, Deliver, ReceiveEvent, HandlerReturns, ReceiveFails,
     BrowserReads, BrowserEmits, BrowserExits, BrowserAnswers

(* Where the elements of a queue are after a read and after a write. *)
LEMMA TailAt ==
  ASSUME NEW S, NEW q \in Seq(S), q # <<>>
  PROVE  /\ Len(q) > 0 /\ 1 \in 1..Len(q) /\ Head(q) = q[1] /\ Head(q) \in S
         /\ Len(Tail(q)) = Len(q) - 1
         /\ \A k \in 1..Len(Tail(q)) : k + 1 \in 1..Len(q) /\ Tail(q)[k] = q[k + 1]
  OBVIOUS

LEMMA AppendAt ==
  ASSUME NEW S, NEW q \in Seq(S), NEW e
  PROVE  /\ Len(q) \in Nat /\ Len(Append(q, e)) = Len(q) + 1
         /\ Append(q, e)[Len(q) + 1] = e
         /\ \A k \in 1..Len(q) : Append(q, e)[k] = q[k]
  OBVIOUS

-----------------------------------------------------------------------------
(* Every request and every reply in a pipe, or in the browser, carries the *)
(* id of the execution it belongs to.                                      *)
LEMMA WireCorrect == Spec => []WireInv
<1>1. Init => WireInv
  BY DEF Init, WireInv
<1>2. TypeOK /\ WireInv /\ [Next]_vars => WireInv'
  <2> SUFFICES ASSUME TypeOK, WireInv, [Next]_vars PROVE WireInv'
    OBVIOUS
  <2> USE DEF FromItsSender, ForItsSender, Unwritten
  <2>1. /\ \A q \in Procs : pc[q] # "idle" => pc'[q] # "idle" /\ id'[q] = id[q]
        /\ \A q \in Procs : pc[q] \notin Unwritten => pc'[q] \notin Unwritten
        /\ served \subseteq served'
    BY OnceBegun
  <2>2. /\ \A k \in 1..Len(toBrowser) : toBrowser[k] \in Request
        /\ inBrowser \subseteq Request
        /\ \A k \in 1..Len(fromBrowser) : fromBrowser[k] \in Reply \cup Event
    BY DEF TypeOK
  <2>3. \A r \in Request : FromItsSender(r) => FromItsSender(r)'
    BY <2>1 DEF Request
  <2>4. \A m \in Reply : ForItsSender(m) => ForItsSender(m)'
    BY <2>1 DEF Reply
  <2>5. \A m \in Reply \cup Event : m.kind = "reply" => m \in Reply
    BY DEF Event
  <2>6. \A k \in 1..Len(toBrowser') : FromItsSender(toBrowser[k])'
    <3>1. CASE toBrowser' = toBrowser
      BY <3>1, <2>2, <2>3 DEF WireInv
    <3>2. ASSUME NEW p \in Procs, Write(p)
          PROVE  \A k \in 1..Len(toBrowser') : FromItsSender(toBrowser[k])'
      <4> SUFFICES ASSUME NEW k \in 1..Len(toBrowser') PROVE FromItsSender(toBrowser[k])'
        OBVIOUS
      <4>1. /\ Len(toBrowser') = Len(toBrowser) + 1
            /\ k <= Len(toBrowser) => toBrowser'[k] = toBrowser[k]
            /\ k = Len(toBrowser) + 1 => toBrowser'[k] = [id |-> id[p], from |-> p]
        BY <3>2 DEF Write, TypeOK
      <4>2. CASE k <= Len(toBrowser)
        <5> HIDE DEF FromItsSender
        <5>1. k \in 1..Len(toBrowser) /\ toBrowser[k] \in Request
          BY <4>2, <2>2 DEF TypeOK
        <5>2. QED
          BY <4>1, <4>2, <5>1, <2>3 DEF WireInv
      <4>3. CASE k = Len(toBrowser) + 1
        <5>1. pc'[p] \in {"wait", "returned"} /\ id'[p] = id[p]
          BY <3>2 DEF Write, Goto, Return, callVars, TypeOK
        <5>2. QED
          BY <4>1, <4>3, <5>1
      <4>4. QED
        BY <4>1, <4>2, <4>3 DEF TypeOK
    <3>3. CASE BrowserReads
      <4>1. \A k \in 1..Len(toBrowser') :
              k + 1 \in 1..Len(toBrowser) /\ toBrowser'[k] = toBrowser[k + 1]
        BY <3>3, TailAt DEF BrowserReads, TypeOK
      <4>2. QED
        BY <4>1, <2>2, <2>3 DEF WireInv
    <3>4. CASE BrowserExits
      BY <3>4 DEF BrowserExits
    <3>5. QED
      BY <3>1, <3>2, <3>3, <3>4, WireSteps
  <2>7. \A r \in inBrowser' : FromItsSender(r)'
    <3>1. CASE inBrowser' = inBrowser
      BY <3>1, <2>2, <2>3 DEF WireInv
    <3>2. CASE BrowserReads
      <4>1. Head(toBrowser) = toBrowser[1] /\ 1 \in 1..Len(toBrowser)
        BY <3>2 DEF BrowserReads, TypeOK
      <4>2. QED
        BY <3>2, <4>1, <2>2, <2>3 DEF BrowserReads, WireInv
    <3>3. CASE BrowserExits
      BY <3>3 DEF BrowserExits
    <3>4. ASSUME NEW r \in inBrowser, BrowserAnswers(r)
          PROVE  \A s \in inBrowser' : FromItsSender(s)'
      BY <3>4, <2>2, <2>3 DEF BrowserAnswers, WireInv
    <3>5. QED
      BY <3>1, <3>2, <3>3, <3>4, WireSteps
  <2>8. \A k \in 1..Len(fromBrowser') :
          fromBrowser'[k].kind = "reply" => ForItsSender(fromBrowser[k])'
    <3>1. CASE fromBrowser' = fromBrowser
      BY <3>1, <2>2, <2>4, <2>5 DEF WireInv
    <3>2. CASE ReceiveReply \/ ReceiveEvent
      <4>1. fromBrowser # <<>> /\ fromBrowser' = Tail(fromBrowser)
        BY <3>2 DEF ReceiveReply, ReceiveEvent
      <4>2. \A k \in 1..Len(fromBrowser') :
              k + 1 \in 1..Len(fromBrowser) /\ fromBrowser'[k] = fromBrowser[k + 1]
        BY <4>1, TailAt DEF TypeOK
      <4> HIDE DEF ForItsSender
      <4>3. QED
        BY <4>2, <2>2, <2>4, <2>5 DEF WireInv
    <3>3. ASSUME NEW m \in Reply \cup Event, fromBrowser' = Append(fromBrowser, m),
                 m.kind = "reply" => ForItsSender(m)'
          PROVE  \A k \in 1..Len(fromBrowser') :
                   fromBrowser'[k].kind = "reply" => ForItsSender(fromBrowser[k])'
      <4> SUFFICES ASSUME NEW k \in 1..Len(fromBrowser'), fromBrowser'[k].kind = "reply"
                   PROVE  ForItsSender(fromBrowser[k])'
        OBVIOUS
      <4>1. /\ Len(fromBrowser') = Len(fromBrowser) + 1
            /\ k <= Len(fromBrowser) => fromBrowser'[k] = fromBrowser[k]
            /\ k = Len(fromBrowser) + 1 => fromBrowser'[k] = m
        BY <3>3 DEF TypeOK
      <4>2. CASE k <= Len(fromBrowser)
        BY <4>1, <4>2, <2>2, <2>4, <2>5 DEF WireInv, TypeOK
      <4>3. CASE k = Len(fromBrowser) + 1
        BY <4>1, <4>3, <3>3
      <4>4. QED
        BY <4>1, <4>2, <4>3 DEF TypeOK
    <3>4. CASE BrowserEmits
      <4> DEFINE e == [kind |-> "event", n |-> emitted']
      <4>1. e \in Event /\ e.kind # "reply" /\ fromBrowser' = Append(fromBrowser, e)
        BY <3>4 DEF BrowserEmits, Event, TypeOK
      <4>2. QED
        BY ONLY <4>1, <3>3
    <3>5. ASSUME NEW r \in inBrowser, BrowserAnswers(r)
          PROVE  \A k \in 1..Len(fromBrowser') :
                   fromBrowser'[k].kind = "reply" => ForItsSender(fromBrowser[k])'
      <4> DEFINE m == [kind |-> "reply", id |-> r.id, for |-> r.from, after |-> emitted]
      <4>1. r \in Request /\ FromItsSender(r)'
        BY <2>2, <2>3 DEF WireInv
      <4>2. m \in Reply /\ fromBrowser' = Append(fromBrowser, m)
        BY <3>5, <4>1 DEF BrowserAnswers, Reply, Request, TypeOK
      <4>3. ForItsSender(m)'
        BY <3>5, <4>1 DEF BrowserAnswers
      <4>4. QED
        BY <4>2, <4>3, <3>3
    <3>6. QED
      BY <3>1, <3>2, <3>4, <3>5, WireSteps
  <2>9. QED
    BY <2>6, <2>7, <2>8 DEF WireInv
<1>3. QED
  BY <1>1, <1>2, TypeCorrect, PTL DEF Spec

-----------------------------------------------------------------------------
(* A reply that has left the wire is with the call it answers: in          *)
(* readLoop's hands, in the call's channel, or returned.                   *)
LEMMA HandCorrect == Spec => []HandInv
<1> USE ClientAssumption, NullAssumption DEF TypeOK, InCall
<1>1. Init => HandInv
  BY DEF Init, HandInv, Procs
<1>2. TypeOK /\ IdsDistinct /\ WireInv /\ HandInv /\ [Next]_vars => HandInv'
  <2> SUFFICES ASSUME TypeOK, IdsDistinct, WireInv, HandInv, [Next]_vars PROVE HandInv'
    OBVIOUS
  <2> USE DEF HandInv
  <2> USE DEF callVars, tableVars, readerVars, browserVars, Goto, Return
  <2>0. Calls \subseteq Procs
    BY DEF Procs
  <2>1. ASSUME NEW p \in Procs, Begin(p) PROVE HandInv'
    BY <2>1 DEF Begin, Procs
  <2>2. ASSUME NEW p \in Procs, MarshalFails(p) PROVE HandInv'
    <3>1. UNCHANGED <<ch, got, pending, rl, cur, target, served>>
      BY <2>2 DEF MarshalFails
    <3>2. \A c \in Calls : outcome'[c] \in {outcome[c], "failed"}
      BY <2>0, <2>2 DEF MarshalFails, SendFailed
    <3>3. \A c \in Calls : pc[c] \notin {"idle", "register"} => pc'[c] \notin {"idle", "register"}
      BY <2>0, <2>2 DEF MarshalFails, SendFailed
    <3>4. \A c \in Calls : pc'[c] = "cleanup" =>
            outcome'[c] = "failed" \/ (pc[c] = "cleanup" /\ outcome'[c] = outcome[c])
      <4>1. CASE p \in Calls
        BY <2>0, <2>2, <4>1 DEF MarshalFails, SendFailed
      <4>2. CASE p \notin Calls
        <5>1. \A c \in Calls : pc'[c] = pc[c] /\ outcome'[c] = outcome[c]
          BY <2>0, <2>2, <4>2 DEF MarshalFails, SendFailed
        <5>2. QED
          BY <5>1
      <4>3. QED
        BY <4>1, <4>2
    <3>5. QED
      BY <3>1, <3>2, <3>3, <3>4
  <2>3. ASSUME NEW p \in Procs, LockWriter(p) PROVE HandInv'
    BY <2>3 DEF LockWriter
  <2>4. ASSUME NEW p \in Procs, Write(p) PROVE HandInv'
    <3>1. UNCHANGED <<ch, got, pending, rl, cur, target, served>>
      BY <2>4 DEF Write
    <3>2. \A c \in Calls : outcome'[c] \in {outcome[c], "failed"}
      BY <2>0, <2>4 DEF Write
    <3>3. \A c \in Calls : pc[c] \notin {"idle", "register"} => pc'[c] \notin {"idle", "register"}
      BY <2>0, <2>4 DEF Write
    <3>4. \A c \in Calls : pc'[c] = "cleanup" =>
            outcome'[c] = "failed" \/ (pc[c] = "cleanup" /\ outcome'[c] = outcome[c])
      <4>1. CASE p \in Calls
        BY <2>0, <2>4, <4>1 DEF Write
      <4>2. CASE p \notin Calls
        <5>1. \A c \in Calls : pc'[c] = pc[c] /\ outcome'[c] = outcome[c]
          BY <2>0, <2>4, <4>2 DEF Write
        <5>2. QED
          BY <5>1
      <4>3. QED
        BY <4>1, <4>2
    <3>5. QED
      BY <3>1, <3>2, <3>3, <3>4
  <2>5. ASSUME NEW p \in Procs, WriteFails(p) PROVE HandInv'
    <3>1. UNCHANGED <<ch, got, pending, rl, cur, target, served>>
      BY <2>5 DEF WriteFails
    <3>2. \A c \in Calls : outcome'[c] \in {outcome[c], "failed"}
      BY <2>0, <2>5 DEF WriteFails, SendFailed
    <3>3. \A c \in Calls : pc[c] \notin {"idle", "register"} => pc'[c] \notin {"idle", "register"}
      BY <2>0, <2>5 DEF WriteFails, SendFailed
    <3>4. \A c \in Calls : pc'[c] = "cleanup" =>
            outcome'[c] = "failed" \/ (pc[c] = "cleanup" /\ outcome'[c] = outcome[c])
      <4>1. CASE p \in Calls
        BY <2>0, <2>5, <4>1 DEF WriteFails, SendFailed
      <4>2. CASE p \notin Calls
        <5>1. \A c \in Calls : pc'[c] = pc[c] /\ outcome'[c] = outcome[c]
          BY <2>0, <2>5, <4>2 DEF WriteFails, SendFailed
        <5>2. QED
          BY <5>1
      <4>3. QED
        BY <4>1, <4>2
    <3>5. QED
      BY <3>1, <3>2, <3>3, <3>4
  <2>6. ASSUME NEW c \in Calls, Register(c) PROVE HandInv'
    BY <2>0, <2>6 DEF Register
  <2>7. ASSUME NEW c \in Calls, TakeReply(c) PROVE HandInv'
    BY <2>0, <2>7 DEF TakeReply
  <2>8. ASSUME NEW c \in Calls, GiveUp(c) PROVE HandInv'
    BY <2>0, <2>8 DEF GiveUp
  <2>9. ASSUME NEW c \in Calls, SeeDone(c) PROVE HandInv'
    BY <2>0, <2>9 DEF SeeDone
  <2>10. ASSUME NEW c \in Calls, Forget(c) PROVE HandInv'
    BY <2>0, <2>10 DEF Forget
  <2>11. ASSUME NEW c \in Calls, Expire(c) PROVE HandInv'
    BY <2>0, <2>11 DEF Expire
  <2>12. CASE CloseDone
    BY <2>12 DEF CloseDone
  <2>13. CASE CloseTransport
    BY <2>13 DEF CloseTransport
  <2>14. CASE ReceiveReply
    <3>1. CASE Lookup(Head(fromBrowser).id) = {}
      BY <2>14, <3>1 DEF ReceiveReply
    <3>2. ASSUME NEW c \in Lookup(Head(fromBrowser).id),
                 pending' = pending \ {c}, rl' = "deliver",
                 cur' = Head(fromBrowser), target' = c
          PROVE  HandInv'
      <4>1. /\ 1 \in 1..Len(fromBrowser) /\ fromBrowser[1] = Head(fromBrowser)
            /\ fromBrowser[1] \in Reply \cup Event /\ fromBrowser[1].kind = "reply"
        BY <2>14, TailAt DEF ReceiveReply
      <4>2. fromBrowser[1] \in Reply /\ ForItsSender(fromBrowser[1])
        BY <4>1 DEF WireInv, Event
      <4>3. c \in Calls /\ c \in pending /\ pc[c] # "idle" /\ id[c] = fromBrowser[1].id
        BY <4>1 DEF Lookup, HandInv
      <4>4. c = fromBrowser[1].for
        BY <2>0, <4>2, <4>3 DEF IdsDistinct, ForItsSender, Unwritten, Reply
      <4>5. QED
        BY <2>14, <3>2, <4>1, <4>2, <4>3, <4>4 DEF ReceiveReply, ForItsSender
    <3>3. QED
      BY <2>14, <3>1, <3>2 DEF ReceiveReply
  <2>15. CASE Deliver
    BY <2>15 DEF Deliver
  <2>16. CASE ReceiveEvent
    BY <2>16 DEF ReceiveEvent
  <2>17. CASE HandlerReturns
    BY <2>17 DEF HandlerReturns
  <2>18. CASE ReceiveFails
    BY <2>18 DEF ReceiveFails
  <2>19. CASE BrowserReads
    BY <2>19 DEF BrowserReads
  <2>20. CASE BrowserEmits
    BY <2>20 DEF BrowserEmits
  <2>21. CASE BrowserExits
    BY <2>21 DEF BrowserExits
  <2>22. ASSUME NEW r \in inBrowser, BrowserAnswers(r) PROVE HandInv'
    BY <2>22 DEF BrowserAnswers
  <2>23. CASE UNCHANGED vars
    BY <2>23 DEF vars
  <2>24. QED
    BY <2>1, <2>2, <2>3, <2>4, <2>5, <2>6, <2>7, <2>8, <2>9, <2>10,
       <2>11, <2>12, <2>13, <2>14, <2>15, <2>16, <2>17, <2>18, <2>19,
       <2>20, <2>21, <2>22, <2>23
    DEF Next, Work, ReadLoop, Browser
<1>3. QED
  BY <1>1, <1>2, TypeCorrect, DistinctIds, WireCorrect, PTL DEF Spec

(* A Call that returns with a reply has the reply the browser gave to its  *)
(* own request, whatever other goroutines send meanwhile.                  *)
THEOREM ReplyIsOwn == Spec => []OwnReply
<1>1. HandInv => OwnReply
  BY DEF HandInv, OwnReply
<1>2. QED
  BY <1>1, HandCorrect, PTL

-----------------------------------------------------------------------------
(* One reply per channel: readLoop deletes the entry in the critical       *)
(* section in which it finds it, and no call registers twice.              *)
LEMMA SlotCorrect == Spec => [](SlotInv /\ ReadLoopNeverBlocks)
<1> USE ClientAssumption, NullAssumption DEF TypeOK, InCall, SlotInv, ReadLoopNeverBlocks
<1>1. Init => SlotInv /\ ReadLoopNeverBlocks
  BY DEF Init
<1>2. TypeOK /\ HandInv /\ SlotInv /\ ReadLoopNeverBlocks /\ [Next]_vars
        => (SlotInv /\ ReadLoopNeverBlocks)'
  <2> SUFFICES ASSUME TypeOK, HandInv, SlotInv, ReadLoopNeverBlocks, [Next]_vars
               PROVE  (SlotInv /\ ReadLoopNeverBlocks)'
    OBVIOUS
  <2> USE DEF callVars, tableVars, readerVars, browserVars, Goto, Return
  <2>0. Calls \subseteq Procs
    BY DEF Procs
  <2>1. ASSUME NEW p \in Procs, Begin(p) PROVE (SlotInv /\ ReadLoopNeverBlocks)'
    BY <2>1 DEF Begin, Procs
  <2>2. ASSUME NEW p \in Procs, MarshalFails(p) PROVE (SlotInv /\ ReadLoopNeverBlocks)'
    BY <2>2 DEF MarshalFails, SendFailed, Procs
  <2>3. ASSUME NEW p \in Procs, LockWriter(p) PROVE (SlotInv /\ ReadLoopNeverBlocks)'
    BY <2>3 DEF LockWriter
  <2>4. ASSUME NEW p \in Procs, Write(p) PROVE (SlotInv /\ ReadLoopNeverBlocks)'
    BY <2>4 DEF Write, Procs
  <2>5. ASSUME NEW p \in Procs, WriteFails(p) PROVE (SlotInv /\ ReadLoopNeverBlocks)'
    BY <2>5 DEF WriteFails, SendFailed, Procs
  <2>6. ASSUME NEW c \in Calls, Register(c) PROVE (SlotInv /\ ReadLoopNeverBlocks)'
    BY <2>0, <2>6 DEF Register
  <2>7. ASSUME NEW c \in Calls, TakeReply(c) PROVE (SlotInv /\ ReadLoopNeverBlocks)'
    BY <2>0, <2>7 DEF TakeReply
  <2>8. ASSUME NEW c \in Calls, GiveUp(c) PROVE (SlotInv /\ ReadLoopNeverBlocks)'
    BY <2>0, <2>8 DEF GiveUp
  <2>9. ASSUME NEW c \in Calls, SeeDone(c) PROVE (SlotInv /\ ReadLoopNeverBlocks)'
    BY <2>0, <2>9 DEF SeeDone
  <2>10. ASSUME NEW c \in Calls, Forget(c) PROVE (SlotInv /\ ReadLoopNeverBlocks)'
    BY <2>0, <2>10 DEF Forget
  <2>11. ASSUME NEW c \in Calls, Expire(c) PROVE (SlotInv /\ ReadLoopNeverBlocks)'
    BY <2>0, <2>11 DEF Expire
  <2>12. CASE CloseDone
    BY <2>12 DEF CloseDone
  <2>13. CASE CloseTransport
    BY <2>13 DEF CloseTransport
  <2>14. CASE ReceiveReply
    BY <2>14 DEF ReceiveReply, Lookup, HandInv
  <2>15. CASE Deliver
    BY <2>15 DEF Deliver
  <2>16. CASE ReceiveEvent
    BY <2>16 DEF ReceiveEvent
  <2>17. CASE HandlerReturns
    BY <2>17 DEF HandlerReturns
  <2>18. CASE ReceiveFails
    BY <2>18 DEF ReceiveFails
  <2>19. CASE BrowserReads
    BY <2>19 DEF BrowserReads
  <2>20. CASE BrowserEmits
    BY <2>20 DEF BrowserEmits
  <2>21. CASE BrowserExits
    BY <2>21 DEF BrowserExits
  <2>22. ASSUME NEW r \in inBrowser, BrowserAnswers(r) PROVE (SlotInv /\ ReadLoopNeverBlocks)'
    BY <2>22 DEF BrowserAnswers
  <2>23. CASE UNCHANGED vars
    BY <2>23 DEF vars
  <2>24. QED
    BY <2>1, <2>2, <2>3, <2>4, <2>5, <2>6, <2>7, <2>8, <2>9, <2>10,
       <2>11, <2>12, <2>13, <2>14, <2>15, <2>16, <2>17, <2>18, <2>19,
       <2>20, <2>21, <2>22, <2>23
    DEF Next, Work, ReadLoop, Browser
<1>3. QED
  BY <1>1, <1>2, TypeCorrect, HandCorrect, PTL DEF Spec

(* readLoop's send on a call's channel never blocks, however late the      *)
(* reply comes and whatever has become of the call.                        *)
THEOREM DeliveryNeverBlocks == Spec => []ReadLoopNeverBlocks
BY SlotCorrect, PTL

(* While the client is open, only calls that have not returned are in      *)
(* pending: the arms of Call that delete the entry, and readLoop, between  *)
(* them cover every return but the one on done.                            *)
THEOREM PendingDoesNotLeak == Spec => []NoLeakWhileOpen
<1> USE ClientAssumption, NullAssumption DEF TypeOK, InCall, NoLeakWhileOpen
<1>1. Init => NoLeakWhileOpen
  BY DEF Init
<1>2. TypeOK /\ HandInv /\ SlotInv /\ NoLeakWhileOpen /\ [Next]_vars => NoLeakWhileOpen'
  <2> SUFFICES ASSUME TypeOK, HandInv, SlotInv, NoLeakWhileOpen, [Next]_vars
               PROVE  NoLeakWhileOpen'
    OBVIOUS
  <2> USE DEF callVars, tableVars, readerVars, browserVars, Goto, Return
  <2>0. Calls \subseteq Procs
    BY DEF Procs
  <2>1. ASSUME NEW p \in Procs, Begin(p) PROVE NoLeakWhileOpen'
    BY <2>1 DEF Begin, Procs
  <2>2. ASSUME NEW p \in Procs, MarshalFails(p) PROVE NoLeakWhileOpen'
    <3>1. CASE p \in Calls
      BY <2>0, <2>2, <3>1 DEF MarshalFails, SendFailed
    <3>2. CASE p \notin Calls
      BY <2>0, <2>2, <3>2 DEF MarshalFails, SendFailed
    <3>3. QED
      BY <3>1, <3>2
  <2>3. ASSUME NEW p \in Procs, LockWriter(p) PROVE NoLeakWhileOpen'
    BY <2>3 DEF LockWriter
  <2>4. ASSUME NEW p \in Procs, Write(p) PROVE NoLeakWhileOpen'
    <3>1. CASE p \in Calls
      <4>1. pc' = [pc EXCEPT ![p] = "wait"] /\ UNCHANGED <<done, pending>>
        BY <2>4, <3>1 DEF Write
      <4>2. QED
        BY <4>1
    <3>2. CASE p \notin Calls
      <4>1. pc' = [pc EXCEPT ![p] = "returned"] /\ UNCHANGED <<done, pending>>
        BY <2>4, <3>2 DEF Write
      <4>2. QED
        BY <3>2, <4>1
    <3>3. QED
      BY <3>1, <3>2
  <2>5. ASSUME NEW p \in Procs, WriteFails(p) PROVE NoLeakWhileOpen'
    <3>1. CASE p \in Calls
      <4>1. pc' = [pc EXCEPT ![p] = "cleanup"] /\ UNCHANGED <<done, pending>>
        BY <2>5, <3>1 DEF WriteFails, SendFailed
      <4>2. QED
        BY <4>1
    <3>2. CASE p \notin Calls
      <4>1. pc' = [pc EXCEPT ![p] = "returned"] /\ UNCHANGED <<done, pending>>
        BY <2>5, <3>2 DEF WriteFails, SendFailed
      <4>2. QED
        BY <3>2, <4>1
    <3>3. QED
      BY <3>1, <3>2
  <2>6. ASSUME NEW c \in Calls, Register(c) PROVE NoLeakWhileOpen'
    BY <2>0, <2>6 DEF Register
  <2>7. ASSUME NEW c \in Calls, TakeReply(c) PROVE NoLeakWhileOpen'
    BY <2>0, <2>7 DEF TakeReply, SlotInv
  <2>8. ASSUME NEW c \in Calls, GiveUp(c) PROVE NoLeakWhileOpen'
    BY <2>0, <2>8 DEF GiveUp
  <2>9. ASSUME NEW c \in Calls, SeeDone(c) PROVE NoLeakWhileOpen'
    BY <2>0, <2>9 DEF SeeDone
  <2>10. ASSUME NEW c \in Calls, Forget(c) PROVE NoLeakWhileOpen'
    BY <2>0, <2>10 DEF Forget
  <2>11. ASSUME NEW c \in Calls, Expire(c) PROVE NoLeakWhileOpen'
    BY <2>0, <2>11 DEF Expire
  <2>12. CASE CloseDone
    BY <2>12 DEF CloseDone
  <2>13. CASE CloseTransport
    BY <2>13 DEF CloseTransport
  <2>14. CASE ReceiveReply
    BY <2>14 DEF ReceiveReply, Lookup, HandInv
  <2>15. CASE Deliver
    BY <2>15 DEF Deliver
  <2>16. CASE ReceiveEvent
    BY <2>16 DEF ReceiveEvent
  <2>17. CASE HandlerReturns
    BY <2>17 DEF HandlerReturns
  <2>18. CASE ReceiveFails
    BY <2>18 DEF ReceiveFails
  <2>19. CASE BrowserReads
    BY <2>19 DEF BrowserReads
  <2>20. CASE BrowserEmits
    BY <2>20 DEF BrowserEmits
  <2>21. CASE BrowserExits
    BY <2>21 DEF BrowserExits
  <2>22. ASSUME NEW r \in inBrowser, BrowserAnswers(r) PROVE NoLeakWhileOpen'
    BY <2>22 DEF BrowserAnswers
  <2>23. CASE UNCHANGED vars
    BY <2>23 DEF vars
  <2>24. QED
    BY <2>1, <2>2, <2>3, <2>4, <2>5, <2>6, <2>7, <2>8, <2>9, <2>10,
       <2>11, <2>12, <2>13, <2>14, <2>15, <2>16, <2>17, <2>18, <2>19,
       <2>20, <2>21, <2>22, <2>23
    DEF Next, Work, ReadLoop, Browser
<1>3. QED
  BY <1>1, <1>2, TypeCorrect, HandCorrect, SlotCorrect, PTL DEF Spec

-----------------------------------------------------------------------------
(* Which steps move what readLoop holds, or what it has before it. *)
LEMMA ReaderSteps ==
  ASSUME [Next]_vars
  PROVE  \/ UNCHANGED <<rl, cur, handled, emitted, fromBrowser>>
         \/ ReceiveReply \/ Deliver \/ ReceiveEvent \/ HandlerReturns \/ ReceiveFails
         \/ BrowserEmits
         \/ \E r \in inBrowser : BrowserAnswers(r)
  BY DEF Next, Work, ReadLoop, Browser, vars, readerVars, browserVars,
     Begin, MarshalFails, LockWriter, Write, WriteFails, Register,
     TakeReply, GiveUp, SeeDone, Forget, Expire, CloseDone,
     CloseTransport, ReceiveReply, Deliver, ReceiveEvent,
     HandlerReturns, ReceiveFails, BrowserReads, BrowserEmits,
     BrowserExits, BrowserAnswers

(* The events readLoop has before it are numbered upwards, all of them     *)
(* after the ones whose handlers have returned.                            *)
LEMMA EventOrder == Spec => []EventOrderInv
<1> USE DEF EventOrderInv
<1>1. Init => EventOrderInv
  BY DEF Init
<1>2. TypeOK /\ EventOrderInv /\ [Next]_vars => EventOrderInv'
  <2> SUFFICES ASSUME TypeOK, EventOrderInv, [Next]_vars PROVE EventOrderInv'
    OBVIOUS
  <2>0. /\ handled \in Nat /\ emitted \in Nat
        /\ fromBrowser \in Seq(Reply \cup Event)
        /\ rl = "handler" => cur.n \in Nat
        /\ \A k \in 1..Len(fromBrowser) :
             fromBrowser[k].kind = "event" => fromBrowser[k].n \in Nat
    BY DEF TypeOK, Reply, Event
  <2>1. CASE UNCHANGED <<rl, cur, handled, emitted, fromBrowser>>
    BY <2>0, <2>1
  <2>2. CASE ReceiveReply
    <3>1. /\ rl = "receive" /\ rl' # "handler"
          /\ handled' = handled /\ emitted' = emitted
          /\ fromBrowser # <<>> /\ fromBrowser' = Tail(fromBrowser)
      BY <2>2 DEF ReceiveReply, browserVars
    <3>2. /\ Len(fromBrowser') \in Nat
          /\ \A k \in 1..Len(fromBrowser') :
               k + 1 \in 1..Len(fromBrowser) /\ fromBrowser'[k] = fromBrowser[k + 1]
      BY <2>0, <3>1, TailAt
    <3>3. QED
      BY <2>0, <3>1, <3>2
  <2>3. CASE Deliver
    BY <2>0, <2>3 DEF Deliver, browserVars
  <2>4. CASE ReceiveEvent
    <3>1. /\ rl = "receive" /\ rl' = "handler" /\ cur' = Head(fromBrowser)
          /\ Head(fromBrowser).kind = "event"
          /\ handled' = handled /\ emitted' = emitted
          /\ fromBrowser # <<>> /\ fromBrowser' = Tail(fromBrowser)
      BY <2>4 DEF ReceiveEvent, browserVars
    <3>2. /\ Len(fromBrowser') \in Nat
          /\ 1 \in 1..Len(fromBrowser) /\ cur' = fromBrowser[1]
          /\ \A k \in 1..Len(fromBrowser') :
               k + 1 \in 1..Len(fromBrowser) /\ fromBrowser'[k] = fromBrowser[k + 1]
      BY <2>0, <3>1, TailAt
    <3>3. \A k \in 1..Len(fromBrowser') : 1 \in 1..((k + 1) - 1)
      OBVIOUS
    <3>4. QED
      BY <2>0, <3>1, <3>2, <3>3
  <2>5. CASE HandlerReturns
    BY <2>0, <2>5 DEF HandlerReturns, browserVars
  <2>6. CASE ReceiveFails
    BY <2>0, <2>6 DEF ReceiveFails, browserVars
  <2>7. CASE BrowserEmits
    <3> DEFINE e == [kind |-> "event", n |-> emitted']
    <3>1. /\ UNCHANGED <<rl, cur, handled>> /\ emitted' = emitted + 1
          /\ fromBrowser' = Append(fromBrowser, e)
      BY <2>7 DEF BrowserEmits, readerVars
    <3>2. /\ Len(fromBrowser) \in Nat /\ Len(fromBrowser') = Len(fromBrowser) + 1
          /\ fromBrowser'[Len(fromBrowser) + 1] = e
          /\ \A k \in 1..Len(fromBrowser) : fromBrowser'[k] = fromBrowser[k]
      BY <2>0, <3>1, AppendAt
    <3>3. e.n = emitted + 1
      BY <3>1
    <3> HIDE DEF e
    <3>4. QED
      BY <2>0, <3>1, <3>2, <3>3
  <2>8. ASSUME NEW r \in inBrowser, BrowserAnswers(r) PROVE EventOrderInv'
    <3> DEFINE m == [kind |-> "reply", id |-> r.id, for |-> r.from, after |-> emitted]
    <3>1. /\ UNCHANGED <<rl, cur, handled, emitted>>
          /\ fromBrowser' = Append(fromBrowser, m)
      BY <2>8 DEF BrowserAnswers, readerVars
    <3>2. /\ Len(fromBrowser) \in Nat /\ Len(fromBrowser') = Len(fromBrowser) + 1
          /\ fromBrowser'[Len(fromBrowser) + 1] = m
          /\ \A k \in 1..Len(fromBrowser) : fromBrowser'[k] = fromBrowser[k]
      BY <2>0, <3>1, AppendAt
    <3>3. m.kind # "event"
      OBVIOUS
    <3> HIDE DEF m
    <3>4. QED
      BY <2>0, <3>1, <3>2, <3>3
  <2>9. QED
    BY <2>1, <2>2, <2>3, <2>4, <2>5, <2>6, <2>7, <2>8, ReaderSteps
<1>3. QED
  BY <1>1, <1>2, TypeCorrect, PTL DEF Spec

(* Every event written before a reply is handled, or in a handler, or      *)
(* ahead of the reply, so that it is handled when the reply is received.   *)
LEMMA BeforeReply == Spec => []BeforeReplyInv
<1>1. Init => BeforeReplyInv
  BY DEF Init, BeforeReplyInv
<1>2. TypeOK /\ EventOrderInv /\ BeforeReplyInv /\ [Next]_vars => BeforeReplyInv'
  <2> SUFFICES ASSUME TypeOK, EventOrderInv, BeforeReplyInv, [Next]_vars
               PROVE  BeforeReplyInv'
    OBVIOUS
  <2> DEFINE Acc(n, k) ==
               \/ n <= handled
               \/ rl = "handler" /\ cur.n = n
               \/ \E j \in 1..k : fromBrowser[j].kind = "event" /\ fromBrowser[j].n = n
             AccP(n, k) ==
               \/ n <= handled'
               \/ rl' = "handler" /\ cur'.n = n
               \/ \E j \in 1..k : fromBrowser'[j].kind = "event" /\ fromBrowser'[j].n = n
             Goal == /\ \A n \in 1..emitted' : AccP(n, Len(fromBrowser'))
                     /\ \A k \in 1..Len(fromBrowser') : fromBrowser'[k].kind = "reply" =>
                          /\ fromBrowser'[k].after <= emitted'
                          /\ \A n \in 1..fromBrowser'[k].after : AccP(n, k - 1)
                     /\ rl' = "deliver" => cur'.after <= handled'
  <2>a. /\ \A n \in 1..emitted : Acc(n, Len(fromBrowser))
        /\ \A k \in 1..Len(fromBrowser) : fromBrowser[k].kind = "reply" =>
             /\ fromBrowser[k].after <= emitted
             /\ \A n \in 1..fromBrowser[k].after : Acc(n, k - 1)
        /\ rl = "deliver" => cur.after <= handled
    BY DEF BeforeReplyInv, Accounted
  <2> SUFFICES Goal
    BY DEF BeforeReplyInv, Accounted
  <2> HIDE DEF Acc, AccP
  <2>0. /\ handled \in Nat /\ emitted \in Nat
        /\ fromBrowser \in Seq(Reply \cup Event)
        /\ rl = "handler" => cur.n \in Nat
        /\ \A k \in 1..Len(fromBrowser) :
             /\ fromBrowser[k].kind = "reply" => fromBrowser[k].after \in Nat
             /\ fromBrowser[k].kind = "event" => fromBrowser[k].n \in Nat
        /\ rl = "deliver" => cur.after \in Nat
    BY DEF TypeOK, Reply, Event
  <2>1. CASE UNCHANGED <<rl, cur, handled, emitted, fromBrowser>>
    BY <2>a, <2>0, <2>1 DEF Acc, AccP
  <2>2. CASE ReceiveReply
    <3>1. /\ rl = "receive" /\ rl' \in {"receive", "deliver"}
          /\ rl' = "deliver" => cur' = Head(fromBrowser)
          /\ Head(fromBrowser).kind = "reply"
          /\ handled' = handled /\ emitted' = emitted
          /\ fromBrowser # <<>> /\ fromBrowser' = Tail(fromBrowser)
      BY <2>2 DEF ReceiveReply, browserVars
    <3>2. /\ Len(fromBrowser) \in Nat /\ Len(fromBrowser') = Len(fromBrowser) - 1
          /\ 1 \in 1..Len(fromBrowser) /\ Head(fromBrowser) = fromBrowser[1]
          /\ \A k \in 1..Len(fromBrowser') :
               k + 1 \in 1..Len(fromBrowser) /\ fromBrowser'[k] = fromBrowser[k + 1]
      BY <2>a, <2>0, <3>1, TailAt
    <3>3. ASSUME NEW n \in Nat, NEW k \in 0..Len(fromBrowser'), Acc(n, k + 1)
          PROVE  AccP(n, k)
      <4>1. CASE n <= handled
        BY <3>1, <4>1 DEF AccP
      <4>2. ASSUME NEW j \in 1..(k + 1), fromBrowser[j].kind = "event", fromBrowser[j].n = n
            PROVE  AccP(n, k)
        <5>1. j # 1
          BY <3>1, <3>2, <4>2
        <5>2. j - 1 \in 1..k /\ j - 1 \in 1..Len(fromBrowser') /\ (j - 1) + 1 = j
          BY <3>2, <5>1
        <5>3. fromBrowser'[j - 1] = fromBrowser[j]
          BY <3>2, <5>2
        <5>4. QED
          BY <4>2, <5>2, <5>3 DEF AccP
      <4>3. QED
        BY <3>1, <3>3, <4>1, <4>2 DEF Acc
    <3>4. \A n \in 1..emitted' : AccP(n, Len(fromBrowser'))
      BY <2>a, <2>0, <3>1, <3>2, <3>3
    <3>5. ASSUME NEW k \in 1..Len(fromBrowser'), fromBrowser'[k].kind = "reply"
          PROVE  /\ fromBrowser'[k].after <= emitted'
                 /\ \A n \in 1..fromBrowser'[k].after : AccP(n, k - 1)
      <4>1. k + 1 \in 1..Len(fromBrowser) /\ fromBrowser'[k] = fromBrowser[k + 1]
        BY <3>2
      <4>2. /\ fromBrowser[k + 1].after <= emitted
            /\ \A n \in 1..fromBrowser[k + 1].after : Acc(n, (k + 1) - 1)
        BY <2>a, <3>5, <4>1
      <4>3. k - 1 \in 0..Len(fromBrowser') /\ (k - 1) + 1 = (k + 1) - 1
        BY <3>2
      <4>4. QED
        BY <2>a, <2>0, <3>1, <3>3, <4>1, <4>2, <4>3
    <3>6. rl' = "deliver" => cur'.after <= handled'
      <4>1. \A n \in 1..fromBrowser[1].after : n <= handled
        BY <2>a, <2>0, <3>1, <3>2 DEF Acc
      <4>2. QED
        BY <2>a, <2>0, <3>1, <3>2, <4>1
    <3>7. QED
      BY <3>4, <3>5, <3>6
  <2>3. CASE Deliver
    <3>1. UNCHANGED <<handled, fromBrowser, emitted>> /\ rl = "deliver" /\ rl' = "receive"
      BY <2>3 DEF Deliver, browserVars
    <3>2. \A n, k : Acc(n, k) => AccP(n, k)
      BY <3>1 DEF Acc, AccP
    <3>3. QED
      BY <2>a, <2>0, <3>1, <3>2
  <2>4. CASE ReceiveEvent
    <3>1. /\ rl = "receive" /\ rl' = "handler" /\ cur' = Head(fromBrowser)
          /\ handled' = handled /\ emitted' = emitted
          /\ fromBrowser # <<>> /\ fromBrowser' = Tail(fromBrowser)
      BY <2>4 DEF ReceiveEvent, browserVars
    <3>2. /\ Len(fromBrowser) \in Nat /\ Len(fromBrowser') = Len(fromBrowser) - 1
          /\ 1 \in 1..Len(fromBrowser) /\ cur' = fromBrowser[1]
          /\ \A k \in 1..Len(fromBrowser') :
               k + 1 \in 1..Len(fromBrowser) /\ fromBrowser'[k] = fromBrowser[k + 1]
      BY <2>a, <2>0, <3>1, TailAt
    <3>3. ASSUME NEW n \in Nat, NEW k \in 0..Len(fromBrowser'), Acc(n, k + 1)
          PROVE  AccP(n, k)
      <4>1. CASE n <= handled
        BY <3>1, <4>1 DEF AccP
      <4>2. ASSUME NEW j \in 1..(k + 1), fromBrowser[j].kind = "event", fromBrowser[j].n = n
            PROVE  AccP(n, k)
        <5>1. CASE j = 1
          BY <3>1, <3>2, <4>2, <5>1 DEF AccP
        <5>2. CASE j # 1
          <6>1. j - 1 \in 1..k /\ j - 1 \in 1..Len(fromBrowser') /\ (j - 1) + 1 = j
            BY <3>2, <5>2
          <6>2. fromBrowser'[j - 1] = fromBrowser[j]
            BY <3>2, <6>1
          <6>3. QED
            BY <4>2, <6>1, <6>2 DEF AccP
        <5>3. QED
          BY <5>1, <5>2
      <4>3. QED
        BY <3>1, <3>3, <4>1, <4>2 DEF Acc
    <3>4. \A n \in 1..emitted' : AccP(n, Len(fromBrowser'))
      BY <2>a, <2>0, <3>1, <3>2, <3>3
    <3>5. ASSUME NEW k \in 1..Len(fromBrowser'), fromBrowser'[k].kind = "reply"
          PROVE  /\ fromBrowser'[k].after <= emitted'
                 /\ \A n \in 1..fromBrowser'[k].after : AccP(n, k - 1)
      <4>1. k + 1 \in 1..Len(fromBrowser) /\ fromBrowser'[k] = fromBrowser[k + 1]
        BY <3>2
      <4>2. /\ fromBrowser[k + 1].after <= emitted
            /\ \A n \in 1..fromBrowser[k + 1].after : Acc(n, (k + 1) - 1)
        BY <2>a, <3>5, <4>1
      <4>3. k - 1 \in 0..Len(fromBrowser') /\ (k - 1) + 1 = (k + 1) - 1
        BY <3>2
      <4>4. QED
        BY <2>a, <2>0, <3>1, <3>3, <4>1, <4>2, <4>3
    <3>6. QED
      BY <3>1, <3>4, <3>5
  <2>5. CASE HandlerReturns
    <3>1. /\ rl = "handler" /\ rl' = "receive" /\ handled' = cur.n
          /\ UNCHANGED <<emitted, fromBrowser>>
      BY <2>5 DEF HandlerReturns, browserVars
    <3>2. handled < cur.n
      BY <3>1 DEF EventOrderInv
    <3>3. \A n \in Nat, k \in Nat : Acc(n, k) => AccP(n, k)
      BY <2>a, <2>0, <3>1, <3>2 DEF Acc, AccP
    <3>4. QED
      BY <2>a, <2>0, <3>1, <3>3
  <2>6. CASE ReceiveFails
    BY <2>a, <2>0, <2>6 DEF ReceiveFails, browserVars, Acc, AccP
  <2>7. CASE BrowserEmits
    <3> DEFINE e == [kind |-> "event", n |-> emitted']
    <3>1. /\ UNCHANGED <<rl, cur, handled>> /\ emitted' = emitted + 1
          /\ fromBrowser' = Append(fromBrowser, e)
      BY <2>7 DEF BrowserEmits, readerVars
    <3>2. /\ Len(fromBrowser) \in Nat /\ Len(fromBrowser') = Len(fromBrowser) + 1
          /\ fromBrowser'[Len(fromBrowser) + 1] = e
          /\ \A k \in 1..Len(fromBrowser) : fromBrowser'[k] = fromBrowser[k]
      BY <2>a, <2>0, <3>1, AppendAt
    <3>3. e.n = emitted + 1 /\ e.kind = "event"
      BY <3>1
    <3> HIDE DEF e
    <3>4. \A n \in Nat, k \in 0..Len(fromBrowser) : Acc(n, k) => AccP(n, k)
      BY <3>1, <3>2 DEF Acc, AccP
    <3>5. \A n \in 1..emitted' : AccP(n, Len(fromBrowser'))
      <4>1. AccP(emitted + 1, Len(fromBrowser'))
        BY <3>1, <3>2, <3>3 DEF AccP
      <4>2. \A n \in 1..emitted : AccP(n, Len(fromBrowser'))
        BY <2>a, <2>0, <3>1, <3>2 DEF Acc, AccP
      <4>3. QED
        BY <2>0, <3>1, <4>1, <4>2
    <3>6. ASSUME NEW k \in 1..Len(fromBrowser'), fromBrowser'[k].kind = "reply"
          PROVE  /\ fromBrowser'[k].after <= emitted'
                 /\ \A n \in 1..fromBrowser'[k].after : AccP(n, k - 1)
      <4>1. k \in 1..Len(fromBrowser) /\ fromBrowser'[k] = fromBrowser[k]
        BY <3>2, <3>3, <3>6
      <4>2. QED
        BY <2>a, <2>0, <3>1, <3>4, <3>6, <4>1
    <3>7. QED
      BY <2>a, <2>0, <3>1, <3>5, <3>6
  <2>8. ASSUME NEW r \in inBrowser, BrowserAnswers(r) PROVE Goal
    <3> DEFINE m == [kind |-> "reply", id |-> r.id, for |-> r.from, after |-> emitted]
    <3>1. /\ UNCHANGED <<rl, cur, handled, emitted>>
          /\ fromBrowser' = Append(fromBrowser, m)
      BY <2>8 DEF BrowserAnswers, readerVars
    <3>2. /\ Len(fromBrowser) \in Nat /\ Len(fromBrowser') = Len(fromBrowser) + 1
          /\ fromBrowser'[Len(fromBrowser) + 1] = m
          /\ \A k \in 1..Len(fromBrowser) : fromBrowser'[k] = fromBrowser[k]
      BY <2>a, <2>0, <3>1, AppendAt
    <3>3. m.after = emitted
      OBVIOUS
    <3> HIDE DEF m
    <3>4. \A n \in Nat, k \in 0..Len(fromBrowser) : Acc(n, k) => AccP(n, k)
      BY <3>1, <3>2 DEF Acc, AccP
    <3>5. \A n \in 1..emitted : Acc(n, Len(fromBrowser)) => AccP(n, Len(fromBrowser'))
      BY <2>a, <2>0, <3>1, <3>2 DEF Acc, AccP
    <3>6. ASSUME NEW k \in 1..Len(fromBrowser'), fromBrowser'[k].kind = "reply"
          PROVE  /\ fromBrowser'[k].after <= emitted'
                 /\ \A n \in 1..fromBrowser'[k].after : AccP(n, k - 1)
      <4>1. CASE k \in 1..Len(fromBrowser)
        BY <2>a, <2>0, <3>1, <3>2, <3>4, <3>6, <4>1
      <4>2. CASE k = Len(fromBrowser) + 1
        <5>1. \A n \in 1..emitted : Acc(n, k - 1)
          BY <2>a, <3>2, <4>2
        <5>2. \A n \in 1..emitted : AccP(n, k - 1)
          BY <2>a, <2>0, <3>2, <3>4, <4>2, <5>1
        <5>3. QED
          BY <2>a, <2>0, <3>1, <3>2, <3>3, <4>2, <5>2
      <4>3. QED
        BY <3>2, <4>1, <4>2
    <3>7. QED
      BY <2>a, <2>0, <3>1, <3>5, <3>6
  <2>9. QED
    BY <2>1, <2>2, <2>3, <2>4, <2>5, <2>6, <2>7, <2>8, ReaderSteps
<1>3. QED
  BY <1>1, <1>2, TypeCorrect, EventOrder, PTL DEF Spec

(* A Call returns only after the handlers of every event the browser wrote *)
(* before its reply.                                                       *)
THEOREM HandlersFirst == Spec => []EventsBeforeReply
<1> USE NullAssumption DEF EventsBeforeReply, TypeOK
<1>1. Init => EventsBeforeReply
  BY DEF Init
<1>2. TypeOK /\ EventOrderInv /\ BeforeReplyInv /\ EventsBeforeReply /\ [Next]_vars
        => EventsBeforeReply'
  <2> SUFFICES ASSUME TypeOK, EventOrderInv, BeforeReplyInv, EventsBeforeReply, [Next]_vars
               PROVE  EventsBeforeReply'
    OBVIOUS
  <2>1. \A c \in Calls : ch[c] # NoMsg => ch[c].after \in Nat
    BY DEF Reply
  <2>2. handled' >= handled /\ handled' \in Nat
    <3>1. CASE UNCHANGED <<rl, cur, handled, emitted, fromBrowser>>
      BY <3>1
    <3>2. CASE HandlerReturns
      BY <3>2 DEF HandlerReturns, EventOrderInv, Event
    <3>3. CASE ReceiveReply \/ Deliver \/ ReceiveEvent \/ ReceiveFails \/ BrowserEmits
      BY <3>3 DEF ReceiveReply, Deliver, ReceiveEvent, ReceiveFails, BrowserEmits, readerVars
    <3>4. ASSUME NEW r \in inBrowser, BrowserAnswers(r)
          PROVE  handled' >= handled /\ handled' \in Nat
      BY <3>4 DEF BrowserAnswers, readerVars
    <3>5. QED
      BY <3>1, <3>2, <3>3, <3>4, ReaderSteps
  <2>3. CASE Deliver
    <3>1. ch' = [ch EXCEPT ![target] = cur] /\ target \in Calls
      BY <2>3 DEF Deliver
    <3>2. cur.after <= handled /\ cur.after \in Nat
      BY <2>3 DEF Deliver, BeforeReplyInv, Reply
    <3>3. QED
      BY <2>1, <2>2, <3>1, <3>2
  <2>4. ASSUME NEW c \in Calls, TakeReply(c) PROVE EventsBeforeReply'
    BY <2>1, <2>2, <2>4 DEF TakeReply
  <2>5. CASE ch' = ch
    BY <2>1, <2>2, <2>5
  <2>6. ch' = ch \/ Deliver \/ \E c \in Calls : TakeReply(c)
    BY DEF Next, Work, ReadLoop, Browser, vars, tableVars, Begin,
       MarshalFails, LockWriter, Write, WriteFails, Register, TakeReply,
       GiveUp, SeeDone, Forget, Expire, CloseDone, CloseTransport,
       ReceiveReply, Deliver, ReceiveEvent, HandlerReturns,
       ReceiveFails, BrowserReads, BrowserEmits, BrowserExits,
       BrowserAnswers
  <2>7. QED
    BY <2>3, <2>4, <2>5, <2>6
<1>3. QED
  BY <1>1, <1>2, TypeCorrect, EventOrder, BeforeReply, PTL DEF Spec

-----------------------------------------------------------------------------
(* While a call made by a handler is open readLoop is in that handler, so  *)
(* it delivers nothing, and the handler does not return before the call.   *)
LEMMA InlineCorrect == Spec => []InlineInv
<1> USE ClientAssumption, NullAssumption DEF InCall, InlineInv
<1>1. Init => InlineInv
  BY DEF Init, Procs
<1>2. TypeOK /\ SlotInv /\ InlineInv /\ [Next]_vars => InlineInv'
  <2> SUFFICES ASSUME TypeOK, SlotInv, InlineInv, [Next]_vars PROVE InlineInv'
    OBVIOUS
  <2> USE DEF callVars, tableVars, readerVars, browserVars, Goto, Return
  <2>0. /\ Inline \subseteq Calls /\ Calls \subseteq Procs
        /\ pc \in [Procs -> {"idle", "returned"} \cup InCall]
        /\ outcome \in [Procs -> {"none", "sent", "answered", "failed", "ctx", "closed"}]
        /\ ch \in [Calls -> Reply \cup {NoMsg}]
        /\ \A c \in Calls : pc[c] = "idle" => ch[c] = NoMsg
    BY DEF TypeOK, SlotInv, Procs
  <2>1. ASSUME NEW p \in Procs, Begin(p) PROVE InlineInv'
    BY <2>0, <2>1 DEF Begin
  <2>2. ASSUME NEW p \in Procs, MarshalFails(p) PROVE InlineInv'
    BY <2>0, <2>2 DEF MarshalFails, SendFailed
  <2>3. ASSUME NEW p \in Procs, LockWriter(p) PROVE InlineInv'
    BY <2>0, <2>3 DEF LockWriter
  <2>4. ASSUME NEW p \in Procs, Write(p) PROVE InlineInv'
    BY <2>0, <2>4 DEF Write
  <2>5. ASSUME NEW p \in Procs, WriteFails(p) PROVE InlineInv'
    BY <2>0, <2>5 DEF WriteFails, SendFailed
  <2>6. ASSUME NEW c \in Calls, Register(c) PROVE InlineInv'
    BY <2>0, <2>6 DEF Register
  <2>7. ASSUME NEW c \in Calls, TakeReply(c) PROVE InlineInv'
    BY <2>0, <2>7 DEF TakeReply
  <2>8. ASSUME NEW c \in Calls, GiveUp(c) PROVE InlineInv'
    BY <2>0, <2>8 DEF GiveUp
  <2>9. ASSUME NEW c \in Calls, SeeDone(c) PROVE InlineInv'
    BY <2>0, <2>9 DEF SeeDone
  <2>10. ASSUME NEW c \in Calls, Forget(c) PROVE InlineInv'
    BY <2>0, <2>10 DEF Forget
  <2>11. ASSUME NEW c \in Calls, Expire(c) PROVE InlineInv'
    BY <2>0, <2>11 DEF Expire
  <2>12. CASE CloseDone
    BY <2>0, <2>12 DEF CloseDone
  <2>13. CASE CloseTransport
    BY <2>0, <2>13 DEF CloseTransport
  <2>14. CASE ReceiveReply
    BY <2>0, <2>14 DEF ReceiveReply
  <2>15. CASE Deliver
    BY <2>0, <2>15 DEF Deliver
  <2>16. CASE ReceiveEvent
    BY <2>0, <2>16 DEF ReceiveEvent
  <2>17. CASE HandlerReturns
    BY <2>0, <2>17 DEF HandlerReturns
  <2>18. CASE ReceiveFails
    BY <2>0, <2>18 DEF ReceiveFails
  <2>19. CASE BrowserReads
    BY <2>0, <2>19 DEF BrowserReads
  <2>20. CASE BrowserEmits
    BY <2>0, <2>20 DEF BrowserEmits
  <2>21. CASE BrowserExits
    BY <2>0, <2>21 DEF BrowserExits
  <2>22. ASSUME NEW r \in inBrowser, BrowserAnswers(r) PROVE InlineInv'
    BY <2>0, <2>22 DEF BrowserAnswers
  <2>23. CASE UNCHANGED vars
    BY <2>0, <2>23 DEF vars
  <2>24. QED
    BY <2>1, <2>2, <2>3, <2>4, <2>5, <2>6, <2>7, <2>8, <2>9, <2>10,
       <2>11, <2>12, <2>13, <2>14, <2>15, <2>16, <2>17, <2>18, <2>19,
       <2>20, <2>21, <2>22, <2>23
    DEF Next, Work, ReadLoop, Browser
<1>3. QED
  BY <1>1, <1>2, TypeCorrect, SlotCorrect, PTL DEF Spec

(* A Call made by an event handler on readLoop's goroutine never gets its  *)
(* reply: Call cannot return with one before the handler has returned.     *)
THEOREM InlineCallsFail == Spec => []InlineNeverAnswered
<1>1. InlineInv => InlineNeverAnswered
  BY DEF InlineInv, InlineNeverAnswered
<1>2. QED
  BY <1>1, InlineCorrect, PTL

-----------------------------------------------------------------------------
(* A call's request, then its reply, is somewhere between the write and    *)
(* readLoop, as long as the browser lives.                                 *)
LEMMA StaysOnItsWay ==
  ASSUME TypeOK, [Next]_vars, up', NEW c \in Calls, pc[c] # "idle", OnItsWay(c)
  PROVE  \/ OnItsWay(c)'
         \/ ReceiveReply /\ Head(fromBrowser).id = id[c]
<1>0. id'[c] = id[c]
  BY OnceBegun DEF Procs
<1>1. ASSUME NEW k \in 1..Len(toBrowser), toBrowser[k].id = id[c]
      PROVE  OnItsWay(c)'
  <2>1. CASE toBrowser' = toBrowser
    BY <1>0, <1>1, <2>1 DEF OnItsWay, Elems
  <2>2. ASSUME NEW p \in Procs, Write(p) PROVE OnItsWay(c)'
    <3>1. /\ k \in 1..Len(toBrowser')
          /\ toBrowser'[k] = toBrowser[k]
      BY <2>2, AppendAt DEF Write, TypeOK
    <3>2. QED
      BY <1>0, <1>1, <3>1 DEF OnItsWay, Elems
  <2>3. CASE BrowserReads
    <3>1. CASE k = 1
      <4>1. Head(toBrowser) = toBrowser[1]
        BY <2>3, TailAt DEF BrowserReads, TypeOK
      <4>2. toBrowser[1] \in inBrowser'
        BY <2>3, <4>1 DEF BrowserReads
      <4>3. QED
        BY <1>0, <1>1, <3>1, <4>2 DEF OnItsWay
    <3>2. CASE k # 1
      <4>1. k - 1 \in 1..Len(toBrowser') /\ toBrowser'[k - 1] = toBrowser[k]
        BY <2>3, <3>2 DEF BrowserReads, TypeOK
      <4>2. QED
        BY <1>0, <1>1, <4>1 DEF OnItsWay, Elems
    <3>3. QED
      BY <3>1, <3>2
  <2>4. CASE BrowserExits
    BY <2>4 DEF BrowserExits
  <2>5. QED
    BY <2>1, <2>2, <2>3, <2>4, WireSteps
<1>2. ASSUME NEW r \in inBrowser, r.id = id[c]
      PROVE  OnItsWay(c)'
  <2>1. CASE r \in inBrowser'
    BY <1>0, <1>2, <2>1 DEF OnItsWay
  <2>2. CASE BrowserAnswers(r)
    <3> DEFINE m == [kind |-> "reply", id |-> r.id, for |-> r.from, after |-> emitted]
    <3>1. fromBrowser' = Append(fromBrowser, m) /\ m.kind = "reply" /\ m.id = id[c]
      BY <1>2, <2>2 DEF BrowserAnswers
    <3> HIDE DEF m
    <3>2. Len(fromBrowser) + 1 \in 1..Len(fromBrowser')
          /\ fromBrowser'[Len(fromBrowser) + 1] = m
      BY <3>1, AppendAt DEF TypeOK
    <3>3. QED
      BY <1>0, <3>1, <3>2 DEF OnItsWay, Elems, Answers
  <2>3. r \in inBrowser' \/ BrowserAnswers(r)
    <3>1. CASE BrowserReads
      BY <3>1 DEF BrowserReads
    <3>2. CASE BrowserExits
      BY <3>2 DEF BrowserExits
    <3>3. ASSUME NEW s \in inBrowser, BrowserAnswers(s)
          PROVE  r \in inBrowser' \/ BrowserAnswers(r)
      BY <3>3 DEF BrowserAnswers
    <3>4. QED
      BY <3>1, <3>2, <3>3, WireSteps
  <2>4. QED
    BY <2>1, <2>2, <2>3
<1>3. ASSUME NEW k \in 1..Len(fromBrowser), Answers(fromBrowser[k], c)
      PROVE  \/ OnItsWay(c)'
             \/ ReceiveReply /\ Head(fromBrowser).id = id[c]
  <2>1. CASE fromBrowser' = fromBrowser
    BY <1>0, <1>3, <2>1 DEF OnItsWay, Elems, Answers
  <2>2. CASE ReceiveReply \/ ReceiveEvent
    <3>0. fromBrowser # <<>> /\ fromBrowser' = Tail(fromBrowser)
      BY <2>2 DEF ReceiveReply, ReceiveEvent
    <3>1. CASE k = 1
      <4>1. Head(fromBrowser) = fromBrowser[1]
        BY <3>0, TailAt DEF TypeOK
      <4>2. QED
        BY <1>3, <2>2, <3>1, <4>1 DEF ReceiveEvent, Answers
    <3>2. CASE k # 1
      <4>1. k - 1 \in 1..Len(fromBrowser') /\ fromBrowser'[k - 1] = fromBrowser[k]
        BY <3>0, <3>2 DEF TypeOK
      <4>2. QED
        BY <1>0, <1>3, <4>1 DEF OnItsWay, Elems, Answers
    <3>3. QED
      BY <3>1, <3>2
  <2>3. ASSUME NEW m, fromBrowser' = Append(fromBrowser, m) PROVE OnItsWay(c)'
    <3>1. k \in 1..Len(fromBrowser') /\ fromBrowser'[k] = fromBrowser[k]
      BY <2>3, AppendAt DEF TypeOK
    <3>2. QED
      BY <1>0, <1>3, <3>1 DEF OnItsWay, Elems, Answers
  <2>4. QED
    BY <2>1, <2>2, <2>3, WireSteps DEF BrowserEmits, BrowserAnswers
<1>4. QED
  BY <1>1, <1>2, <1>3 DEF OnItsWay, Elems

(* Until readLoop looks its reply up, a call that has been registered      *)
(* stays registered: nobody else's cleanup and no other reply takes its    *)
(* entry, and no reply comes before its request is written.                *)
LEMMA AnswerableCorrect == Spec => []AnswerableInv
<1> USE ClientAssumption, NullAssumption DEF InCall
<1>1. Init => AnswerableInv
  BY DEF Init, AnswerableInv, WaitingIsAnswerable, Procs
<1>2. TypeOK /\ IdsDistinct /\ WireInv /\ HandInv /\ AnswerableInv /\ [Next]_vars
        => AnswerableInv'
  <2> SUFFICES ASSUME TypeOK, IdsDistinct, WireInv, HandInv, AnswerableInv, [Next]_vars
               PROVE  AnswerableInv'
    OBVIOUS
  <2> USE DEF callVars, tableVars, readerVars, browserVars, Goto, Return
  <2> DEFINE Entry(c) == pc[c] \in {"lock", "write"} => c \in pending
             Ready(c) == pc[c] = "wait" /\ up =>
                           \/ ch[c] # NoMsg
                           \/ rl = "deliver" /\ target = c
                           \/ c \in pending /\ OnItsWay(c)
  <2>0. /\ Calls \subseteq Procs
        /\ pc \in [Procs -> {"idle", "returned"} \cup InCall]
        /\ ch \in [Calls -> Reply \cup {NoMsg}]
        /\ pending \subseteq Calls
        /\ \A p, q \in Procs : pc[p] # "idle" /\ pc[q] # "idle" /\ id[p] = id[q] => p = q
        /\ \A c \in pending : pc[c] # "idle"
    BY DEF TypeOK, IdsDistinct, HandInv, Procs
  <2>a. \A c \in Calls : Entry(c) /\ Ready(c)
    BY DEF AnswerableInv, WaitingIsAnswerable
  <2>b. (\A c \in Calls : Entry(c)' /\ Ready(c)') => AnswerableInv'
    BY DEF AnswerableInv, WaitingIsAnswerable
  <2>c. up' => up
    BY DEF Next, Work, ReadLoop, Browser, vars, Begin, MarshalFails, LockWriter, Write,
       WriteFails, Register, TakeReply, GiveUp, SeeDone, Forget, Expire, CloseDone,
       CloseTransport, ReceiveReply, Deliver, ReceiveEvent, HandlerReturns, ReceiveFails,
       BrowserReads, BrowserEmits, BrowserExits, BrowserAnswers
  <2> SUFFICES ASSUME NEW d \in Calls PROVE Entry(d)' /\ Ready(d)'
    BY <2>b
  <2>d. Entry(d) /\ Ready(d)
    BY <2>a
  <2>e. ASSUME up', pc[d] # "idle", OnItsWay(d), ~ReceiveReply PROVE OnItsWay(d)'
    BY <2>e, StaysOnItsWay
  <2>1. ASSUME NEW p \in Procs, Begin(p) PROVE Entry(d)' /\ Ready(d)'
    BY <2>0, <2>c, <2>d, <2>e, <2>1 DEF Begin, ReceiveReply
  <2>2. ASSUME NEW p \in Procs, MarshalFails(p) PROVE Entry(d)' /\ Ready(d)'
    BY <2>0, <2>c, <2>d, <2>e, <2>2 DEF MarshalFails, SendFailed, ReceiveReply
  <2>3. ASSUME NEW p \in Procs, LockWriter(p) PROVE Entry(d)' /\ Ready(d)'
    BY <2>0, <2>c, <2>d, <2>e, <2>3 DEF LockWriter, ReceiveReply
  <2>4. ASSUME NEW p \in Procs, Write(p) PROVE Entry(d)' /\ Ready(d)'
    <3>1. CASE p = d
      <4>1. pc'[d] = "wait" /\ pending' = pending /\ d \in pending
        BY <2>0, <2>4, <2>d, <3>1 DEF Write
      <4>2. /\ Len(toBrowser) + 1 \in 1..Len(toBrowser')
            /\ toBrowser'[Len(toBrowser) + 1] = [id |-> id[d], from |-> d]
        BY <2>4, <3>1, AppendAt DEF Write, TypeOK
      <4>3. OnItsWay(d)'
        BY <2>4, <4>2 DEF Write, OnItsWay, Elems
      <4>4. QED
        BY <4>1, <4>3
    <3>2. CASE p # d
      BY <2>0, <2>4, <2>c, <2>d, <2>e, <3>2 DEF Write, ReceiveReply
    <3>3. QED
      BY <3>1, <3>2
  <2>5. ASSUME NEW p \in Procs, WriteFails(p) PROVE Entry(d)' /\ Ready(d)'
    BY <2>0, <2>c, <2>d, <2>e, <2>5 DEF WriteFails, SendFailed, ReceiveReply
  <2>6. ASSUME NEW c \in Calls, Register(c) PROVE Entry(d)' /\ Ready(d)'
    <3>1. \A q \in pending : q = d => d \in pending'
      BY <2>0, <2>6 DEF Register
    <3>2. QED
      BY <2>0, <2>6, <2>c, <2>d, <2>e, <3>1 DEF Register, ReceiveReply
  <2>7. ASSUME NEW c \in Calls, TakeReply(c) PROVE Entry(d)' /\ Ready(d)'
    BY <2>0, <2>c, <2>d, <2>e, <2>7 DEF TakeReply, ReceiveReply
  <2>8. ASSUME NEW c \in Calls, GiveUp(c) PROVE Entry(d)' /\ Ready(d)'
    BY <2>0, <2>c, <2>d, <2>e, <2>8 DEF GiveUp, ReceiveReply
  <2>9. ASSUME NEW c \in Calls, SeeDone(c) PROVE Entry(d)' /\ Ready(d)'
    BY <2>0, <2>c, <2>d, <2>e, <2>9 DEF SeeDone, ReceiveReply
  <2>10. ASSUME NEW c \in Calls, Forget(c) PROVE Entry(d)' /\ Ready(d)'
    BY <2>0, <2>c, <2>d, <2>e, <2>10 DEF Forget, ReceiveReply
  <2>11. ASSUME NEW c \in Calls, Expire(c) PROVE Entry(d)' /\ Ready(d)'
    BY <2>0, <2>c, <2>d, <2>e, <2>11 DEF Expire, ReceiveReply
  <2>12. CASE CloseDone
    BY <2>0, <2>c, <2>d, <2>e, <2>12 DEF CloseDone, ReceiveReply
  <2>13. CASE CloseTransport
    BY <2>0, <2>c, <2>d, <2>e, <2>13 DEF CloseTransport, ReceiveReply
  <2>14. CASE ReceiveReply
    <3>0. UNCHANGED <<pc, id, ch, up>> /\ rl = "receive" /\ fromBrowser # <<>>
      BY <2>14 DEF ReceiveReply
    <3>1. /\ 1 \in 1..Len(fromBrowser) /\ fromBrowser[1] = Head(fromBrowser)
          /\ fromBrowser[1] \in Reply \cup Event /\ fromBrowser[1].kind = "reply"
      BY <2>14, <3>0, TailAt DEF ReceiveReply, TypeOK
    <3>2. fromBrowser[1] \in Reply /\ ForItsSender(fromBrowser[1])
      BY <3>1 DEF WireInv, Event
    <3>3. Entry(d)'
      <4>1. ASSUME pc[d] \in {"lock", "write"} PROVE id[d] # Head(fromBrowser).id
        BY <2>0, <3>1, <3>2, <4>1 DEF ForItsSender, Unwritten, Reply
      <4>2. QED
        BY <2>14, <2>d, <3>0, <4>1 DEF ReceiveReply, Lookup
    <3>4. ASSUME pc[d] = "wait", up, ch[d] = NoMsg
          PROVE  \/ rl' = "deliver" /\ target' = d
                 \/ d \in pending' /\ OnItsWay(d)'
      <4>0. d \in pending /\ OnItsWay(d)
        BY <2>d, <3>0, <3>4
      <4>1. CASE id[d] = Head(fromBrowser).id
        <5>1. Lookup(Head(fromBrowser).id) = {d}
          BY <2>0, <4>0, <4>1 DEF Lookup
        <5>2. QED
          BY <2>14, <5>1 DEF ReceiveReply
      <4>2. CASE id[d] # Head(fromBrowser).id
        <5>1. d \in pending'
          BY <2>14, <4>0, <4>2 DEF ReceiveReply, Lookup
        <5>2. OnItsWay(d)'
          BY <3>0, <3>4, <4>0, <4>2, StaysOnItsWay
        <5>3. QED
          BY <5>1, <5>2
      <4>3. QED
        BY <4>1, <4>2
    <3>5. QED
      BY <3>0, <3>3, <3>4
  <2>15. CASE Deliver
    <3>1. /\ UNCHANGED <<pc, pending>> /\ ch' = [ch EXCEPT ![target] = cur]
          /\ cur # NoMsg /\ target \in Calls
      BY <2>15 DEF Deliver, TypeOK
    <3>2. ~ReceiveReply
      BY <2>15 DEF Deliver, ReceiveReply
    <3>3. CASE d = target
      BY <2>0, <2>d, <3>1, <3>3
    <3>4. CASE d # target
      BY <2>0, <2>c, <2>d, <2>e, <3>1, <3>2, <3>4
    <3>5. QED
      BY <3>3, <3>4
  <2>16. CASE ReceiveEvent
    BY <2>0, <2>c, <2>d, <2>e, <2>16 DEF ReceiveEvent, ReceiveReply
  <2>17. CASE HandlerReturns
    BY <2>0, <2>c, <2>d, <2>e, <2>17 DEF HandlerReturns, ReceiveReply
  <2>18. CASE ReceiveFails
    BY <2>0, <2>c, <2>d, <2>e, <2>18 DEF ReceiveFails, ReceiveReply
  <2>19. CASE BrowserReads
    BY <2>0, <2>c, <2>d, <2>e, <2>19 DEF BrowserReads, ReceiveReply
  <2>20. CASE BrowserEmits
    BY <2>0, <2>c, <2>d, <2>e, <2>20 DEF BrowserEmits, ReceiveReply
  <2>21. CASE BrowserExits
    BY <2>0, <2>c, <2>d, <2>e, <2>21 DEF BrowserExits, ReceiveReply
  <2>22. ASSUME NEW r \in inBrowser, BrowserAnswers(r) PROVE Entry(d)' /\ Ready(d)'
    BY <2>0, <2>c, <2>d, <2>e, <2>22 DEF BrowserAnswers, ReceiveReply
  <2>23. CASE UNCHANGED vars
    BY <2>23, <2>d DEF vars, OnItsWay, Elems, Answers
  <2>24. QED
    BY <2>1, <2>2, <2>3, <2>4, <2>5, <2>6, <2>7, <2>8, <2>9, <2>10,
       <2>11, <2>12, <2>13, <2>14, <2>15, <2>16, <2>17, <2>18, <2>19,
       <2>20, <2>21, <2>22, <2>23
    DEF Next, Work, ReadLoop, Browser
<1>3. QED
  BY <1>1, <1>2, TypeCorrect, DistinctIds, WireCorrect, HandCorrect, PTL DEF Spec

(* No reply is lost to its call: as long as the browser lives, a Call that *)
(* waits has its reply, or is registered with its request or its reply on  *)
(* the way; Call registers before it writes, and only readLoop, with the   *)
(* reply in hand, or the call itself deletes the entry.                    *)
THEOREM WaitersAnswerable == Spec => []WaitingIsAnswerable
<1>1. AnswerableInv => WaitingIsAnswerable
  BY DEF AnswerableInv
<1>2. QED
  BY <1>1, AnswerableCorrect, PTL

-----------------------------------------------------------------------------
(* What a step that moves one execution does to the callers' view. *)
LEMMA ViewStep ==
  ASSUME NEW p \in Procs,
         \A d \in Procs : d # p => pc'[d] = pc[d] /\ outcome'[d] = outcome[d]
  PROVE  /\ p \in Sends => AbsCall' = AbsCall
         /\ p \in Calls =>
              /\ AbsCall[p] = View(pc[p], outcome[p])
              /\ AbsCall' = [AbsCall EXCEPT ![p] = View(pc'[p], outcome'[p])]
              /\ View(pc'[p], outcome'[p]) = View(pc[p], outcome[p]) => AbsCall' = AbsCall
<1> DEFINE after(d) == View(pc'[d], outcome'[d])
           before(d) == View(pc[d], outcome[d])
<1>1. AbsCall' = [d \in Calls |-> after(d)] /\ AbsCall = [d \in Calls |-> before(d)]
  BY DEF AbsCall, View
<1>2. \A d \in Calls : d # p => after(d) = before(d)
  BY DEF Procs
<1>3. p \in Sends => p \notin Calls
  BY ClientAssumption
<1> HIDE DEF after, before
<1>4. p \in Sends => AbsCall' = AbsCall
  BY <1>1, <1>2, <1>3
<1>5. p \in Calls => AbsCall[p] = before(p) /\ AbsCall' = [AbsCall EXCEPT ![p] = after(p)]
  BY <1>1, <1>2
<1>6. p \in Calls /\ after(p) = before(p) => AbsCall' = AbsCall
  BY <1>1, <1>2
<1>7. QED
  BY <1>4, <1>5, <1>6 DEF after, before

(* Client refines RpcCalls: a call finishes once, with an answer only if   *)
(* the browser served that very call, as "closed" only once the client is  *)
(* down.                                                                   *)
THEOREM ClientRefinesRpcCalls == Spec => KeepsPromise
<1>1. Init => Rpc!Init
  BY DEF Init, Rpc!Init, AbsCall, View, Procs
<1>2. TypeOK /\ WireInv /\ HandInv /\ [Next]_vars => [Rpc!Next]_(Rpc!vars)
  <2> SUFFICES ASSUME TypeOK, WireInv, HandInv, [Next]_vars
               PROVE  [Rpc!Next]_(Rpc!vars)
    OBVIOUS
  <2> USE ClientAssumption
      DEF TypeOK, InCall, callVars, tableVars, readerVars, browserVars, Goto, Return, Rpc!vars
  <2>0. Calls \subseteq Procs
    BY DEF Procs
  <2>1. ASSUME NEW p \in Procs, Begin(p) PROVE [Rpc!Next]_(Rpc!vars)
    <3>0. \A d \in Procs : d # p => pc'[d] = pc[d] /\ outcome'[d] = outcome[d]
      BY <2>0, <2>1 DEF Begin
    <3>1. CASE p \in Sends
      BY <2>1, <3>0, <3>1, ViewStep DEF Begin
    <3>2. CASE p \in Calls
      <4>1. View(pc'[p], outcome'[p]) = "open" /\ View(pc[p], outcome[p]) = "new"
        BY <2>1, <3>2 DEF Begin, View
      <4>2. AbsCall' = [AbsCall EXCEPT ![p] = "open"] /\ AbsCall[p] = "new"
        BY <3>0, <3>2, <4>1, ViewStep
      <4>3. Rpc!Open(p)
        BY <2>1, <4>2 DEF Begin, Rpc!Open
      <4>4. QED
        BY <3>2, <4>3 DEF Rpc!Next
    <3>3. QED
      BY <3>1, <3>2 DEF Procs
  <2>2. ASSUME NEW p \in Procs, MarshalFails(p) PROVE [Rpc!Next]_(Rpc!vars)
    <3>0. \A d \in Procs : d # p => pc'[d] = pc[d] /\ outcome'[d] = outcome[d]
      BY <2>0, <2>2 DEF MarshalFails, SendFailed
    <3>1. p \in Calls => View(pc'[p], outcome'[p]) = View(pc[p], outcome[p])
      BY <2>2 DEF MarshalFails, SendFailed, View
    <3>2. AbsCall' = AbsCall
      BY <3>0, <3>1, ViewStep DEF Procs
    <3>3. QED
      BY <2>2, <3>2 DEF MarshalFails
  <2>3. ASSUME NEW p \in Procs, LockWriter(p) PROVE [Rpc!Next]_(Rpc!vars)
    <3>0. \A d \in Procs : d # p => pc'[d] = pc[d] /\ outcome'[d] = outcome[d]
      BY <2>0, <2>3 DEF LockWriter
    <3>1. p \in Calls => View(pc'[p], outcome'[p]) = View(pc[p], outcome[p])
      BY <2>3 DEF LockWriter, View
    <3>2. AbsCall' = AbsCall
      BY <3>0, <3>1, ViewStep DEF Procs
    <3>3. QED
      BY <2>3, <3>2 DEF LockWriter
  <2>4. ASSUME NEW p \in Procs, Write(p) PROVE [Rpc!Next]_(Rpc!vars)
    <3>0. \A d \in Procs : d # p => pc'[d] = pc[d] /\ outcome'[d] = outcome[d]
      BY <2>0, <2>4 DEF Write
    <3>1. p \in Calls => View(pc'[p], outcome'[p]) = View(pc[p], outcome[p])
      BY <2>4 DEF Write, View
    <3>2. AbsCall' = AbsCall
      BY <3>0, <3>1, ViewStep DEF Procs
    <3>3. QED
      BY <2>4, <3>2 DEF Write
  <2>5. ASSUME NEW p \in Procs, WriteFails(p) PROVE [Rpc!Next]_(Rpc!vars)
    <3>0. \A d \in Procs : d # p => pc'[d] = pc[d] /\ outcome'[d] = outcome[d]
      BY <2>0, <2>5 DEF WriteFails, SendFailed
    <3>1. p \in Calls => View(pc'[p], outcome'[p]) = View(pc[p], outcome[p])
      BY <2>5 DEF WriteFails, SendFailed, View
    <3>2. AbsCall' = AbsCall
      BY <3>0, <3>1, ViewStep DEF Procs
    <3>3. QED
      BY <2>5, <3>2 DEF WriteFails
  <2>6. ASSUME NEW c \in Calls, Register(c) PROVE [Rpc!Next]_(Rpc!vars)
    <3>0. \A d \in Procs : d # c => pc'[d] = pc[d] /\ outcome'[d] = outcome[d]
      BY <2>0, <2>6 DEF Register
    <3>1. View(pc'[c], outcome'[c]) = View(pc[c], outcome[c])
      BY <2>0, <2>6 DEF Register, View
    <3>2. AbsCall' = AbsCall
      BY <2>0, <3>0, <3>1, ViewStep
    <3>3. QED
      BY <2>6, <3>2 DEF Register
  <2>7. ASSUME NEW c \in Calls, TakeReply(c) PROVE [Rpc!Next]_(Rpc!vars)
    <3>0. \A d \in Procs : d # c => pc'[d] = pc[d] /\ outcome'[d] = outcome[d]
      BY <2>0, <2>7 DEF TakeReply
    <3>1. View(pc'[c], outcome'[c]) = "answered" /\ View(pc[c], outcome[c]) = "open"
      BY <2>0, <2>7 DEF TakeReply, View
    <3>2. AbsCall' = [AbsCall EXCEPT ![c] = "answered"] /\ AbsCall[c] = "open"
      BY <2>0, <3>0, <3>1, ViewStep
    <3>3. Rpc!Finish(c, "answered")
      BY <2>7, <3>2 DEF TakeReply, HandInv, Rpc!Finish
    <3>4. QED
      BY <3>3 DEF Rpc!Next, Rpc!Finished
  <2>8. ASSUME NEW c \in Calls, GiveUp(c) PROVE [Rpc!Next]_(Rpc!vars)
    <3>0. \A d \in Procs : d # c => pc'[d] = pc[d] /\ outcome'[d] = outcome[d]
      BY <2>0, <2>8 DEF GiveUp
    <3>1. View(pc'[c], outcome'[c]) = View(pc[c], outcome[c])
      BY <2>0, <2>8 DEF GiveUp, View
    <3>2. AbsCall' = AbsCall
      BY <2>0, <3>0, <3>1, ViewStep
    <3>3. QED
      BY <2>8, <3>2 DEF GiveUp
  <2>9. ASSUME NEW c \in Calls, SeeDone(c) PROVE [Rpc!Next]_(Rpc!vars)
    <3>0. \A d \in Procs : d # c => pc'[d] = pc[d] /\ outcome'[d] = outcome[d]
      BY <2>0, <2>9 DEF SeeDone
    <3>1. View(pc'[c], outcome'[c]) = "closed" /\ View(pc[c], outcome[c]) = "open"
      BY <2>0, <2>9 DEF SeeDone, View
    <3>2. AbsCall' = [AbsCall EXCEPT ![c] = "closed"] /\ AbsCall[c] = "open"
      BY <2>0, <3>0, <3>1, ViewStep
    <3>3. Rpc!Finish(c, "closed")
      BY <2>9, <3>2 DEF SeeDone, Rpc!Finish
    <3>4. QED
      BY <3>3 DEF Rpc!Next, Rpc!Finished
  <2>10. ASSUME NEW c \in Calls, Forget(c) PROVE [Rpc!Next]_(Rpc!vars)
    <3>0. \A d \in Procs : d # c => pc'[d] = pc[d] /\ outcome'[d] = outcome[d]
      BY <2>0, <2>10 DEF Forget
    <3>1. View(pc'[c], outcome'[c]) = "failed" /\ View(pc[c], outcome[c]) = "open"
      BY <2>0, <2>10 DEF Forget, View, HandInv
    <3>2. AbsCall' = [AbsCall EXCEPT ![c] = "failed"] /\ AbsCall[c] = "open"
      BY <2>0, <3>0, <3>1, ViewStep
    <3>3. Rpc!Finish(c, "failed")
      BY <2>10, <3>2 DEF Forget, Rpc!Finish
    <3>4. QED
      BY <3>3 DEF Rpc!Next, Rpc!Finished
  <2>11. ASSUME NEW c \in Calls, Expire(c) PROVE [Rpc!Next]_(Rpc!vars)
    BY <2>11 DEF Expire, AbsCall
  <2>12. CASE CloseDone
    BY <2>12 DEF CloseDone, AbsCall, Rpc!Next, Rpc!GoDown
  <2>13. CASE CloseTransport
    BY <2>13 DEF CloseTransport, AbsCall
  <2>14. CASE ReceiveReply
    BY <2>14 DEF ReceiveReply, AbsCall
  <2>15. CASE Deliver
    BY <2>15 DEF Deliver, AbsCall
  <2>16. CASE ReceiveEvent
    BY <2>16 DEF ReceiveEvent, AbsCall
  <2>17. CASE HandlerReturns
    BY <2>17 DEF HandlerReturns, AbsCall
  <2>18. CASE ReceiveFails
    BY <2>18 DEF ReceiveFails, AbsCall, Rpc!Next, Rpc!GoDown
  <2>19. CASE BrowserReads
    BY <2>19 DEF BrowserReads, AbsCall
  <2>20. CASE BrowserEmits
    BY <2>20 DEF BrowserEmits, AbsCall
  <2>21. CASE BrowserExits
    BY <2>21 DEF BrowserExits, AbsCall
  <2>22. ASSUME NEW r \in inBrowser, BrowserAnswers(r) PROVE [Rpc!Next]_(Rpc!vars)
    <3>1. r \in Request /\ FromItsSender(r)
      BY DEF WireInv
    <3>2. AbsCall' = AbsCall
      BY <2>22 DEF BrowserAnswers, AbsCall
    <3>3. CASE r.from \in Calls /\ r.from \notin served
      <4>1. pc[r.from] # "idle"
        BY <3>1 DEF FromItsSender, Unwritten
      <4>2. Rpc!Serve(r.from)
        BY <2>22, <2>0, <3>2, <3>3, <4>1 DEF BrowserAnswers, Rpc!Serve, AbsCall, View
      <4>3. QED
        BY <3>3, <4>2 DEF Rpc!Next
    <3>4. CASE ~(r.from \in Calls /\ r.from \notin served)
      BY <2>22, <3>2, <3>4 DEF BrowserAnswers
    <3>5. QED
      BY <3>3, <3>4
  <2>23. CASE UNCHANGED vars
    BY <2>23 DEF vars, AbsCall
  <2>24. QED
    BY <2>1, <2>2, <2>3, <2>4, <2>5, <2>6, <2>7, <2>8, <2>9, <2>10,
       <2>11, <2>12, <2>13, <2>14, <2>15, <2>16, <2>17, <2>18, <2>19,
       <2>20, <2>21, <2>22, <2>23
    DEF Next, Work, ReadLoop, Browser
<1>3. QED
  BY <1>1, <1>2, TypeCorrect, WireCorrect, HandCorrect, PTL
  DEF Spec, KeepsPromise, Rpc!Safety

=============================================================================
