--------------------------- MODULE ListenerProofs ---------------------------
(***************************************************************************)
(* Proofs about Listener, for any errors, deadlines, sequences and number  *)
(* of unread lines, with no fairness and no assumption on the agent.       *)
(*                                                                         *)
(* The argument: a rail sends only while nothing is pending, and what is   *)
(* pending is answered by one receipt, so the inbox and the receipts of    *)
(* the output queue never hold more than the pending wake (OneOutstanding, *)
(* ReceiptsAreReal).  A pointer wake is newer than what was acknowledged   *)
(* (PendingIsNew), so taking it in keeps the agent ahead of the listener,  *)
(* and its receipt acknowledges no more than was taken in.  A former child *)
(* holds the next listener at the head of its first round (HeldAtHead).    *)
(* The continuations sent for an event are those forgotten and those that  *)
(* the listener remembers, or that are on disk (CountIsKept), and a wake   *)
(* that is sent is below the cap.                                          *)
(***************************************************************************)
EXTENDS Listener, TLAPS

\* A receipt on its way is of a wake that the agent took in.
ReceiptsAreReal ==
  \A i \in Receipts :
    /\ agent.output[i].wake # NoWake
    /\ agent.output[i].wake.kind = "pointer"
         => agent.output[i].wake.sequence <= agent.ingested

\* A pending pointer wake is about an event that is not yet acknowledged.
PendingIsNew ==
  mem.pending.kind = "pointer" => mem.pending.sequence > mem.last

\* While a former child lives no rail has been passed.
HeldAtHead == former => at \in {"pointer", "raise"}

\* The continuations not forgotten are those in memory, until an unsaved one
\* makes the listener end, and those on disk but for one unrecorded; a terminal
\* state counts none.
CountIsKept ==
  /\ file.status = "terminal" => file.cont = 0
  /\ serving /\ (at = "raise" => save # Saved)
       => continued = mem.cont + forgotten
  /\ file.status # "terminal"
       => continued = file.cont + forgotten + (IF Unrecorded THEN 1 ELSE 0)
  /\ Unrecorded => serving

Handing == OneOutstanding /\ ReceiptsAreReal /\ PendingIsNew
             /\ AcknowledgedWasIngested

Inv ==
  /\ TypeOK
  /\ Handing
  /\ HeldAtHead /\ SessionIsSole
  /\ CountIsKept /\ ContinuationsAccounted

-----------------------------------------------------------------------------
(***************************************************************************)
(* Values.                                                                 *)
(***************************************************************************)

\* A wake that goes out is not the absence of one.
LEMMA WakeValues ==
  /\ NoWake \in Wake /\ NoWake \notin Wakes /\ Wakes \subseteq Wake
  /\ NoWake.kind = "none" /\ NoWake.sequence = 0
  /\ \A n \in Nat : [kind |-> "pointer", sequence |-> n] \in Wakes
  /\ \A k \in Kinds : SelfWake(k) \in Wakes /\ SelfWake(k).kind = k
BY DEF Wake, Wakes, NoWake, SelfWake, Kinds

\* The records of the state file and of the listener it restarts have types.
LEMMA RecordValues ==
  /\ NoMonitorWake \in Monitor
  /\ \A s \in {"open", "closed", "terminal"} :
       /\ Blank(s) \in File
       /\ Blank(s).status = s /\ Blank(s).cont = 0
  /\ \A f \in File : Restored(f) \in Object
  /\ NoAgent \in Child
<1>1. NoMonitorWake \in Monitor
  BY TimesAssumption DEF NoMonitorWake, Monitor
<1>2. \A s \in {"open", "closed", "terminal"} :
        Blank(s) \in File /\ Blank(s).status = s /\ Blank(s).cont = 0
  BY <1>1, TimesAssumption DEF Blank, File, ContinuationCap
<1>3. \A f \in File : Restored(f) \in Object
  BY WakeValues DEF Restored, File, Object
<1>4. NoAgent \in Child
  BY WakeValues DEF NoAgent, Child, Record
<1>5. QED
  BY <1>1, <1>2, <1>3, <1>4

\* Records that grow older keep their types and everything but their ages.
LEMMA OlderValues ==
  /\ \A m \in Object :
       /\ Older(m) \in Object
       /\ Older(m).pending = m.pending /\ Older(m).last = m.last
       /\ Older(m).cont = m.cont
  /\ \A f \in File :
       /\ Older(f) \in File
       /\ Older(f).status = f.status /\ Older(f).cont = f.cont
<1>1. \A a \in 0..Stale : Aged(a, Stale) \in 0..Stale
  BY TimesAssumption DEF Aged
<1>2. \A m \in Monitor : OlderMonitor(m) \in Monitor
  BY RecordValues, TimesAssumption DEF OlderMonitor, Monitor
<1>3. ASSUME NEW m \in Object
      PROVE  /\ Older(m) \in Object
             /\ Older(m).pending = m.pending /\ Older(m).last = m.last
             /\ Older(m).cont = m.cont
  BY <1>1, <1>2 DEF Older, Object
<1>4. ASSUME NEW f \in File
      PROVE  /\ Older(f) \in File
             /\ Older(f).status = f.status /\ Older(f).cont = f.cont
  BY <1>1, <1>2 DEF Older, File
<1>5. QED
  BY <1>3, <1>4

\* What the queue of unread lines holds after a line is taken or added.
LEMMA QueueValues ==
  ASSUME NEW q \in Seq(Record)
  PROVE  /\ DOMAIN q = 1..Len(q) /\ Len(q) \in Nat
         /\ q # <<>> =>
              /\ Len(q) > 0
              /\ Head(q) = q[1] /\ Head(q) \in Record
              /\ Tail(q) \in Seq(Record)
              /\ DOMAIN Tail(q) = 1 .. (Len(q) - 1)
              /\ \A i \in 1 .. (Len(q) - 1) : Tail(q)[i] = q[i + 1]
         /\ \A r \in Record :
              /\ Append(q, r) \in Seq(Record)
              /\ DOMAIN Append(q, r) = 1 .. (Len(q) + 1)
              /\ \A i \in 1 .. Len(q) : Append(q, r)[i] = q[i]
              /\ Append(q, r)[Len(q) + 1] = r
<1>1. DOMAIN q = 1..Len(q) /\ Len(q) \in Nat
  OBVIOUS
<1>2. ASSUME q # <<>>
      PROVE  /\ Len(q) > 0
             /\ Head(q) = q[1] /\ Head(q) \in Record
             /\ Tail(q) \in Seq(Record)
             /\ DOMAIN Tail(q) = 1 .. (Len(q) - 1)
             /\ \A i \in 1 .. (Len(q) - 1) : Tail(q)[i] = q[i + 1]
  BY <1>2
<1>3. ASSUME NEW r \in Record
      PROVE  /\ Append(q, r) \in Seq(Record)
             /\ DOMAIN Append(q, r) = 1 .. (Len(q) + 1)
             /\ \A i \in 1 .. Len(q) : Append(q, r)[i] = q[i]
             /\ Append(q, r)[Len(q) + 1] = r
  OBVIOUS
<1>4. QED
  BY <1>1, <1>2, <1>3

-----------------------------------------------------------------------------
(***************************************************************************)
(* Types.                                                                  *)
(***************************************************************************)

\* What a listener that leaves behind, and the agent it takes with it.
LEMMA LeaveServeValues ==
  ASSUME TypeOK, NEW s \in {"former", "gone"}, LeaveServe(s)
  PROVE  /\ serving' = FALSE /\ at' = "pointer" /\ save' = Saved /\ sent' = 0
         /\ mem' \in Object /\ mem'.pending = NoWake /\ mem'.last = 0
         /\ mem'.cont = file.cont
         /\ agent' \in Child /\ agent' = NoAgent
         /\ file' \in File /\ file'.cont = file.cont
         /\ file'.status = file.status
<1>1. mem' \in Object /\ mem' = Restored(file)
  BY RecordValues DEF LeaveServe, TypeOK
<1>2. mem'.pending = NoWake /\ mem'.last = 0 /\ mem'.cont = file.cont
  BY <1>1 DEF Restored
<1>3. agent' \in Child /\ agent' = NoAgent
  BY RecordValues DEF LeaveServe
<1>4. file' \in File /\ file'.cont = file.cont /\ file'.status = file.status
  BY DEF LeaveServe, TypeOK, File
<1>5. QED
  BY <1>1, <1>2, <1>3, <1>4 DEF LeaveServe

\* A wake that goes out, as the pending one and in the inbox.
LEMMA SendValues ==
  ASSUME TypeOK, NEW w \in Wakes, NEW m \in Object,
         NEW status \in {"open", "closed"},
         NEW next \in {"continuation", "heartbeat", "output"},
         Send(w, m, status, next)
  PROVE  /\ mem' \in Object /\ mem'.pending = w /\ mem'.last = m.last
         /\ mem'.cont = m.cont
         /\ agent' \in Child /\ agent'.inbox = w
         /\ agent'.output = agent.output /\ agent'.ingested = agent.ingested
         /\ at' = next /\ save' = status /\ sent' = 0
         /\ UNCHANGED <<serving, file, former, bridge>>
<1>1. w \in Wake
  BY DEF Wake
<1>2. /\ mem' \in Object /\ mem'.pending = w /\ mem'.last = m.last
      /\ mem'.cont = m.cont
  BY <1>1 DEF Send, Object
<1>3. /\ agent' \in Child /\ agent'.inbox = w
      /\ agent'.output = agent.output /\ agent'.ingested = agent.ingested
  BY <1>1 DEF Send, TypeOK, Child
<1>4. QED
  BY <1>2, <1>3 DEF Send

\* What the rails send: a wake of their own, while none is pending.
LEMMA RailValues ==
  ASSUME TypeOK,
         SendPointer \/ SendContinuation \/ SendHeartbeat \/ SendMonitorError
  PROVE  /\ mem.pending = NoWake
         /\ mem' \in Object /\ mem'.pending \in Wakes /\ mem'.last = mem.last
         /\ mem'.pending.kind = "pointer" => mem'.pending.sequence > mem.last
         /\ mem'.cont = IF SendContinuation THEN mem.cont + 1 ELSE mem.cont
         /\ agent' \in Child /\ agent'.inbox = mem'.pending
         /\ agent'.output = agent.output /\ agent'.ingested = agent.ingested
         /\ at \in {"pointer", "continuation", "heartbeat"}
         /\ at = "pointer" => ~former
         /\ at' \in {"continuation", "heartbeat", "output"}
         /\ serving /\ save = Saved /\ save' \in {"open", "closed"}
         /\ sent' = 0
         /\ UNCHANGED <<serving, file, former, bridge>>
<1>1. mem \in Object /\ agent \in Child
  BY DEF TypeOK
<1>2. CASE SendPointer
  <2> DEFINE w == [kind |-> "pointer", sequence |-> inbound]
  <2>1. w \in Wakes /\ w.sequence = inbound /\ w.sequence > mem.last
    BY <1>2, WakeValues DEF SendPointer, InboundDue, TypeOK
  <2>2. Send(w, mem, "open", "continuation")
    BY <1>2 DEF SendPointer
  <2>3. ~SendContinuation
    BY <1>2 DEF SendPointer, SendContinuation, Running
  <2> HIDE DEF w
  <2>4. QED
    BY <1>1, <1>2, <2>1, <2>2, <2>3, SendValues
       DEF SendPointer, InboundDue, Running, SessionClear, Object
<1>3. CASE SendContinuation
  <2> DEFINE m == [mem EXCEPT !.rearm = FALSE, !.cont = @ + 1]
  <2>a. mem.cont + 1 \in 0..ContinuationCap
    BY <1>1, <1>3
       DEF SendContinuation, ContinuationDue, Object, ContinuationCap
  <2>1. m \in Object /\ m.cont = mem.cont + 1 /\ m.last = mem.last
    BY <1>1, <2>a DEF Object
  <2>2. Send(SelfWake("continuation"), m, "closed", "heartbeat")
    BY <1>3 DEF SendContinuation
  <2> HIDE DEF m
  <2>3. /\ SelfWake("continuation") \in Wakes
        /\ SelfWake("continuation").kind = "continuation"
    BY WakeValues DEF Kinds
  <2>4. QED
    BY <1>1, <1>3, <2>1, <2>2, <2>3, SendValues
       DEF SendContinuation, ContinuationDue, Running
<1>4. CASE SendHeartbeat
  <2> DEFINE m == [mem EXCEPT !.self = 0]
  <2>1. m \in Object /\ m.cont = mem.cont /\ m.last = mem.last
    BY <1>1, TimesAssumption DEF Object
  <2>2. Send(SelfWake("heartbeat"), m, "closed", "output")
    BY <1>4 DEF SendHeartbeat
  <2> HIDE DEF m
  <2>3. /\ SelfWake("heartbeat") \in Wakes
        /\ SelfWake("heartbeat").kind = "heartbeat"
    BY WakeValues DEF Kinds
  <2>4. ~SendContinuation
    BY <1>4 DEF SendHeartbeat, SendContinuation, Running
  <2>5. QED
    BY <1>1, <1>4, <2>1, <2>2, <2>3, <2>4, SendValues
       DEF SendHeartbeat, HeartbeatDue, Running
<1>5. CASE SendMonitorError
  <2> DEFINE m == [mem EXCEPT !.mon = [error |-> work, age |-> 0]]
  <2>1. [error |-> work, age |-> 0] \in Monitor
    BY <1>5, TimesAssumption DEF SendMonitorError, MonitorFails, Monitor
  <2>2. m \in Object /\ m.cont = mem.cont /\ m.last = mem.last
    BY <1>1, <2>1 DEF Object
  <2>3. Send(SelfWake("monitor-error"), m, "closed", "output")
    BY <1>5 DEF SendMonitorError
  <2> HIDE DEF m
  <2>4. /\ SelfWake("monitor-error") \in Wakes
        /\ SelfWake("monitor-error").kind = "monitor-error"
    BY WakeValues DEF Kinds
  <2>5. ~SendContinuation
    BY <1>5 DEF SendMonitorError, SendContinuation, Running
  <2>6. QED
    BY <1>1, <1>5, <2>2, <2>3, <2>4, <2>5, SendValues
       DEF SendMonitorError, MonitorFails, Running
<1>6. QED
  BY <1>2, <1>3, <1>4, <1>5

\* A line is taken off the queue.
LEMMA LineValues ==
  ASSUME TypeOK, TakeLine
  PROVE  /\ Line \in Record /\ Line = agent.output[1] /\ Len(agent.output) > 0
         /\ agent' \in Child /\ agent'.output = Tail(agent.output)
         /\ agent'.inbox = agent.inbox /\ agent'.ingested = agent.ingested
         /\ agent'.up = agent.up
<1>1. agent \in Child /\ agent.output \in Seq(Record) /\ agent.output # <<>>
  BY DEF TypeOK, TakeLine, Child
<1>2. agent' = [agent EXCEPT !.output = Tail(agent.output)]
  BY DEF TakeLine
<1>3. Tail(agent.output) \in Seq(Record)
  BY <1>1, QueueValues
<1>4. QED
  BY <1>1, <1>2, <1>3, QueueValues DEF Line, Child

\* What a line does to the listener: nothing to its wakes, or a rearmed
\* continuation rail, or the acknowledgement of the pending wake.
LEMMA AcceptValues ==
  ASSUME TypeOK, AcceptScalar \/ AcceptEnd \/ IgnoreLine
  PROVE  /\ TakeLine /\ ~Answers
         /\ mem' \in Object /\ mem'.pending = mem.pending
         /\ mem'.last = mem.last /\ mem'.cont = mem.cont
         /\ at' \in {"pointer", "raise"}
         /\ save' \in {"open", "closed", Saved} /\ sent' = sent
<1>1. mem \in Object
  BY DEF TypeOK
<1>2. CASE AcceptScalar
  <2>1. mem' = mem
    BY <1>2 DEF AcceptScalar
  <2>2. QED
    BY <1>1, <1>2, <2>1 DEF AcceptScalar, Answers, Saved, TypeOK
<1>3. CASE AcceptEnd
  <2>1. mem' = [mem EXCEPT !.rearm = TRUE]
    BY <1>3 DEF AcceptEnd
  <2>2. /\ mem' \in Object /\ mem'.pending = mem.pending
        /\ mem'.last = mem.last /\ mem'.cont = mem.cont
    BY <1>1, <2>1 DEF Object
  <2>3. QED
    BY <1>3, <2>2 DEF AcceptEnd, Answers, AssertNotStale, Saved
<1>4. CASE IgnoreLine
  <2>1. mem' = mem
    BY <1>4 DEF IgnoreLine
  <2>2. QED
    BY <1>1, <1>4, <2>1 DEF IgnoreLine, AssertNotStale, Saved
<1>5. QED
  BY <1>2, <1>3, <1>4

LEMMA ReceiptValues ==
  ASSUME TypeOK, AcceptReceipt
  PROVE  /\ TakeLine /\ Answers
         /\ mem' \in Object /\ mem'.pending = NoWake /\ mem'.cont = mem.cont
         /\ mem'.last = IF mem.pending.kind = "pointer"
                          THEN mem.pending.sequence ELSE mem.last
         /\ at' = "pointer" /\ save' = "open" /\ sent' = 0
<1>1. mem \in Object /\ mem.pending \in Wake
  BY DEF TypeOK, Object
<1>2. mem.pending.sequence \in Nat
  BY <1>1, WakeValues DEF Wake, Wakes
<1>3. /\ mem' \in Object /\ mem'.pending = NoWake /\ mem'.cont = mem.cont
      /\ mem'.last = IF mem.pending.kind = "pointer"
                       THEN mem.pending.sequence ELSE mem.last
  <2> DEFINE n == IF mem.pending.kind = "pointer"
                    THEN mem.pending.sequence ELSE mem.last
  <2>1. n \in Nat
    BY <1>1, <1>2 DEF Object
  <2>2. mem' = [mem EXCEPT !.last = n, !.pending = NoWake]
    BY DEF AcceptReceipt
  <2> HIDE DEF n
  <2>3. /\ mem' \in Object /\ mem'.pending = NoWake /\ mem'.cont = mem.cont
        /\ mem'.last = n
    BY <1>1, <2>1, <2>2, WakeValues DEF Object
  <2>4. QED
    BY <2>3 DEF n
<1>4. QED
  BY <1>3 DEF AcceptReceipt

\* The steps that touch neither the agent nor the wakes in memory.
Quiet ==
  \/ Save \/ SaveFails \/ SessionConflict \/ SendFails \/ Pass \/ NoOutput
  \/ AgentGone \/ WriteTerminal \/ FormerExits
  \/ OrchestratorPublishes \/ InboundBreaks \/ LedgerChanges

Ends == Stop \/ Fall \/ Kill

Rails == SendPointer \/ SendContinuation \/ SendHeartbeat \/ SendMonitorError

Reads == AcceptScalar \/ AcceptEnd \/ IgnoreLine

Speaks == Ingest \/ Reject \/ EndTurn \/ Chatter

\* Every step is of one of these kinds.
LEMMA Kind ==
  Next => \/ Quiet \/ Ends \/ Start \/ Rails \/ Reads \/ AcceptReceipt
          \/ Speaks \/ AgentExits \/ PublishProgress \/ Tick
BY DEF Next, Loop, Agent, Bridge, Quiet, Ends, Rails, Reads, Speaks

\* The initial state has its types.
LEMMA TypeInit ==
  ASSUME Init
  PROVE  TypeOK
<1>1. file \in File /\ mem \in Object /\ agent \in Child
  BY RecordValues DEF Init
<1>2. inbound \in 0..MaxInbound /\ sent \in 0..AckTimeout
      /\ progress \in [continuing: BOOLEAN, age: 0..Stale]
  BY TimesAssumption, ListenerBoundsAssumption DEF Init
<1>3. continued \in Nat /\ forgotten \in Nat
  BY DEF Init
<1>4. /\ serving \in BOOLEAN /\ former \in BOOLEAN /\ at = "pointer"
      /\ save = "saved" /\ work \in {"active", "idle"} \cup Errors
  BY DEF Init, Saved
<1>5. QED
  BY <1>1, <1>2, <1>3, <1>4 DEF TypeOK, Saved

\* A quiet step keeps the types.
LEMMA TypeQuiet ==
  ASSUME TypeOK, Quiet
  PROVE  TypeOK' /\ mem' = mem /\ agent' = agent
<1> USE DEF TypeOK, Saved, turns
<1>1. CASE Save
  <2>1. file' \in File
    BY <1>1 DEF Save, File, Object
  <2>2. QED
    BY <1>1, <2>1 DEF Save, bridge
<1>2. CASE SaveFails
  BY <1>2 DEF SaveFails, ForgetLost, bridge
<1>3. CASE SessionConflict
  BY <1>3 DEF SessionConflict, bridge
<1>4. CASE SendFails
  BY <1>4 DEF SendFails, bridge
<1>5. CASE Pass
  BY <1>5 DEF Pass, bridge
<1>6. CASE NoOutput
  BY <1>6 DEF NoOutput, AssertNotStale, bridge
<1>7. CASE AgentGone
  BY <1>7 DEF AgentGone, bridge
<1>8. CASE WriteTerminal
  BY <1>8, RecordValues DEF WriteTerminal, bridge
<1>9. CASE FormerExits
  <2>1. file' \in File
    BY <1>9 DEF FormerExits, File
  <2>2. QED
    BY <1>9, <2>1 DEF FormerExits, bridge
<1>10. CASE OrchestratorPublishes
  <2>1. inbound' \in 0..MaxInbound
    BY <1>10, ListenerBoundsAssumption DEF OrchestratorPublishes
  <2>2. QED
    BY <1>10, <2>1 DEF OrchestratorPublishes, listenerVars
<1>11. CASE InboundBreaks
  BY <1>11, ListenerBoundsAssumption DEF InboundBreaks, listenerVars
<1>12. CASE LedgerChanges
  BY <1>12 DEF LedgerChanges, listenerVars
<1>13. QED
  BY <1>1, <1>2, <1>3, <1>4, <1>5, <1>6, <1>7, <1>8, <1>9, <1>10, <1>11,
     <1>12 DEF Quiet

\* What an agent says, at the end of its output.
LEMMA SpeakValues ==
  ASSUME TypeOK, Speaks
  PROVE  /\ agent' \in Child
         /\ \E r \in Record :
              /\ agent'.output = Append(agent.output, r)
              /\ \/ /\ Ingest /\ r.type = "receipt" /\ r.wake = agent.inbox
                    /\ agent.inbox # NoWake /\ agent'.inbox = NoWake
                    /\ agent'.ingested = IF agent.inbox.kind = "pointer"
                         THEN agent.inbox.sequence ELSE agent.ingested
                 \/ /\ ~Ingest /\ r.type # "receipt"
                    /\ agent'.ingested = agent.ingested
                    /\ \/ agent'.inbox = agent.inbox
                       \/ Reject /\ agent'.inbox = NoWake
         /\ agent.up /\ agent'.up = agent.up
         /\ UNCHANGED <<listenerVars, former, bridge, turns>>
<1>1. /\ agent \in Child /\ agent.output \in Seq(Record)
      /\ agent.inbox \in Wake /\ NoWake \in Wake
  BY WakeValues DEF TypeOK, Child
<1>2. agent.inbox.sequence \in Nat
  BY <1>1, WakeValues DEF Wake, Wakes
<1>3. ASSUME NEW r \in Record PROVE Append(agent.output, r) \in Seq(Record)
  BY <1>1, <1>3, QueueValues
<1>4. CASE Ingest
  <2> DEFINE r == [type |-> "receipt", wake |-> agent.inbox]
             n == IF agent.inbox.kind = "pointer" THEN agent.inbox.sequence
                                                  ELSE agent.ingested
             o == Append(agent.output, r)
  <2>1. /\ r \in Record /\ r.type = "receipt" /\ r.wake = agent.inbox
    BY <1>1 DEF Record
  <2>2. n \in Nat /\ o \in Seq(Record)
    BY <1>1, <1>2, <1>3, <2>1 DEF Child
  <2>3. agent' = [agent EXCEPT !.inbox = NoWake, !.output = o, !.ingested = n]
    BY <1>4 DEF Ingest, AgentSteps, Says
  <2>4. /\ agent.inbox # NoWake /\ agent.up
        /\ UNCHANGED <<listenerVars, former, bridge, turns>>
    BY <1>4 DEF Ingest, AgentSteps
  <2> HIDE DEF n, o, r
  <2>5. /\ agent' \in Child /\ agent'.inbox = NoWake /\ agent'.output = o
        /\ agent'.ingested = n /\ agent'.up = agent.up
    BY <1>1, <2>2, <2>3 DEF Child
  <2>6. QED
    BY <1>4, <2>1, <2>4, <2>5 DEF n, o
<1>5. CASE ~Ingest /\ (Reject \/ EndTurn \/ Chatter)
  <2>1. PICK type \in {"echo", "end", "scalar"}, w \in Wake,
             i \in {agent.inbox, NoWake} :
          /\ agent' = [agent EXCEPT !.inbox = i, !.output = Says(type, w)]
          /\ i = agent.inbox \/ Reject
          /\ agent.up /\ UNCHANGED <<listenerVars, former, bridge, turns>>
    <3>1. CASE Reject
      BY <1>1, <3>1 DEF Reject, AgentSteps
    <3>2. CASE EndTurn
      <4>1. agent' = [agent EXCEPT !.inbox = agent.inbox,
                                   !.output = Says("end", NoWake)]
        BY <1>1, <3>2 DEF EndTurn, AgentSteps, Child
      <4>2. QED
        BY <1>1, <3>2, <4>1 DEF EndTurn, AgentSteps
    <3>3. CASE Chatter
      <4>1. agent' = [agent EXCEPT !.inbox = agent.inbox,
                                   !.output = Says("scalar", NoWake)]
        BY <1>1, <3>3 DEF Chatter, AgentSteps, Child
      <4>2. QED
        BY <1>1, <3>3, <4>1 DEF Chatter, AgentSteps
    <3>4. QED
      BY <1>5, <3>1, <3>2, <3>3
  <2> DEFINE r == [type |-> type, wake |-> w]
             o == Append(agent.output, r)
  <2>2. r \in Record /\ r.type # "receipt"
    BY DEF Record
  <2>3. o \in Seq(Record)
    BY <1>3, <2>2
  <2>4. agent' = [agent EXCEPT !.inbox = i, !.output = o]
    BY <2>1 DEF Says
  <2> HIDE DEF o, r
  <2>5. /\ agent' \in Child /\ agent'.inbox = i /\ agent'.output = o
        /\ agent'.ingested = agent.ingested /\ agent'.up = agent.up
    BY <1>1, <2>3, <2>4 DEF Child
  <2>6. QED
    BY <1>5, <2>1, <2>2, <2>5 DEF o
<1>6. QED
  BY <1>4, <1>5 DEF Speaks

\* The agent dies.
LEMMA ExitValues ==
  ASSUME TypeOK, AgentExits
  PROVE  /\ agent' \in Child /\ agent'.inbox = NoWake
         /\ agent.output = <<>> /\ agent'.output = <<>>
         /\ agent'.ingested = agent.ingested
         /\ UNCHANGED <<listenerVars, former, bridge, turns>>
<1>1. agent \in Child /\ NoWake \in Wake
  BY WakeValues DEF TypeOK
<1>2. agent' = [agent EXCEPT !.up = FALSE, !.inbox = NoWake]
  BY DEF AgentExits, AgentSteps
<1>3. /\ agent' \in Child /\ agent'.inbox = NoWake
      /\ agent'.output = agent.output /\ agent'.ingested = agent.ingested
  BY <1>1, <1>2 DEF Child
<1>4. QED
  BY <1>3 DEF AgentExits, AgentSteps

\* The agent publishes: the wakes about the old event are over.
LEMMA PublishValues ==
  ASSUME TypeOK, PublishProgress
  PROVE  /\ mem' \in Object /\ mem'.pending = mem.pending
         /\ mem'.last = mem.last /\ mem'.cont = 0
         /\ file' \in File /\ file'.cont = 0 /\ file'.status = file.status
<1>1. mem' = [mem EXCEPT !.cont = 0, !.self = Stale]
  BY DEF PublishProgress, Unwoken
<1>2. file' = [file EXCEPT !.cont = 0, !.self = Stale]
  BY DEF PublishProgress, Unwoken
<1>3. 0 \in 0..ContinuationCap /\ Stale \in 0..Stale
  BY TimesAssumption DEF ContinuationCap
<1>4. /\ mem' \in Object /\ mem'.pending = mem.pending
      /\ mem'.last = mem.last /\ mem'.cont = 0
  BY <1>1, <1>3 DEF TypeOK, Object
<1>5. file' \in File /\ file'.cont = 0 /\ file'.status = file.status
  BY <1>2, <1>3 DEF TypeOK, File
<1>6. QED
  BY <1>4, <1>5

\* A listener starts.
LEMMA StartValues ==
  ASSUME TypeOK, Start
  PROVE  /\ mem' \in Object /\ mem'.pending = NoWake /\ mem'.last = 0
         /\ mem'.cont = file.cont
         /\ agent' \in Child /\ agent'.inbox = NoWake /\ agent'.output = <<>>
         /\ agent'.ingested = 0
<1>1. mem' \in Object /\ mem' = Restored(file)
  BY RecordValues DEF Start, TypeOK
<1>2. mem'.pending = NoWake /\ mem'.last = 0 /\ mem'.cont = file.cont
  BY <1>1 DEF Restored
<1>3. agent' = [up |-> TRUE, inbox |-> NoWake, output |-> <<>>, ingested |-> 0]
  BY DEF Start, NoAgent
<1>4. agent' \in Child
  BY <1>3, WakeValues DEF Child, Record
<1>5. QED
  BY <1>1, <1>2, <1>3, <1>4

\* Every step keeps the types.
LEMMA TypeStep ==
  ASSUME TypeOK, [Next]_vars
  PROVE  TypeOK'
<1> USE DEF TypeOK, Saved, turns
<1>1. CASE Quiet
  BY <1>1, TypeQuiet
<1>2. ASSUME NEW s \in {"former", "gone"}, LeaveServe(s),
             former' \in BOOLEAN, UNCHANGED bridge,
             continued' \in Nat, forgotten' \in Nat
      PROVE  TypeOK'
  <2>1. /\ mem' \in Object /\ file' \in File /\ agent' \in Child
        /\ serving' = FALSE /\ at' = "pointer" /\ save' = "saved"
        /\ sent' = 0
    BY <1>2, LeaveServeValues
  <2>2. sent' \in 0..AckTimeout
    BY <2>1, TimesAssumption
  <2>3. UNCHANGED <<inbound, progress, work>>
    BY <1>2 DEF bridge
  <2>4. QED
    BY <1>2, <2>1, <2>2, <2>3
<1>3. CASE Ends
  <2>1. former' \in BOOLEAN /\ UNCHANGED bridge
    BY <1>3 DEF Ends, Stop, Fall, Kill
  <2>2. continued' \in Nat /\ forgotten' \in Nat
    BY <1>3 DEF Ends, Stop, Fall, Kill, ForgetLost
  <2>3. \E s \in {"former", "gone"} : LeaveServe(s)
    BY <1>3 DEF Ends, Stop, Fall, Kill
  <2>4. QED
    BY <1>2, <2>1, <2>2, <2>3
<1>4. CASE Start
  BY <1>4, StartValues, TimesAssumption DEF Start, ForgetErased, bridge
<1>5. CASE Rails
  <2>1. continued' \in Nat /\ forgotten' \in Nat
    BY <1>5 DEF Rails, SendPointer, SendContinuation, SendHeartbeat,
                SendMonitorError, turns
  <2>2. QED
    BY <1>5, <2>1, RailValues, TimesAssumption DEF Rails, bridge
<1>6. CASE Reads
  BY <1>6, AcceptValues, LineValues DEF Reads, TakeLine, bridge
<1>7. CASE AcceptReceipt
  BY <1>7, ReceiptValues, LineValues, TimesAssumption DEF TakeLine, bridge
<1>8. CASE Speaks
  BY <1>8, SpeakValues DEF listenerVars, bridge
<1>9. CASE AgentExits
  BY <1>9, ExitValues DEF listenerVars, bridge
<1>10. CASE PublishProgress
  <2>1. progress' \in [continuing: BOOLEAN, age: 0..Stale]
    BY <1>10, TimesAssumption DEF PublishProgress
  <2>2. QED
    BY <1>10, <2>1, PublishValues
       DEF PublishProgress
<1>11. CASE Tick
  <2>1. mem' \in Object /\ file' \in File
    BY <1>11, OlderValues DEF Tick
  <2>2. progress' \in [continuing: BOOLEAN, age: 0..Stale]
    BY <1>11, TimesAssumption DEF Tick, Aged
  <2>3. sent' \in 0..AckTimeout
    BY <1>11, TimesAssumption DEF Tick, Aged
  <2>4. QED
    BY <1>11, <2>1, <2>2, <2>3 DEF Tick
<1>12. CASE UNCHANGED vars
  BY <1>12 DEF vars, bridge
<1>13. QED
  BY <1>1, <1>3, <1>4, <1>5, <1>6, <1>7, <1>8, <1>9, <1>10, <1>11, <1>12, Kind

-----------------------------------------------------------------------------
(***************************************************************************)
(* What is handed to the agent, and what comes back.                       *)
(***************************************************************************)

\* No step of these kinds touches what is outstanding.
LEMMA HandingKept ==
  ASSUME Handing, agent'.inbox = agent.inbox, agent'.output = agent.output,
         agent'.ingested = agent.ingested,
         mem'.pending = mem.pending, mem'.last = mem.last
  PROVE  Handing'
BY DEF Handing, OneOutstanding, Receipts, ReceiptsAreReal, PendingIsNew,
       AcknowledgedWasIngested

\* A new agent and a new listener owe each other nothing.
LEMMA HandingAfresh ==
  ASSUME mem'.pending = NoWake, mem'.last = 0, agent'.inbox = NoWake,
         agent'.output = <<>>, agent'.ingested = 0
  PROVE  Handing'
<1>1. Receipts' = {}
  BY DEF Receipts
<1>2. QED
  BY <1>1 DEF Handing, OneOutstanding, ReceiptsAreReal, PendingIsNew,
              AcknowledgedWasIngested, NoWake

\* While nothing is pending, nothing is on its way.
LEMMA NothingOutstanding ==
  ASSUME Handing, mem.pending = NoWake
  PROVE  agent.inbox = NoWake /\ Receipts = {}
BY DEF Handing, OneOutstanding, ReceiptsAreReal

\* Taking a line off the queue takes its receipt and moves the others up.
LEMMA ReceiptsAfterLine ==
  ASSUME TypeOK, TakeLine
  PROVE  /\ Receipts' = {i \in 1 .. (Len(agent.output) - 1) :
                           i + 1 \in Receipts}
         /\ \A i \in Receipts' : agent'.output[i] = agent.output[i + 1]
         /\ Line.type = "receipt" => 1 \in Receipts
         /\ Receipts \subseteq 1 .. Len(agent.output)
         /\ Len(agent.output) \in Nat
<1>1. agent.output \in Seq(Record) /\ agent.output # <<>>
  BY DEF TypeOK, Child, TakeLine
<1>2. /\ agent'.output = Tail(agent.output) /\ Line = agent.output[1]
      /\ Len(agent.output) > 0
  BY LineValues
<1>3. /\ DOMAIN agent.output = 1 .. Len(agent.output)
      /\ Len(agent.output) \in Nat
      /\ DOMAIN agent'.output = 1 .. (Len(agent.output) - 1)
      /\ \A i \in 1 .. (Len(agent.output) - 1) :
           agent'.output[i] = agent.output[i + 1]
  BY <1>1, <1>2, QueueValues
<1>4. QED
  BY <1>2, <1>3 DEF Receipts

\* A line that answers nothing leaves what is outstanding as it was.
LEMMA HandingReads ==
  ASSUME TypeOK, Handing, Reads
  PROVE  Handing'
<1>1. /\ TakeLine /\ mem'.pending = mem.pending /\ mem'.last = mem.last
  BY AcceptValues DEF Reads
<1>2. agent'.inbox = agent.inbox /\ agent'.ingested = agent.ingested
  BY <1>1, LineValues
<1>3. \A i \in Receipts' :
        i \in Nat /\ i + 1 \in Receipts
        /\ agent'.output[i] = agent.output[i + 1]
  BY <1>1, ReceiptsAfterLine
<1>4. OneOutstanding'
  <2>1. agent'.inbox # NoWake => agent'.inbox = mem'.pending /\ Receipts' = {}
    BY <1>1, <1>2, <1>3 DEF Handing, OneOutstanding
  <2>2. ASSUME NEW i \in Receipts'
        PROVE  Receipts' = {i} /\ agent'.output[i].wake = mem'.pending
    <3>1. i \in Nat /\ i + 1 \in Receipts /\ Receipts = {i + 1}
      BY <1>3, <2>2 DEF Handing, OneOutstanding
    <3>2. ASSUME NEW j \in Receipts' PROVE j = i
      <4>1. j \in Nat /\ j + 1 = i + 1
        BY <1>3, <3>1, <3>2
      <4>2. QED
        BY <3>1, <4>1
    <3>3. Receipts' = {i}
      BY <2>2, <3>2
    <3>4. QED
      BY <1>1, <1>3, <2>2, <3>1, <3>3 DEF Handing, OneOutstanding
  <2>3. QED
    BY <2>1, <2>2 DEF OneOutstanding
<1>5. ReceiptsAreReal'
  BY <1>2, <1>3 DEF Handing, ReceiptsAreReal
<1>6. QED
  BY <1>1, <1>2, <1>4, <1>5
     DEF Handing, PendingIsNew, AcknowledgedWasIngested

\* The answer to the pending wake was the last thing on its way.
LEMMA HandingAnswered ==
  ASSUME TypeOK, Handing, AcceptReceipt
  PROVE  /\ Handing'
         /\ agent.inbox = NoWake /\ 1 \in Receipts
         /\ agent.output[1].wake = mem.pending
<1>1. TakeLine /\ Answers /\ mem'.pending = NoWake
  BY ReceiptValues
<1>2. /\ 1 \in Receipts /\ agent.output[1].wake = mem.pending
      /\ mem.pending # NoWake
  BY <1>1, ReceiptsAfterLine, LineValues DEF Answers
<1>3. Receipts = {1} /\ agent.inbox = NoWake
  BY <1>2 DEF Handing, OneOutstanding
<1>4. Receipts' = {}
  <2>1. \A i \in Receipts' : i \in 1 .. (Len(agent.output) - 1)
                               /\ i + 1 \in Receipts
    BY <1>1, ReceiptsAfterLine
  <2>2. Len(agent.output) \in Nat
    BY <1>1, ReceiptsAfterLine
  <2>3. QED
    BY <1>3, <2>1, <2>2
<1>5. agent'.inbox = NoWake /\ agent'.ingested = agent.ingested
  BY <1>1, <1>3, LineValues
<1>6. mem'.last <= agent'.ingested
  BY <1>2, <1>5, ReceiptValues
     DEF Handing, ReceiptsAreReal, AcknowledgedWasIngested
<1>7. QED
  BY <1>1, <1>2, <1>3, <1>4, <1>5, <1>6
     DEF Handing, OneOutstanding, ReceiptsAreReal, PendingIsNew,
         AcknowledgedWasIngested, NoWake

\* Saying something adds a receipt only for the pending wake, taken in.
LEMMA ReceiptsAfterSpeech ==
  ASSUME TypeOK, NEW r \in Record, agent'.output = Append(agent.output, r)
  PROVE  /\ r.type # "receipt" => Receipts' = Receipts
         /\ r.type = "receipt" =>
              Receipts' = Receipts \cup {Len(agent.output) + 1}
         /\ \A i \in Receipts : agent'.output[i] = agent.output[i]
         /\ agent'.output[Len(agent.output) + 1] = r
<1>1. agent.output \in Seq(Record)
  BY DEF TypeOK, Child
<1>2. /\ DOMAIN agent.output = 1 .. Len(agent.output)
      /\ Len(agent.output) \in Nat
      /\ DOMAIN agent'.output = 1 .. (Len(agent.output) + 1)
      /\ \A i \in 1 .. Len(agent.output) :
           agent'.output[i] = agent.output[i]
      /\ agent'.output[Len(agent.output) + 1] = r
  BY <1>1, QueueValues
<1>3. QED
  BY <1>2 DEF Receipts

LEMMA HandingSpeaks ==
  ASSUME TypeOK, Handing, Speaks
  PROVE  Handing'
<1>1. PICK r \in Record :
        /\ agent'.output = Append(agent.output, r)
        /\ \/ /\ Ingest /\ r.type = "receipt" /\ r.wake = agent.inbox
              /\ agent.inbox # NoWake /\ agent'.inbox = NoWake
              /\ agent'.ingested = IF agent.inbox.kind = "pointer"
                   THEN agent.inbox.sequence ELSE agent.ingested
           \/ /\ ~Ingest /\ r.type # "receipt"
              /\ agent'.ingested = agent.ingested
              /\ \/ agent'.inbox = agent.inbox
                 \/ Reject /\ agent'.inbox = NoWake
  BY SpeakValues
<1>2. mem' = mem
  BY SpeakValues DEF listenerVars
<1>3. CASE Ingest
  <2> DEFINE n == Len(agent.output) + 1
  <2>1. /\ agent.inbox = mem.pending /\ mem.pending # NoWake
        /\ Receipts = {} /\ r.type = "receipt" /\ r.wake = mem.pending
        /\ agent'.inbox = NoWake
        /\ agent'.ingested = IF mem.pending.kind = "pointer"
             THEN mem.pending.sequence ELSE agent.ingested
    BY <1>1, <1>3 DEF Handing, OneOutstanding
  <2>2. Receipts' = {n} /\ agent'.output[n] = r
    BY <1>1, <2>1, ReceiptsAfterSpeech
  <2> HIDE DEF n
  <2>3. OneOutstanding' /\ PendingIsNew'
    BY <1>2, <2>1, <2>2 DEF OneOutstanding, Handing, PendingIsNew
  <2>4. mem.pending \in Wakes /\ mem.pending.sequence \in Nat
    BY <2>1, WakeValues DEF TypeOK, Object, Wake, Wakes
  <2>5. ReceiptsAreReal'
    BY <2>1, <2>2, <2>4 DEF ReceiptsAreReal
  <2>6. AcknowledgedWasIngested'
    <3>1. mem.last \in Nat
      BY DEF TypeOK, Object
    <3>2. QED
      BY <1>2, <2>1, <2>4, <3>1
         DEF Handing, PendingIsNew, AcknowledgedWasIngested
  <2>7. QED
    BY <2>3, <2>5, <2>6 DEF Handing
<1>4. CASE ~Ingest
  <2>1. /\ Receipts' = Receipts
        /\ \A i \in Receipts : agent'.output[i] = agent.output[i]
        /\ agent'.inbox \in {agent.inbox, NoWake}
        /\ agent'.ingested = agent.ingested
    BY <1>1, <1>4, ReceiptsAfterSpeech
  <2>2. QED
    BY <1>2, <2>1 DEF Handing, OneOutstanding, ReceiptsAreReal,
                      PendingIsNew, AcknowledgedWasIngested
<1>5. QED
  BY <1>3, <1>4

\* What is handed to the agent and what comes back, at every step.
LEMMA HandingStep ==
  ASSUME TypeOK, Handing, [Next]_vars
  PROVE  Handing'
<1>1. CASE Quiet \/ UNCHANGED vars
  BY <1>1, TypeQuiet, HandingKept DEF vars
<1>2. CASE Ends
  <2>1. PICK s \in {"former", "gone"} : LeaveServe(s)
    BY <1>2 DEF Ends, Stop, Fall, Kill
  <2>2. mem'.pending = NoWake /\ mem'.last = 0 /\ agent' = NoAgent
    BY <2>1, LeaveServeValues
  <2>3. agent'.inbox = NoWake /\ agent'.output = <<>> /\ agent'.ingested = 0
    BY <2>2 DEF NoAgent
  <2>4. QED
    BY <2>2, <2>3, HandingAfresh
<1>3. CASE Start
  BY <1>3, StartValues, HandingAfresh
<1>4. CASE Rails
  <2>1. agent.inbox = NoWake /\ Receipts = {}
    BY <1>4, RailValues, NothingOutstanding DEF Rails
  <2>2. Receipts' = {}
    BY <1>4, <2>1, RailValues DEF Rails, Receipts
  <2>3. QED
    BY <1>4, <2>2, RailValues
       DEF Rails, Handing, OneOutstanding, ReceiptsAreReal, PendingIsNew,
           AcknowledgedWasIngested
<1>5. CASE Reads
  BY <1>5, HandingReads
<1>6. CASE AcceptReceipt
  BY <1>6, HandingAnswered
<1>7. CASE Speaks
  BY <1>7, HandingSpeaks
<1>8. CASE AgentExits
  <2>1. Receipts' = {}
    BY <1>8, ExitValues DEF Receipts
  <2>2. mem' = mem
    BY <1>8, ExitValues DEF listenerVars
  <2>3. QED
    BY <1>8, <2>1, <2>2, ExitValues
       DEF Handing, OneOutstanding, ReceiptsAreReal, PendingIsNew,
           AcknowledgedWasIngested
<1>9. CASE PublishProgress
  <2>1. agent' = agent
    BY <1>9 DEF PublishProgress
  <2>2. QED
    BY <1>9, <2>1, PublishValues, HandingKept
<1>10. CASE Tick
  <2>1. agent' = agent /\ mem' = Older(mem) /\ mem \in Object
    BY <1>10 DEF Tick, TypeOK
  <2>2. QED
    BY <2>1, OlderValues, HandingKept
<1>11. QED
  BY <1>1, <1>2, <1>3, <1>4, <1>5, <1>6, <1>7, <1>8, <1>9, <1>10, Kind

-----------------------------------------------------------------------------
(***************************************************************************)
(* The former child, and the count of continuations.                       *)
(***************************************************************************)

\* While a former child lives the rails are not reached.
LEMMA HeldStep ==
  ASSUME TypeOK, HeldAtHead, SessionIsSole, Handing', [Next]_vars
  PROVE  HeldAtHead' /\ SessionIsSole'
<1>1. mem'.pending = NoWake => agent'.inbox = NoWake
  BY DEF Handing, OneOutstanding
<1> SUFFICES ASSUME former'
             PROVE  at' \in {"pointer", "raise"} /\ mem'.pending = NoWake
  BY <1>1 DEF HeldAtHead, SessionIsSole
<1>2. CASE Quiet
  <2>1. mem' = mem
    BY <1>2, TypeQuiet
  <2>2. former
    BY <1>2 DEF Quiet, Save, SaveFails, SessionConflict, SendFails, Pass,
                NoOutput, AgentGone, WriteTerminal, FormerExits,
                OrchestratorPublishes, InboundBreaks, LedgerChanges,
                listenerVars
  <2>3. at \in {"pointer", "raise"} /\ mem.pending = NoWake
    BY <2>2 DEF HeldAtHead, SessionIsSole
  <2>4. at' = at \/ at' = "raise" \/ at' = "pointer"
    BY <1>2, <2>2, <2>3
       DEF Quiet, Save, SaveFails, SessionConflict, SendFails, Pass, Running,
           NoOutput, AssertNotStale, AgentGone, WriteTerminal, FormerExits,
           OrchestratorPublishes, InboundBreaks, LedgerChanges, listenerVars,
           SessionClear
  <2>5. QED
    BY <2>1, <2>3, <2>4
<1>3. CASE Ends
  <2>1. PICK s \in {"former", "gone"} : LeaveServe(s)
    BY <1>3 DEF Ends, Stop, Fall, Kill
  <2>2. QED
    BY <2>1, LeaveServeValues
<1>4. CASE Start
  BY <1>4, StartValues DEF Start
<1>5. CASE Rails
  <2>1. former
    BY <1>5, RailValues DEF Rails
  <2>2. QED
    BY <1>5, <2>1, RailValues DEF Rails, HeldAtHead
<1>6. CASE Reads
  <2>1. mem'.pending = mem.pending /\ former /\ at' \in {"pointer", "raise"}
    BY <1>6, AcceptValues DEF Reads, TakeLine
  <2>2. QED
    BY <2>1 DEF SessionIsSole
<1>7. CASE AcceptReceipt
  BY <1>7, ReceiptValues
<1>8. CASE Speaks \/ AgentExits
  <2>1. UNCHANGED <<listenerVars, former>>
    BY <1>8, SpeakValues, ExitValues
  <2>2. QED
    BY <2>1 DEF listenerVars, HeldAtHead, SessionIsSole
<1>9. CASE PublishProgress
  <2>1. former /\ at' = at /\ mem'.pending = mem.pending
    BY <1>9, PublishValues DEF PublishProgress
  <2>2. QED
    BY <2>1 DEF HeldAtHead, SessionIsSole
<1>10. CASE Tick
  <2>1. former /\ at' = at /\ mem' = Older(mem) /\ mem \in Object
    BY <1>10 DEF Tick, TypeOK
  <2>2. mem'.pending = mem.pending
    BY <2>1, OlderValues
  <2>3. QED
    BY <2>1, <2>2 DEF HeldAtHead, SessionIsSole
<1>11. CASE UNCHANGED vars
  BY <1>11 DEF vars, HeldAtHead, SessionIsSole
<1>12. QED
  BY <1>2, <1>3, <1>4, <1>5, <1>6, <1>7, <1>8, <1>9, <1>10, <1>11, Kind

\* What is counted stays what is remembered, in memory or on disk.
LEMMA CountStep ==
  ASSUME TypeOK, CountIsKept, [Next]_vars
  PROVE  CountIsKept'
<1> USE DEF CountIsKept, Unrecorded, turns
<1>0. /\ mem.cont \in 0..ContinuationCap /\ file.cont \in 0..ContinuationCap
      /\ continued \in Nat /\ forgotten \in Nat
  BY DEF TypeOK, Object, File
<1> USE <1>0
<1>1. CASE Save
  <2>1. /\ file'.cont = mem.cont /\ file'.status = save /\ mem' = mem
        /\ save \in {"open", "closed"}
    BY <1>1 DEF Save, TypeOK
  <2>2. QED
    BY <1>1, <2>1 DEF Save
<1>2. CASE SaveFails
  BY <1>2 DEF SaveFails, ForgetLost
<1>3. CASE \/ SessionConflict \/ SendFails \/ Pass \/ NoOutput \/ AgentGone
           \/ OrchestratorPublishes \/ InboundBreaks \/ LedgerChanges
  <2>1. UNCHANGED <<serving, mem, file, turns>>
    BY <1>3 DEF SessionConflict, SendFails, Pass, NoOutput, AgentGone,
                OrchestratorPublishes, InboundBreaks, LedgerChanges,
                listenerVars
  <2>2. \/ UNCHANGED <<at, save>>
        \/ /\ serving /\ save = Saved /\ at # "raise"
           /\ at' # "heartbeat" \/ save' = Saved
    BY <1>3 DEF SessionConflict, SendFails, Pass, NoOutput, AgentGone,
                OrchestratorPublishes, InboundBreaks, LedgerChanges,
                listenerVars, Running, AssertNotStale
  <2>3. QED
    BY <2>1, <2>2
<1>4. CASE WriteTerminal
  <2>1. file'.cont = 0 /\ file'.status = "terminal"
    BY <1>4, RecordValues DEF WriteTerminal
  <2>2. QED
    BY <1>4, <2>1 DEF WriteTerminal
<1>5. CASE FormerExits
  <2>1. file'.cont = file.cont /\ file'.status = file.status
    BY <1>5 DEF FormerExits, TypeOK, File
  <2>2. QED
    BY <1>5, <2>1 DEF FormerExits
<1>6. CASE Ends
  <2>1. PICK s \in {"former", "gone"} : LeaveServe(s)
    BY <1>6 DEF Ends, Stop, Fall, Kill
  <2>2. /\ serving' = FALSE /\ file'.cont = file.cont /\ save' = Saved
        /\ file'.status = file.status
    BY <2>1, LeaveServeValues DEF Saved
  <2>3. /\ continued' = continued
        /\ forgotten' = IF Unrecorded THEN forgotten + 1 ELSE forgotten
    BY <1>6 DEF Ends, Stop, Fall, Kill, ForgetLost
  <2>4. QED
    BY <2>2, <2>3
<1>7. CASE Start
  <2>1. /\ mem'.cont = file.cont /\ file' = file /\ ~serving
        /\ save' = Saved /\ continued' = continued
        /\ forgotten' = IF file.status = "terminal" THEN continued
                                                    ELSE forgotten
    BY <1>7, StartValues DEF Start, ForgetErased
  <2>2. ~Unrecorded
    BY <2>1
  <2>3. QED
    BY <2>1, <2>2
<1>8. CASE Rails
  <2>1. /\ serving /\ serving' /\ save' # Saved /\ save = Saved
        /\ file' = file /\ at # "raise"
        /\ mem'.cont = IF SendContinuation THEN mem.cont + 1 ELSE mem.cont
    BY <1>8, RailValues DEF Rails, Saved
  <2>2. at' = "heartbeat" <=> SendContinuation
    <3>1. CASE SendContinuation
      BY <3>1 DEF SendContinuation, Send
    <3>2. CASE ~SendContinuation
      BY <1>8, <3>2
         DEF Rails, SendPointer, SendHeartbeat, SendMonitorError, Send
    <3>3. QED
      BY <3>1, <3>2
  <2>3. /\ forgotten' = forgotten
        /\ continued' = IF SendContinuation THEN continued + 1 ELSE continued
    <3>1. CASE SendContinuation
      BY <3>1 DEF SendContinuation
    <3>2. CASE ~SendContinuation
      BY <1>8, <3>2 DEF Rails, SendPointer, SendHeartbeat, SendMonitorError
    <3>3. QED
      BY <3>1, <3>2
  <2>4. QED
    BY <2>1, <2>2, <2>3
<1>9. CASE Reads \/ AcceptReceipt
  <2>1. /\ TakeLine /\ mem'.cont = mem.cont
    BY <1>9, AcceptValues, ReceiptValues DEF Reads
  <2>2. /\ at' # "heartbeat" /\ save = Saved /\ at = "output"
    BY <1>9, <2>1, AcceptValues, ReceiptValues DEF Reads, TakeLine, Running
  <2>3. QED
    BY <2>1, <2>2 DEF TakeLine, Running
<1>10. CASE Speaks \/ AgentExits
  <2>1. UNCHANGED <<listenerVars, turns>>
    BY <1>10, SpeakValues, ExitValues
  <2>2. QED
    BY <2>1 DEF listenerVars
<1>11. CASE PublishProgress
  BY <1>11, PublishValues DEF PublishProgress
<1>12. CASE Tick
  <2>1. /\ mem' = Older(mem) /\ mem \in Object
        /\ file' = Older(file) /\ file \in File
    BY <1>12 DEF Tick, TypeOK
  <2>2. /\ mem'.cont = mem.cont /\ file'.cont = file.cont
        /\ file'.status = file.status
    BY <2>1, OlderValues
  <2>3. QED
    BY <1>12, <2>2 DEF Tick
<1>13. CASE UNCHANGED vars
  BY <1>13 DEF vars
<1>14. QED
  BY <1>1, <1>2, <1>3, <1>4, <1>5, <1>6, <1>7, <1>8, <1>9, <1>10, <1>11,
     <1>12, <1>13, Kind DEF Quiet

\* A wake that is sent is counted below the cap, and nothing else adds to the
\* wakes without adding to the forgotten ones.
LEMMA CappedStep ==
  ASSUME TypeOK, CountIsKept, ContinuationsAccounted, [Next]_vars
  PROVE  ContinuationsAccounted'
<1>0. continued \in Nat /\ forgotten \in Nat
  BY DEF TypeOK
<1> USE <1>0 DEF ContinuationsAccounted, ContinuationCap
<1>1. CASE SendContinuation
  <2>1. /\ serving /\ mem'.cont = mem.cont + 1
        /\ mem'.cont \in 0..ContinuationCap
    BY <1>1, RailValues DEF Object
  <2>2. at = "continuation" /\ mem.cont \in Nat
    BY <1>1 DEF Object, SendContinuation, Running, TypeOK
  <2>3. continued' = continued + 1 /\ forgotten' = forgotten
    BY <1>1 DEF SendContinuation
  <2>4. continued = mem.cont + forgotten
    BY <2>1, <2>2 DEF CountIsKept
  <2>5. QED
    BY <2>1, <2>2, <2>3, <2>4
<1>2. CASE Start
  BY <1>2 DEF Start, ForgetErased
<1>3. CASE PublishProgress
  BY <1>3 DEF PublishProgress
<1>4. CASE ~SendContinuation /\ ~Start /\ ~PublishProgress
  <2>1. /\ continued' = continued
        /\ forgotten' = forgotten \/ forgotten' = forgotten + 1
    <3> USE DEF turns
    <3>1. CASE Quiet
      BY <3>1 DEF Quiet, Save, SaveFails, ForgetLost, SessionConflict,
                  SendFails, Pass, NoOutput, AgentGone, WriteTerminal,
                  FormerExits, OrchestratorPublishes, InboundBreaks,
                  LedgerChanges
    <3>2. CASE Ends
      BY <3>2 DEF Ends, Stop, Fall, Kill, ForgetLost
    <3>3. CASE Rails
      BY <1>4, <3>3 DEF Rails, SendPointer, SendHeartbeat, SendMonitorError
    <3>4. CASE Reads \/ AcceptReceipt
      <4>1. TakeLine
        BY <3>4, AcceptValues, ReceiptValues DEF Reads
      <4>2. QED
        BY <4>1 DEF TakeLine
    <3>5. CASE Speaks \/ AgentExits
      <4>1. UNCHANGED turns
        BY <3>5, SpeakValues, ExitValues
      <4>2. QED
        BY <4>1
    <3>6. CASE Tick \/ UNCHANGED vars
      BY <3>6 DEF Tick, vars
    <3>7. QED
      BY <1>4, <3>1, <3>2, <3>3, <3>4, <3>5, <3>6, Kind
  <2>2. QED
    BY <2>1
<1>5. QED
  BY <1>1, <1>2, <1>3, <1>4

-----------------------------------------------------------------------------
(***************************************************************************)
(* Theorems.                                                               *)
(***************************************************************************)

LEMMA Initially ==
  ASSUME Init
  PROVE  Inv
<1>1. /\ agent.inbox = NoWake /\ agent.output = <<>> /\ agent.ingested = 0
      /\ ~former /\ continued = 0 /\ forgotten = 0 /\ ~serving /\ save = Saved
  BY DEF Init, NoAgent
<1>2. /\ file.status = "terminal" /\ file.cont = 0
  BY RecordValues DEF Init
<1>3. mem.pending = NoWake /\ mem.last = 0
  BY DEF Init, Restored
<1>4. Receipts = {}
  BY <1>1 DEF Receipts
<1>5. Handing
  BY <1>1, <1>3, <1>4
     DEF Handing, OneOutstanding, ReceiptsAreReal, PendingIsNew,
         AcknowledgedWasIngested, NoWake
<1>6. CountIsKept /\ ContinuationsAccounted
  BY <1>1, <1>2 DEF CountIsKept, ContinuationsAccounted, ContinuationCap, Unrecorded
<1>7. QED
  BY <1>1, <1>5, <1>6, TypeInit DEF Inv, HeldAtHead, SessionIsSole

LEMMA Inductive ==
  ASSUME Inv, [Next]_vars
  PROVE  Inv'
BY TypeStep, HandingStep, HeldStep, CountStep, CappedStep DEF Inv

\* The invariant holds in every reachable state of a listener (serve,
\* listener.py:797-880).
THEOREM Invariance == Spec => []Inv
<1>1. Init => Inv
  BY Initially
<1>2. Inv /\ [Next]_vars => Inv'
  BY Inductive
<1>3. QED
  BY <1>1, <1>2, PTL DEF Spec

\* The state of a listener, its file and its agent keep their types (Listener,
\* listener.py:404-430).
THEOREM TypeCorrect == Spec => []TypeOK
<1>1. Inv => TypeOK
  BY DEF Inv
<1>2. QED
  BY <1>1, Invariance, PTL

\* The three rails share one outstanding wake, however many lines an agent
\* writes ahead of the loop and whatever it replays (the guards at
\* listener.py:505, 519 and 604).
THEOREM OneAtATime == Spec => []OneOutstanding
<1>1. Inv => OneOutstanding
  BY DEF Inv, Handing
<1>2. QED
  BY <1>1, Invariance, PTL

\* A sequence is acknowledged only once this session's agent has taken it in
\* (accept_output, listener.py:691-705).
THEOREM AcknowledgedIsReal == Spec => []AcknowledgedWasIngested
<1>1. Inv => AcknowledgedWasIngested
  BY DEF Inv, Handing
<1>2. QED
  BY <1>1, Invariance, PTL

\* No agent is handed anything while a former child holds the session (serve,
\* listener.py:834).
THEOREM SoleSession == Spec => []SessionIsSole
<1>1. Inv => SessionIsSole
  BY DEF Inv
<1>2. QED
  BY <1>1, Invariance, PTL

\* Over any number of restarts, kills and refusals a progress event is continued
\* three times, and once more for each wake of which the record was lost or a
\* terminal state took its place (dispatch_continuation_if_due,
\* listener.py:642-660; write_terminal_state, 84-115).
THEOREM ContinuationsAreAccounted == Spec => []ContinuationsAccounted
<1>1. Inv => ContinuationsAccounted
  BY DEF Inv
<1>2. QED
  BY <1>1, Invariance, PTL

-----------------------------------------------------------------------------
(***************************************************************************)
(* The listener implements Delivery.                                       *)
(***************************************************************************)

\* What became of the pending wake, in the words of the invariant.
StageIsKnown ==
  /\ mem.pending = NoWake => Stage = "none" /\ agent.inbox = NoWake
  /\ agent.inbox # NoWake => Stage = "sent" /\ agent.inbox = mem.pending
  /\ mem.pending # NoWake /\ agent.inbox = NoWake /\ Receipts # {}
       => Stage = "taken"
  /\ mem.pending # NoWake /\ agent.inbox = NoWake /\ Receipts = {}
       => Stage = "lost"

LEMMA StageValues == Inv => StageIsKnown
<1> SUFFICES ASSUME Inv PROVE StageIsKnown
  OBVIOUS
<1>a. TypeOK /\ Handing
  BY DEF Inv
<1>1. ASSUME NEW i \in DOMAIN agent.output
      PROVE  agent.output[i] = Receipt(mem.pending) <=> i \in Receipts
  <2>1. agent.output[i] \in Record
    BY <1>a, QueueValues DEF TypeOK, Child
  <2>2. i \in Receipts => agent.output[i].wake = mem.pending
    BY <1>a DEF Handing, OneOutstanding
  <2>3. i \in Receipts => agent.output[i].type = "receipt"
    BY DEF Receipts
  <2>4. agent.output[i].type = "receipt" /\ agent.output[i].wake = mem.pending
          => agent.output[i] = Receipt(mem.pending)
    BY <2>1 DEF Record, Receipt
  <2>5. Receipt(mem.pending).type = "receipt"
    BY DEF Receipt
  <2>6. QED
    BY <2>2, <2>3, <2>4, <2>5 DEF Receipts
<1>2. (\E i \in DOMAIN agent.output : agent.output[i] = Receipt(mem.pending))
        <=> Receipts # {}
  BY <1>1 DEF Receipts
<1>3. agent.inbox # NoWake => agent.inbox = mem.pending
  BY <1>a DEF Handing, OneOutstanding
<1>4. QED
  BY <1>2, <1>3 DEF Stage, StageIsKnown

LEMMA StageValuesNext == Inv' => StageIsKnown'
BY StageValues, PTL

\* A step that touches neither the pending wake nor the agent's inbox and
\* receipts is a stutter of the handshake.
LEMMA Stutters ==
  ASSUME Inv, Inv',
         mem'.pending = mem.pending, mem'.last = mem.last,
         agent'.inbox = agent.inbox, agent'.ingested = agent.ingested,
         Receipts' = {} <=> Receipts = {}
  PROVE  UNCHANGED Handshake!vars
<1>1. StageIsKnown /\ StageIsKnown'
  BY StageValues, StageValuesNext
<1>2. Stage' = Stage
  BY <1>1 DEF StageIsKnown
<1>3. QED
  BY <1>2 DEF Handshake!vars

\* Every step is a step of the handshake, or a stutter of it.
LEMMA Handshakes ==
  ASSUME Inv, Inv', [Next]_vars
  PROVE  [Handshake!Next]_(Handshake!vars)
<1> DEFINE Same == mem'.pending = mem.pending /\ mem'.last = mem.last
<1>0. StageIsKnown /\ StageIsKnown' /\ TypeOK /\ Handing
  BY StageValues, StageValuesNext DEF Inv
<1>1. CASE Quiet \/ UNCHANGED vars
  <2>1. mem' = mem /\ agent' = agent
    BY <1>0, <1>1, TypeQuiet DEF vars
  <2>2. Receipts' = Receipts
    BY <2>1 DEF Receipts
  <2>3. QED
    BY <2>1, <2>2, Stutters
<1>2. CASE Ends \/ Start
  <2>1. /\ mem'.pending = NoWake /\ mem'.last = 0
        /\ agent'.ingested = 0
    <3>1. CASE Ends
      <4>1. PICK s \in {"former", "gone"} : LeaveServe(s)
        BY <3>1 DEF Ends, Stop, Fall, Kill
      <4>2. mem'.pending = NoWake /\ mem'.last = 0 /\ agent' = NoAgent
        BY <1>0, <4>1, LeaveServeValues
      <4>3. QED
        BY <4>2 DEF NoAgent
    <3>2. CASE Start
      BY <1>0, <3>2, StartValues
    <3>3. QED
      BY <1>2, <3>1, <3>2
  <2>2. Stage' = "none"
    BY <1>0, <2>1 DEF StageIsKnown
  <2>3. Handshake!Restart
    BY <2>1, <2>2 DEF Handshake!Restart
  <2>4. QED
    BY <2>3 DEF Handshake!Next
<1>3. CASE Rails
  <2>1. /\ mem.pending = NoWake /\ mem'.pending \in Wakes
        /\ mem'.pending.kind = "pointer" => mem'.pending.sequence > mem.last
        /\ agent'.inbox = mem'.pending
        /\ mem'.last = mem.last /\ agent'.ingested = agent.ingested
    BY <1>0, <1>3, RailValues DEF Rails
  <2>2. Stage = "none" /\ Stage' = "sent"
    BY <1>0, <2>1, WakeValues DEF StageIsKnown
  <2>3. Handshake!Send
    BY <2>1, <2>2 DEF Handshake!Send
  <2>4. QED
    BY <2>3 DEF Handshake!Next
<1>4. CASE Reads
  <2>1. /\ TakeLine /\ mem'.pending = mem.pending /\ mem'.last = mem.last
        /\ ~Answers
    BY <1>0, <1>4, AcceptValues DEF Reads
  <2>2. agent'.inbox = agent.inbox /\ agent'.ingested = agent.ingested
    BY <1>0, <2>1, LineValues
  <2>3. /\ Receipts' = {i \in 1 .. (Len(agent.output) - 1) :
                          i + 1 \in Receipts}
        /\ Line.type = "receipt" => 1 \in Receipts
        /\ Receipts \subseteq 1 .. Len(agent.output)
        /\ Len(agent.output) \in Nat
        /\ Line = agent.output[1]
    BY <1>0, <2>1, ReceiptsAfterLine, LineValues
  <2>4. 1 \notin Receipts
    <3>1. ASSUME 1 \in Receipts PROVE FALSE
      <4>1. /\ Line.type = "receipt" /\ Line.wake = mem.pending
            /\ Line.wake # NoWake
        BY <1>0, <2>3, <3>1
           DEF Receipts, Handing, OneOutstanding, ReceiptsAreReal
      <4>2. QED
        BY <2>1, <4>1 DEF Answers
    <3>2. QED
      BY <3>1
  <2>5. Receipts' = {} <=> Receipts = {}
    <3>1. ASSUME NEW i \in Receipts PROVE i - 1 \in Receipts'
      BY <2>3, <2>4, <3>1
    <3>2. ASSUME NEW i \in Receipts' PROVE i + 1 \in Receipts
      BY <2>3, <3>2
    <3>3. QED
      BY <3>1, <3>2
  <2>6. QED
    BY <2>1, <2>2, <2>5, Stutters
<1>5. CASE AcceptReceipt
  <2>1. /\ agent.inbox = NoWake /\ 1 \in Receipts /\ TakeLine
        /\ mem.pending # NoWake /\ mem'.pending = NoWake
        /\ mem'.last = IF mem.pending.kind = "pointer"
                         THEN mem.pending.sequence ELSE mem.last
    BY <1>0, <1>5, HandingAnswered, ReceiptValues DEF Answers
  <2>2. agent'.ingested = agent.ingested
    BY <1>0, <2>1, LineValues
  <2>3. Stage = "taken" /\ Stage' = "none"
    BY <1>0, <2>1 DEF StageIsKnown
  <2>4. Handshake!Acknowledge
    BY <2>1, <2>2, <2>3 DEF Handshake!Acknowledge, Handshake!Moved
  <2>5. QED
    BY <2>4 DEF Handshake!Next
<1>6. CASE Speaks
  <2>1. PICK r \in Record :
        /\ agent'.output = Append(agent.output, r)
        /\ \/ /\ Ingest /\ r.type = "receipt" /\ r.wake = agent.inbox
              /\ agent.inbox # NoWake /\ agent'.inbox = NoWake
              /\ agent'.ingested = IF agent.inbox.kind = "pointer"
                   THEN agent.inbox.sequence ELSE agent.ingested
           \/ /\ ~Ingest /\ r.type # "receipt"
              /\ agent'.ingested = agent.ingested
              /\ \/ agent'.inbox = agent.inbox
                 \/ Reject /\ agent'.inbox = NoWake
    BY <1>0, <1>6, SpeakValues
  <2>2. mem' = mem
    BY <1>0, <1>6, SpeakValues DEF listenerVars
  <2>3. CASE Ingest
    <3>1. /\ agent.inbox # NoWake /\ agent'.inbox = NoWake
          /\ mem.pending = agent.inbox /\ r.type = "receipt"
          /\ agent'.ingested = IF mem.pending.kind = "pointer"
               THEN mem.pending.sequence ELSE agent.ingested
      BY <1>0, <2>1, <2>3 DEF StageIsKnown
    <3>2. Receipts' # {}
      BY <1>0, <2>1, <3>1, ReceiptsAfterSpeech
    <3>3. Stage = "sent" /\ Stage' = "taken"
      BY <1>0, <2>2, <3>1, <3>2 DEF StageIsKnown
    <3>4. Handshake!Take
      BY <2>2, <3>1, <3>3 DEF Handshake!Take, Handshake!Moved
    <3>5. QED
      BY <3>4 DEF Handshake!Next
  <2>4. CASE ~Ingest
    <3>1. /\ Receipts' = Receipts /\ agent'.ingested = agent.ingested
          /\ agent'.inbox \in {agent.inbox, NoWake}
      BY <1>0, <2>1, <2>4, ReceiptsAfterSpeech
    <3>2. CASE agent'.inbox = agent.inbox
      BY <2>2, <3>1, <3>2, Stutters
    <3>3. CASE agent'.inbox # agent.inbox
      <4>1. /\ agent.inbox # NoWake /\ agent'.inbox = NoWake
            /\ Receipts' = {} /\ mem.pending # NoWake
        BY <1>0, <3>1, <3>3 DEF Handing, OneOutstanding
      <4>2. Stage = "sent" /\ Stage' = "lost"
        BY <1>0, <2>2, <4>1 DEF StageIsKnown
      <4>3. Handshake!Lose
        BY <2>2, <3>1, <4>2 DEF Handshake!Lose
      <4>4. QED
        BY <4>3 DEF Handshake!Next
    <3>4. QED
      BY <3>2, <3>3
  <2>5. QED
    BY <2>3, <2>4
<1>7. CASE AgentExits
  <2>1. /\ agent'.inbox = NoWake /\ agent.output = <<>>
        /\ agent'.output = <<>> /\ agent'.ingested = agent.ingested
        /\ mem' = mem
    BY <1>0, <1>7, ExitValues DEF listenerVars
  <2>2. Receipts = {} /\ Receipts' = {}
    BY <2>1 DEF Receipts
  <2>3. CASE agent.inbox = NoWake
    BY <2>1, <2>2, <2>3, Stutters
  <2>4. CASE agent.inbox # NoWake
    <3>1. Stage = "sent" /\ Stage' = "lost"
      BY <1>0, <2>1, <2>2, <2>4 DEF StageIsKnown
    <3>2. Handshake!Lose
      BY <2>1, <3>1 DEF Handshake!Lose
    <3>3. QED
      BY <3>2 DEF Handshake!Next
  <2>5. QED
    BY <2>3, <2>4
<1>8. CASE PublishProgress \/ Tick
  <2>1. agent' = agent /\ Same
    <3>1. CASE PublishProgress
      BY <1>0, <3>1, PublishValues DEF PublishProgress
    <3>2. CASE Tick
      <4>1. agent' = agent /\ mem' = Older(mem) /\ mem \in Object
        BY <1>0, <3>2 DEF Tick, TypeOK
      <4>2. QED
        BY <4>1, OlderValues
    <3>3. QED
      BY <1>8, <3>1, <3>2
  <2>2. Receipts' = Receipts
    BY <2>1 DEF Receipts
  <2>3. QED
    BY <2>1, <2>2, Stutters
<1>9. QED
  BY <1>1, <1>2, <1>3, <1>4, <1>5, <1>6, <1>7, <1>8, Kind

\* The loop, its rails and its agent implement the handshake of Delivery: one
\* wake at a time, delivered after it was taken in (serve, listener.py:829-880).
THEOREM ImplementsDelivery == Spec => DeliverySpec
<1>1. Init => Handshake!Init
  <2> SUFFICES ASSUME Init PROVE Handshake!Init
    OBVIOUS
  <2>1. Inv
    BY Initially
  <2>2. agent.ingested = 0 /\ mem.pending = NoWake /\ mem.last = 0
    BY DEF Init, NoAgent, Restored
  <2>3. Stage = "none"
    BY <2>1, <2>2, StageValues DEF StageIsKnown
  <2>4. QED
    BY <2>2, <2>3 DEF Handshake!Init
<1>2. Inv /\ Inv' /\ [Next]_vars => [Handshake!Next]_(Handshake!vars)
  BY Handshakes
<1>3. QED
  BY <1>1, <1>2, Invariance, PTL DEF Spec, DeliverySpec, Handshake!Spec

=============================================================================
