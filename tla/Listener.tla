------------------------------ MODULE Listener ------------------------------
(***************************************************************************)
(* The listener of one role, coordination_substrate/listener.py: the loop  *)
(* of serve(), its three dispatch rails, the agent process it wakes, and   *)
(* the state file that restarts, supervisors and the publisher read.       *)
(*                                                                         *)
(* A rail reads the bridge, decides and writes to the agent's pipe in one  *)
(* step; the state file is written in a step of its own, so a kill can     *)
(* fall between a wake and its record.  One listener serves at a time, by  *)
(* the flock of _singleton(); others are refused or on their way out.      *)
(* The agent, its session and /proc are the environment.  The agent runs   *)
(* under a named session; without one no session check is made.            *)
(*                                                                         *)
(* What the ledger and the role's pointer tell the two self-scheduling     *)
(* rails is one value, `work'; the task identities they compare are part   *)
(* of it, and the optional time-authority epoch is not set.  The statuses  *)
(* of the state file are "open" (running, awaiting-transport-ack), in      *)
(* which the publisher admits the agent, "closed" (the other statuses of   *)
(* a serving listener) and "terminal".                                     *)
(*                                                                         *)
(* A definition named after another with a suffix is a bug variant of it.  *)
(***************************************************************************)
EXTENDS Naturals, Sequences

CONSTANTS
  Errors,       \* what can be wrong with the ledger or the role's pointer
  AckTimeout,   \* topology.ack_timeout_seconds, in ticks
  Stale,        \* topology.heartbeat_stale_seconds, in ticks
  MaxInbound,   \* bound on the orchestrator's sequences
  MaxLines,     \* bound on lines the agent wrote and the loop did not read
  MaxLost,      \* a failure loses the record of a continuation only while
                \* fewer than this many are forgotten
  MaxErased,    \* a terminal state erases the record of so many at most
  NoError

ASSUME TimesAssumption == AckTimeout \in Nat \ {0} /\ Stale \in Nat \ {0}
ASSUME ListenerBoundsAssumption ==
  {MaxInbound, MaxLines, MaxLost, MaxErased} \subseteq Nat
ASSUME ErrorsAssumption ==
  NoError \notin Errors /\ "active" \notin Errors /\ "idle" \notin Errors

VARIABLES
  serving,    \* a listener holds the singleton lock
  at,         \* the next step of the serving loop
  save,       \* the status _write_state() is about to record
  mem,        \* the Listener object
  sent,       \* ticks since the pending wake was sent
  file,       \* the state file
  agent,      \* the child process and its pipes
  former,     \* the child of a killed listener still lives
  inbound,    \* the sequence the orchestrator's pointer reads as, 0 for none
  progress,   \* the role's own pointer and its event
  work,       \* what the ledger says: active, idle or an error
  continued,  \* continuation wakes sent for the role's current event,
  forgotten   \* and those of them of which no record is left

bridge == <<inbound, progress, work>>
turns == <<continued, forgotten>>
vars == <<serving, at, save, mem, sent, file, agent, former, inbound,
          progress, work, turns>>

-----------------------------------------------------------------------------
\* No unsaved status.
Saved == "saved"

\* The most continuation wakes a listener counts for one progress event.
ContinuationCap == 3

NoWake == [kind |-> "none", sequence |-> 0]

Kinds == {"pointer", "continuation", "heartbeat", "monitor-error"}
Wakes == [kind: Kinds, sequence: Nat]

\* A wake of the self-scheduling rails; only a pointer wake is about a sequence.
SelfWake(kind) == [kind |-> kind, sequence |-> 0]

\* A monitor wake that is absent, or too old to hold back the next.
NoMonitorWake == [error |-> NoError, age |-> Stale]

NoAgent ==
  [up |-> FALSE, inbox |-> NoWake, output |-> <<>>, ingested |-> 0]

\* A state file that holds none of the wakes; `child' says whose its child_pid
\* is: the running child's, a former one's, or nobody's.
Blank(status) ==
  [status |-> status, child |-> "gone", cont |-> 0, self |-> Stale,
   mon |-> NoMonitorWake]

\* The listener object of a state file: the three wakes survive, the
\* acknowledged sequence does not, so a restart delivers the pointer again.
Restored(f) ==
  [last |-> 0, pending |-> NoWake, rearm |-> FALSE,
   cont |-> f.cont, self |-> f.self, mon |-> f.mon]

Init ==
  /\ serving = FALSE
  /\ at = "pointer" /\ save = Saved
  /\ file = Blank("terminal")
  /\ mem = Restored(file)
  /\ sent = 0
  /\ agent = NoAgent
  /\ former = FALSE
  /\ inbound = 0
  /\ progress = [continuing |-> TRUE, age |-> 0]
  /\ work \in {"active", "idle"} \cup Errors
  /\ continued = 0 /\ forgotten = 0

-----------------------------------------------------------------------------
(***************************************************************************)
(* A listener starts and ends.                                             *)
(***************************************************************************)

\* A terminal state holds no wake: whatever was counted is forgotten.
ForgetErased ==
  IF file.status = "terminal"
  THEN continued <= MaxErased /\ forgotten' = continued
  ELSE UNCHANGED forgotten

\* Bug variant: the continuation count is not read back.
Start_Recount ==
  /\ ~serving
  /\ serving' = TRUE
  /\ at' = "pointer" /\ save' = Saved /\ sent' = 0
  /\ mem' = [Restored(file) EXCEPT !.cont = 0]
  /\ agent' = [NoAgent EXCEPT !.up = TRUE]
  /\ ForgetErased
  /\ UNCHANGED <<file, former, bridge, continued>>

\* The lock is taken and the child spawned; nothing is written yet.  The
\* session was found free ahead of the lock, which a former child can outdate.
Start ==
  /\ ~serving
  /\ serving' = TRUE
  /\ at' = "pointer" /\ save' = Saved /\ sent' = 0
  /\ mem' = Restored(file)
  /\ agent' = [NoAgent EXCEPT !.up = TRUE]
  /\ ForgetErased
  /\ UNCHANGED <<file, former, bridge, continued>>

\* The serving process is gone, and its flock with it; the state file names a
\* child that lives on, or nobody's.
LeaveServe(survivor) ==
  /\ serving' = FALSE
  /\ at' = "pointer" /\ save' = Saved /\ sent' = 0
  /\ agent' = NoAgent
  /\ file' = [file EXCEPT !.child = IF @ = "agent" THEN survivor ELSE @]
  /\ mem' = Restored(file)

\* SIGTERM, seen at the head of the loop.
Stop ==
  /\ serving /\ at = "pointer" /\ save = Saved
  /\ LeaveServe("gone")
  /\ UNCHANGED <<former, bridge, turns>>

\* An exception leaves serve(), which terminates the child and waits for it.
Fall ==
  /\ serving /\ at = "raise" /\ save = Saved
  /\ LeaveServe("gone")
  /\ UNCHANGED <<former, bridge, turns>>

\* A continuation is on its way and its record is not.
Unrecorded == save # Saved /\ at = "heartbeat" /\ mem.cont > 0

ForgetLost ==
  IF Unrecorded THEN forgotten < MaxLost /\ forgotten' = forgotten + 1
                ELSE UNCHANGED forgotten

\* The listener is killed.  The kernel sends the child a SIGTERM, of which it
\* dies at once or in its own time (one such child at a time).
Kill ==
  /\ serving
  /\ \/ LeaveServe("gone") /\ UNCHANGED former
     \/ agent.up /\ ~former /\ former' = TRUE /\ LeaveServe("former")
  /\ ForgetLost
  /\ UNCHANGED <<bridge, continued>>

FormerExits ==
  /\ former
  /\ former' = FALSE
  /\ file' = [file EXCEPT !.child = IF @ = "former" THEN "gone" ELSE @]
  /\ UNCHANGED <<serving, at, save, mem, sent, agent, bridge, turns>>

\* main() records the end of a listener: one that left serve() a while ago, or
\* one that is refused because another serves, its session is taken or its
\* executable is missing.  Such a process can come along at any time, and one
\* that cannot write the file leaves no trace.
WriteTerminal ==
  /\ file' = Blank("terminal")
  /\ UNCHANGED
       <<serving, at, save, mem, sent, agent, former, bridge, turns>>

-----------------------------------------------------------------------------
(***************************************************************************)
(* The loop.                                                               *)
(***************************************************************************)

Running(label) == serving /\ at = label /\ save = Saved

\* _write_state(), over the atomic replace of _atomic_json().
Save ==
  /\ serving /\ save # Saved
  /\ file' = [status |-> save, child |-> "agent", cont |-> mem.cont,
              self |-> mem.self, mon |-> mem.mon]
  /\ save' = Saved
  /\ UNCHANGED <<serving, at, mem, sent, agent, former, bridge, turns>>

\* The file system refuses: serve() raises with the wake unrecorded.
SaveFails ==
  /\ serving /\ save # Saved
  /\ at' = "raise" /\ save' = Saved
  /\ ForgetLost
  /\ UNCHANGED <<serving, mem, sent, file, agent, former, bridge, continued>>

\* Bug variant: the session is looked up before the lock is taken only.
SessionClear_OnceOnly == TRUE

\* The head of a round: no former child still runs under the session.
SessionClear == ~former

\* A former child does, or some other process.
SessionConflict ==
  /\ Running("pointer")
  /\ at' = "raise" /\ save' = "closed"
  /\ UNCHANGED <<serving, mem, sent, file, agent, former, bridge, turns>>

\* A wake goes down the pipe and becomes the pending one.
Send(wake, object, status, next) ==
  /\ agent.up
  /\ agent' = [agent EXCEPT !.inbox = wake]
  /\ mem' = [object EXCEPT !.pending = wake]
  /\ sent' = 0 /\ save' = status /\ at' = next
  /\ UNCHANGED <<serving, file, former, bridge>>

InboundDue == inbound > mem.last /\ mem.pending = NoWake

SendPointer ==
  /\ Running("pointer") /\ SessionClear
  /\ InboundDue
  /\ Send([kind |-> "pointer", sequence |-> inbound], mem,
          "open", "continuation")
  /\ UNCHANGED turns

\* Bug variant: a wake still on its way does not hold the next one back.
ContinuationDue_Overlapping ==
  /\ work = "active" /\ progress.continuing
  /\ mem.cont > 0 => mem.rearm /\ mem.cont < ContinuationCap

\* Bug variant: turns are counted but not capped.
ContinuationDue_Uncapped ==
  /\ mem.pending = NoWake
  /\ work = "active" /\ progress.continuing
  /\ mem.cont > 0 => mem.rearm

\* Every wake for an event but the first waits for the end of a turn.
ContinuationDue ==
  /\ mem.pending = NoWake
  /\ work = "active" /\ progress.continuing
  /\ mem.cont > 0 => mem.rearm /\ mem.cont < ContinuationCap

SendContinuation ==
  /\ Running("continuation")
  /\ ContinuationDue
  /\ Send(SelfWake("continuation"),
          [mem EXCEPT !.rearm = FALSE, !.cont = @ + 1], "closed", "heartbeat")
  /\ continued' = continued + 1
  /\ UNCHANGED forgotten

\* Bug variant: the rail waits for a turn to end.
HeartbeatDue_AfterTurn ==
  /\ mem.pending = NoWake
  /\ work = "active" /\ progress.age >= Stale
  /\ mem.self >= Stale /\ mem.rearm

\* The role is silent and was not woken for it within the stale window.
HeartbeatDue ==
  /\ mem.pending = NoWake
  /\ work = "active" /\ progress.age >= Stale
  /\ mem.self >= Stale

SendHeartbeat ==
  /\ Running("heartbeat")
  /\ HeartbeatDue
  /\ Send(SelfWake("heartbeat"), [mem EXCEPT !.self = 0], "closed", "output")
  /\ UNCHANGED turns

MonitorFails == mem.pending = NoWake /\ work \in Errors

ReportedLately == mem.mon.error = work /\ mem.mon.age < Stale

SendMonitorError ==
  /\ Running("heartbeat")
  /\ MonitorFails /\ ~ReportedLately
  /\ Send(SelfWake("monitor-error"),
          [mem EXCEPT !.mon = [error |-> work, age |-> 0]],
          "closed", "output")
  /\ UNCHANGED turns

\* A wake to an agent that is gone is a broken pipe.
SendFails ==
  /\ serving /\ save = Saved /\ ~agent.up
  /\ \/ at = "pointer" /\ SessionClear /\ InboundDue
     \/ at = "continuation" /\ ContinuationDue
     \/ at = "heartbeat" /\ HeartbeatDue
     \/ at = "heartbeat" /\ MonitorFails /\ ~ReportedLately
  /\ at' = "raise"
  /\ UNCHANGED
       <<serving, save, mem, sent, file, agent, former, bridge, turns>>

\* A rail has nothing to send; a repeated monitor error is recorded anyway.
Pass ==
  /\ \/ /\ Running("pointer") /\ SessionClear /\ ~InboundDue
        /\ at' = "continuation" /\ save' = Saved
     \/ /\ Running("continuation") /\ ~ContinuationDue
        /\ at' = "heartbeat" /\ save' = Saved
     \/ /\ Running("heartbeat") /\ ~HeartbeatDue /\ ~MonitorFails
        /\ at' = "output" /\ save' = Saved
     \/ /\ Running("heartbeat") /\ MonitorFails /\ ReportedLately
        /\ at' = "output" /\ save' = "open"
  /\ UNCHANGED <<serving, mem, sent, file, agent, former, bridge, turns>>

\* Ticks count when they are over: a wake that saw AckTimeout of them was sent
\* more than AckTimeout ago.
Overdue == mem.pending # NoWake /\ sent >= AckTimeout

\* Bug variant: the deadline does not end the loop.
AssertNotStale_Patient(status) ==
  at' = "pointer" /\ save' = status

\* The end of a round: a wake left unanswered for too long ends the loop,
\* anything else goes on with what the round has to record.
AssertNotStale(status) ==
  IF Overdue THEN at' = "raise" /\ save' = "closed"
             ELSE at' = "pointer" /\ save' = status

\* The next line of the agent's output.
Line == Head(agent.output)

\* Taking it off the queue.
TakeLine ==
  /\ Running("output") /\ agent.output # <<>>
  /\ agent' = [agent EXCEPT !.output = Tail(@)]
  /\ UNCHANGED <<serving, file, former, bridge, turns>>

\* A line that is JSON but no object: accept_output() raises.
AcceptScalar ==
  /\ TakeLine
  /\ Line.type = "scalar"
  /\ at' = "raise"
  /\ UNCHANGED <<save, mem, sent>>

\* A finished turn rearms the continuation rail.
AcceptEnd ==
  /\ TakeLine
  /\ Line.type = "end"
  /\ mem' = [mem EXCEPT !.rearm = TRUE]
  /\ AssertNotStale(IF mem.pending = NoWake THEN "open" ELSE Saved)
  /\ UNCHANGED sent

\* Bug variant: any line that quotes the wake acknowledges it.
Answers_AnyRecord ==
  /\ mem.pending # NoWake
  /\ Line.type \in {"receipt", "echo"} /\ Line.wake = mem.pending

\* Only the agent's replay of the pending wake acknowledges it.
Answers ==
  mem.pending # NoWake /\ Line.type = "receipt" /\ Line.wake = mem.pending

\* Bug variant: the acknowledgement stays in memory.
AcceptReceipt_Unsaved ==
  /\ TakeLine
  /\ Answers
  /\ mem' = [mem EXCEPT
       !.last = IF mem.pending.kind = "pointer" THEN mem.pending.sequence
                                                ELSE @,
       !.pending = NoWake]
  /\ sent' = 0 /\ at' = "pointer" /\ save' = Saved

\* Bug variant: a receipt of whatever wake moves the sequence.
AcceptReceipt_AnyKind ==
  /\ TakeLine
  /\ Answers
  /\ mem' = [mem EXCEPT !.last = mem.pending.sequence, !.pending = NoWake]
  /\ sent' = 0 /\ at' = "pointer" /\ save' = "open"

\* Nothing is pending afterwards, so nothing is overdue.
AcceptReceipt ==
  /\ TakeLine
  /\ Answers
  /\ mem' = [mem EXCEPT
       !.last = IF mem.pending.kind = "pointer" THEN mem.pending.sequence
                                                ELSE @,
       !.pending = NoWake]
  /\ sent' = 0 /\ at' = "pointer" /\ save' = "open"

IgnoreLine ==
  /\ TakeLine
  /\ Line.type \in {"receipt", "echo"} /\ ~Answers
  /\ AssertNotStale(Saved)
  /\ UNCHANGED <<mem, sent>>

\* The queue stayed empty for POLL_SECONDS.
NoOutput ==
  /\ Running("output") /\ agent.output = <<>> /\ agent.up
  /\ AssertNotStale(Saved)
  /\ UNCHANGED <<serving, mem, sent, file, agent, former, bridge, turns>>

\* The reader thread's end-of-file mark.
AgentGone ==
  /\ Running("output") /\ agent.output = <<>> /\ ~agent.up
  /\ at' = "raise"
  /\ UNCHANGED
       <<serving, save, mem, sent, file, agent, former, bridge, turns>>

-----------------------------------------------------------------------------
(***************************************************************************)
(* The environment.                                                        *)
(***************************************************************************)

listenerVars == <<serving, at, save, mem, sent, file>>

AgentSteps(a) ==
  /\ agent.up
  /\ agent' = a
  /\ UNCHANGED <<listenerVars, former, bridge, turns>>

CanSpeak == Len(agent.output) < MaxLines

Says(type, wake) == Append(agent.output, [type |-> type, wake |-> wake])

\* The agent takes the wake in and replays the wake.
Ingest ==
  /\ agent.inbox # NoWake /\ CanSpeak
  /\ AgentSteps([agent EXCEPT
       !.inbox = NoWake, !.output = Says("receipt", agent.inbox),
       !.ingested = IF agent.inbox.kind = "pointer" THEN agent.inbox.sequence
                                                    ELSE @])

\* It rejects the wake and quotes it in an error record.
Reject ==
  /\ agent.inbox # NoWake /\ CanSpeak
  /\ AgentSteps([agent EXCEPT !.inbox = NoWake,
                              !.output = Says("echo", agent.inbox)])

\* It says that a turn ended, once or in two records.
EndTurn == CanSpeak /\ AgentSteps([agent EXCEPT !.output = Says("end", NoWake)])

\* It prints a line of its own that happens to be JSON.
Chatter ==
  CanSpeak /\ AgentSteps([agent EXCEPT !.output = Says("scalar", NoWake)])

\* It dies.  Its last lines are read ahead of the end of file, so a death before
\* they are read is taken for one after.
AgentExits ==
  /\ agent.output = <<>>
  /\ AgentSteps([agent EXCEPT !.up = FALSE, !.inbox = NoWake])

\* No recorded wake is about the event the role publishes now.
Unwoken(w) == [w EXCEPT !.cont = 0, !.self = Stale]

\* The agent publishes: _validate_agent_sender() admits it while the state
\* file names this child, or a former one, in a status of "open".
PublishProgress ==
  /\ file.status = "open"
  /\ \/ file.child = "agent" /\ agent.up
     \/ file.child = "former"
  /\ \E c \in BOOLEAN : progress' = [continuing |-> c, age |-> 0]
  /\ mem' = Unwoken(mem) /\ file' = Unwoken(file)
  /\ continued' = 0 /\ forgotten' = 0
  /\ UNCHANGED <<serving, at, save, sent, agent, former, inbound, work>>

\* The pointer moves on, or reads again.
OrchestratorPublishes ==
  /\ inbound' \in (inbound + 1) .. MaxInbound
  /\ inbound' >= agent.ingested
  /\ UNCHANGED <<listenerVars, agent, former, progress, work, turns>>

\* The pointer, or the event it names, fails validation for a while.
InboundBreaks ==
  /\ inbound # 0
  /\ inbound' = 0
  /\ UNCHANGED <<listenerVars, agent, former, progress, work, turns>>

LedgerChanges ==
  /\ work' \in ({"active", "idle"} \cup Errors) \ {work}
  /\ UNCHANGED <<listenerVars, agent, former, inbound, progress, turns>>

\* An age beyond its limit is not told from the limit.
Aged(age, limit) == IF age < limit THEN age + 1 ELSE age

\* A monitor wake is forgotten at the limit.
OlderMonitor(m) ==
  IF m.age + 1 < Stale THEN [m EXCEPT !.age = @ + 1] ELSE NoMonitorWake

Older(w) == [w EXCEPT !.self = Aged(@, Stale), !.mon = OlderMonitor(@)]

Tick ==
  /\ progress' = [progress EXCEPT !.age = Aged(@, Stale)]
  /\ sent' = IF mem.pending = NoWake THEN sent ELSE Aged(sent, AckTimeout)
  /\ mem' = Older(mem)
  /\ file' = Older(file)
  /\ UNCHANGED <<serving, at, save, agent, former, inbound, work, turns>>

-----------------------------------------------------------------------------
\* What the loop of a serving listener does of its own accord.
Loop ==
  \/ Save \/ SendPointer \/ SendContinuation \/ SendHeartbeat
  \/ SendMonitorError \/ SendFails \/ Pass \/ AcceptEnd \/ AcceptReceipt
  \/ AcceptScalar \/ IgnoreLine \/ NoOutput \/ AgentGone \/ Fall
  \/ former /\ SessionConflict

Agent == Ingest \/ Reject \/ EndTurn \/ Chatter \/ AgentExits \/ PublishProgress

Bridge == OrchestratorPublishes \/ InboundBreaks \/ LedgerChanges

Next ==
  \/ Start \/ Stop \/ Kill \/ FormerExits \/ WriteTerminal
  \/ Loop \/ SaveFails \/ SessionConflict
  \/ Agent \/ Bridge \/ Tick

Spec == Init /\ [][Next]_vars

\* The loop never blocks for longer than POLL_SECONDS and time passes; agents,
\* supervisors and the orchestrator owe nothing.
FairSpec == Spec /\ WF_vars(Loop) /\ WF_vars(Tick)

-----------------------------------------------------------------------------
(***************************************************************************)
(* Properties                                                              *)
(***************************************************************************)

Wake == Wakes \cup {NoWake}

Monitor == [error: Errors \cup {NoError}, age: 0..Stale]

Object == [last: Nat, pending: Wake, rearm: BOOLEAN,
           cont: 0..ContinuationCap, self: 0..Stale, mon: Monitor]

File == [status: {"open", "closed", "terminal"},
         child: {"agent", "former", "gone"},
         cont: 0..ContinuationCap, self: 0..Stale, mon: Monitor]

Record == [type: {"receipt", "echo", "end", "scalar"}, wake: Wake]

Child == [up: BOOLEAN, inbox: Wake, output: Seq(Record), ingested: Nat]

\* The variables hold what the code can put in them; no continuation count in
\* memory or on disk passes the cap.
TypeOK ==
  /\ serving \in BOOLEAN /\ former \in BOOLEAN
  /\ at \in {"pointer", "continuation", "heartbeat", "output", "raise"}
  /\ save \in {"open", "closed", Saved}
  /\ mem \in Object
  /\ file \in File
  /\ agent \in Child
  /\ sent \in 0..AckTimeout
  /\ inbound \in 0..MaxInbound
  /\ progress \in [continuing: BOOLEAN, age: 0..Stale]
  /\ work \in {"active", "idle"} \cup Errors
  /\ continued \in Nat /\ forgotten \in Nat

\* At most one wake is outstanding over all three rails: what the agent has
\* not answered, in its inbox or as a receipt not yet read, is the pending one
\* (Listener, listener.py:404; the guards at 505, 519 and 604).
Receipts == {i \in DOMAIN agent.output : agent.output[i].type = "receipt"}

OneOutstanding ==
  /\ agent.inbox # NoWake => agent.inbox = mem.pending /\ Receipts = {}
  /\ \A i \in Receipts :
       Receipts = {i} /\ agent.output[i].wake = mem.pending

\* The listener never counts as delivered an event the agent of this session
\* has not taken in, whatever records the agent emits (accept_output,
\* listener.py:691-705, LIS-1).
AcknowledgedWasIngested == mem.last <= agent.ingested

\* While a child of a killed listener still lives, and holds the session and
\* may publish, the next listener hands its own agent nothing: the session is
\* looked up at the head of every round, the look before the lock being too
\* early (_die_with_parent, listener.py:118-142; serve, 797 and 834).
SessionIsSole == former => mem.pending = NoWake /\ agent.inbox = NoWake

\* One progress event yields three continuation wakes over any number of
\* restarts, and one more for each that a kill or a failed save kept from being
\* recorded or that was recorded in a state file which a terminal state
\* replaced (dispatch_continuation_if_due, listener.py:642-660).
ContinuationsAccounted == continued <= ContinuationCap + forgotten

\* A newer event of the orchestrator is acknowledged, or the listener ends, or
\* the route moves on or breaks: no rail and no silent agent holds it back
\* (serve, listener.py:829-846).
InboundArrives ==
  \A n \in 1..MaxInbound :
    serving /\ inbound = n ~> ~serving \/ inbound # n \/ mem.last >= n

\* A role that is active and silent is woken for it again and again, unless
\* the listener ends (dispatch_self_wake_if_due, listener.py:517-593).
Silent == serving /\ work = "active" /\ progress.age >= Stale

HeartbeatComes == Silent ~> ~Silent \/ mem.pending.kind = "heartbeat"

\* The state file returns to a status in which the agent may publish: a wake
\* on its way keeps the agent from publishing for a while only
\* (_validate_agent_sender, publisher.py:148; accept_output, listener.py:706).
MayPublish == file.status = "open"

PublishingComesBack ==
  serving /\ file.child = "agent"
    ~> ~serving \/ file.child # "agent" \/ MayPublish

-----------------------------------------------------------------------------
(***************************************************************************)
(* Refinement.                                                             *)
(***************************************************************************)

Receipt(wake) == [type |-> "receipt", wake |-> wake]

\* What became of the pending wake: it is in the agent's inbox, its receipt is
\* on its way, or neither.
Stage ==
  IF mem.pending = NoWake THEN "none"
  ELSE IF agent.inbox # NoWake THEN "sent"
  ELSE IF \E i \in DOMAIN agent.output : agent.output[i] = Receipt(mem.pending)
       THEN "taken" ELSE "lost"

Handshake == INSTANCE Delivery WITH
  wake <- mem.pending, stage <- Stage,
  taken <- agent.ingested, delivered <- mem.last

\* The loop, its rails and its agent implement one handshake at a time.
DeliverySpec == Handshake!Spec

-----------------------------------------------------------------------------
(***************************************************************************)
(* Claims of the repository that the code does not keep.                   *)
(***************************************************************************)

\* A state file tells a dead listener from a busy one: while a listener
\* serves, the file it wrote stays its own (write_terminal_state,
\* listener.py:87-91; main, 901-904).
LiveStateStands ==
  [][serving /\ file.child = "agent" /\ serving' => file'.child = "agent"]_vars

\* The no-progress turns of one progress event are capped, "so a broken agent
\* cannot spin forever" (listener.py:645-650); the docstring of the rail allows
\* but "one persisted wake per role sequence" (listener.py:600).
ContinuationsCapped == continued <= ContinuationCap
=============================================================================
