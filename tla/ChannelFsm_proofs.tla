--------------------------- MODULE ChannelFsm_proofs ---------------------------
(***************************************************************************)
(* What holds of ChannelFsm for every choice of its constants: any number  *)
(* of operations, any set of messages, any length of the queues.  First    *)
(* that nothing is forgotten, and the queue of operations is in order;     *)
(* then the life of an operation: when its request may go out, which       *)
(* handler is in charge of it, when enterState may lose it, and that a     *)
(* closed channel takes none.                                              *)
(***************************************************************************)
EXTENDS ChannelFsm, QueueLemmas

JobKinds == {"act", "loop"}

\* The handlers that ask the user to sign.
SigningHandlers ==
  {"awaitingChannelCreateTx", "channelOpen", "awaitingTxSignRequest",
   "awaitingOffChainTx", "awaitingActionTx", "awaitingContractTx",
   "awaitingForceProgressTx", "awaitingShutdownTx"}

-----------------------------------------------------------------------------
(* The inductive invariant *)

\* The event loop holds one continuation for each lock in use: that of
\* dequeueMessage while it is past a handler, and that of dequeueAction unless
\* its request threw.
JobsOK ==
  /\ Once(jobs)
  /\ loop \in {"enter", "next"} <=> Has(jobs, "loop")
  /\ Has(jobs, "act") <=> act # NoOp /\ phase[act] # "unsent"

\* dequeueMessage waits for a signature only on behalf of a handler that asked
\* for one, and it is idle or stuck for the right reasons only.
LoopOK ==
  /\ loop = "sign" => cur \in FsmStates /\ cur.h \in SigningHandlers
  /\ msgQueue # <<>> => loop # "idle"
  /\ loop = "stuck" => ~ErrorListener

\* The action queue holds exactly the queued operations, each once, and none
\* while the channel is open and the lock is free.
ActionsOK ==
  /\ Once(actQueue)
  /\ \A o \in Ops : Has(actQueue, o) <=> phase[o] = "queued"
  /\ actQueue # <<>> /\ act = NoOp => fsm.h # "channelOpen"

IInv == TypeOK /\ JobsOK /\ LoopOK /\ ActionsOK

-----------------------------------------------------------------------------
(* What the parts of a step do *)

\* A step that settles at most one promise and touches no other phase.
Settling ==
  \/ UNCHANGED phase
  \/ \E o \in Ops \cup {NoOp}, p \in Outstanding \cup Settled : Settle(o, p)

\* Settling keeps the types, and neither queues nor requests an operation.
LEMMA SettlingKeeps ==
  ASSUME phase \in [Ops -> Phases], Settling
  PROVE  /\ phase' \in [Ops -> Phases]
         /\ \A o \in Ops : phase[o] \notin Outstanding => phase'[o] = phase[o]
         /\ \A o \in Ops : phase[o] \in Outstanding
                             => phase'[o] \in Outstanding \cup Settled
<1>1. CASE UNCHANGED phase
  BY <1>1
<1>2. ASSUME NEW o \in Ops \cup {NoOp}, NEW p \in Outstanding \cup Settled, Settle(o, p)
      PROVE  /\ phase' \in [Ops -> Phases]
             /\ \A x \in Ops : phase[x] \notin Outstanding => phase'[x] = phase[x]
             /\ \A x \in Ops : phase[x] \in Outstanding
                                 => phase'[x] \in Outstanding \cup Settled
  BY <1>2 DEF Settle, Phases
<1> QED BY <1>1, <1>2 DEF Settling

\* What a handler leaves behind: it is done, or it waits for the user or a reply.
HandlerDone ==
  /\ status' \in Statuses
  /\ chanState' \in States \cup {NoState}
  /\ ids' \in SUBSET {"channel", "fsm"}
  /\ ws' \in {"open", "closing", "closed"}
  /\ next' \in FsmStates \cup {Nowhere}
  /\ \/ loop' = "enter"
     \/ loop' = "rpc"
     \/ loop' = "sign" /\ fsm.h \in SigningHandlers

\* A message of the node is one of those AllMessages describes.
LEMMA UpdateCarriesState ==
  ASSUME NEW m \in Messages, m.m = "update"
  PROVE  m.d \in States
BY ChannelAssumption DEF AllMessages

\* The ways a handler ends.
LEMMA Ends ==
  ASSUME TypeOK, NEW h \in Handlers, NEW o \in Ops \cup {NoOp}
  PROVE  /\ GotoWith(h, o) => loop' = "enter" /\ next' \in FsmStates
         /\ Goto(h) => loop' = "enter" /\ next' \in FsmStates
         /\ Fail => loop' = "enter" /\ next' \in FsmStates \cup {Nowhere}
         /\ AskSign => loop' = "sign" /\ next' = next
         /\ HandleUnexpectedMessage(o)
              => Settling /\ loop' = "enter" /\ next' \in FsmStates
BY DEF GotoWith, Goto, Fail, AskSign, HandleUnexpectedMessage, Settling,
       FsmStates, Handlers, Settled

\* Every handler but channelOpen is done with a message after one of its ends,
\* and settles the promise of its own operation at most.
LEMMA HandleType ==
  ASSUME TypeOK, NEW m \in Messages, Handle(m)
  PROVE  HandlerDone /\ Settling
<1> USE DEF HandlerDone, Info, Sign
<1>0. /\ fsm.op \in Ops \cup {NoOp} /\ fsm.h \in Handlers
      /\ status \in Statuses /\ chanState \in States \cup {NoState}
      /\ ids \in SUBSET {"channel", "fsm"}
      /\ ws \in {"open", "closing", "closed"}
      /\ next \in FsmStates \cup {Nowhere}
  BY DEF TypeOK, FsmStates
<1>s. \A p : Settle(fsm.op, p) /\ p \in Outstanding \cup Settled => Settling
  BY <1>0 DEF Settling
<1>a. /\ \A h \in Handlers : GotoWith(h, fsm.op) => loop' = "enter" /\ next' \in FsmStates
      /\ \A h \in Handlers : Goto(h) => loop' = "enter" /\ next' \in FsmStates
      /\ Fail => loop' = "enter" /\ next' \in FsmStates \cup {Nowhere}
      /\ AskSign => loop' = "sign" /\ next' = next
      /\ HandleUnexpectedMessage(fsm.op)
           => Settling /\ loop' = "enter" /\ next' \in FsmStates
      /\ AwaitingCompletion(m, fsm.op)
           => Settling /\ loop' = "enter" /\ next' \in FsmStates
  BY <1>0, <1>s, Ends DEF AwaitingCompletion, Settled, Handlers
<1>b. AwaitingSuccess(m)
        => /\ Settling /\ loop' = "enter" /\ next' \in FsmStates
           /\ chanState' \in States \cup {NoState}
  BY <1>0, <1>s, <1>a, UpdateCarriesState DEF AwaitingSuccess, Settled, Handlers
<1>c. UNCHANGED phase => Settling
  BY DEF Settling
<1>1. CASE fsm.h = "awaitingConnection" /\ AwaitingConnection(m)
  BY <1>1, <1>0, <1>a, <1>c DEF AwaitingConnection, Statuses, Handlers
<1>2. CASE fsm.h = "awaitingReestablish" /\ AwaitingReestablish(m)
  BY <1>2, <1>0, <1>a, <1>c DEF AwaitingReestablish, Handlers
<1>3. CASE fsm.h = "awaitingChannelReestablished" /\ AwaitingChannelReestablished(m)
  BY <1>3, <1>0, <1>a, <1>c DEF AwaitingChannelReestablished, Handlers
<1>4. CASE fsm.h = "awaitingReconnection" /\ AwaitingReconnection(m)
  BY <1>4, <1>0, <1>a, <1>c DEF AwaitingReconnection, Handlers
<1>5. CASE fsm.h = "awaitingChannelCreateTx" /\ AwaitingChannelCreateTx(m)
  BY <1>5, <1>0, <1>a, <1>c DEF AwaitingChannelCreateTx, SigningHandlers
<1>6. CASE fsm.h = "awaitingOnChainTx" /\ AwaitingOnChainTx(m)
  BY <1>6, <1>0, <1>a, <1>c DEF AwaitingOnChainTx, Statuses, Handlers
<1>7. CASE fsm.h = "awaitingBlockInclusion" /\ AwaitingBlockInclusion(m)
  BY <1>7, <1>0, <1>a, <1>c DEF AwaitingBlockInclusion, Handlers
<1>8. CASE fsm.h = "awaitingOpenConfirmation" /\ AwaitingOpenConfirmation(m)
  BY <1>8, <1>0, <1>a, <1>c DEF AwaitingOpenConfirmation, Handlers
<1>9. CASE fsm.h = "awaitingChannelsUpdate" /\ AwaitingChannelsUpdate(m)
  BY <1>9, <1>0, <1>a, <1>c, UpdateCarriesState DEF AwaitingChannelsUpdate, Handlers
<1>10. CASE fsm.h = "awaitingTxSignRequest" /\ AwaitingTxSignRequest(m)
  BY <1>10, <1>0, <1>a, <1>c DEF AwaitingTxSignRequest, SigningHandlers
<1>11. CASE fsm.h = "awaitingUpdateConflict" /\ AwaitingUpdateConflict(m)
  BY <1>11, <1>0, <1>a, <1>c DEF AwaitingUpdateConflict, Handlers
<1>12. CASE fsm.h = "awaitingOffChainTx" /\ AwaitingOffChainTx(m)
  BY <1>12, <1>0, <1>a, <1>c, <1>s DEF AwaitingOffChainTx, SigningHandlers, Settled, Handlers
<1>13. CASE fsm.h = "awaitingUpdateCompletion" /\ AwaitingUpdateCompletion(m)
  BY <1>13, <1>0, <1>b DEF AwaitingUpdateCompletion
<1>14. CASE fsm.h = "awaitingActionTx" /\ AwaitingActionTx(m)
  BY <1>14, <1>0, <1>a, <1>c DEF AwaitingActionTx, SigningHandlers
<1>15. CASE fsm.h = "awaitingActionCompletion" /\ AwaitingActionCompletion(m)
  BY <1>15, <1>0, <1>a, <1>b, <1>c DEF AwaitingActionCompletion, Handlers, OpHandlers
<1>16. CASE fsm.h = "awaitingContractTx" /\ AwaitingContractTx(m)
  BY <1>16, <1>0, <1>a, <1>c DEF AwaitingContractTx, SigningHandlers
<1>17. CASE fsm.h = "awaitingContractCompletion" /\ AwaitingContractCompletion(m)
  BY <1>17, <1>0, <1>a, <1>b, <1>c DEF AwaitingContractCompletion
<1>18. CASE fsm.h = "awaitingForceProgressTx" /\ AwaitingForceProgressTx(m)
  BY <1>18, <1>0, <1>a, <1>c DEF AwaitingForceProgressTx, SigningHandlers
<1>19. CASE fsm.h = "awaitingForceProgressOnChain" /\ AwaitingForceProgressOnChain(m)
  BY <1>19, <1>0, <1>a, <1>s DEF AwaitingForceProgressOnChain, Settled, Handlers
<1>20. CASE fsm.h = "awaitingCallsPruned" /\ AwaitingCallsPruned(m)
  BY <1>20, <1>0, <1>a, <1>s DEF AwaitingCallsPruned, Settled, Handlers
<1>21. CASE fsm.h = "awaitingLeave" /\ AwaitingLeave(m)
  BY <1>21, <1>0, <1>a, <1>s DEF AwaitingLeave, Settled, Handlers
<1>22. CASE fsm.h = "awaitingShutdownTx" /\ AwaitingShutdownTx(m)
  BY <1>22, <1>0, <1>a, <1>c DEF AwaitingShutdownTx, SigningHandlers
<1>23. CASE fsm.h = "awaitingShutdownOnChain" /\ AwaitingShutdownOnChain(m)
  BY <1>23, <1>0, <1>a, <1>c DEF AwaitingShutdownOnChain, Handlers
<1>24. CASE fsm.h = "channelClosed" /\ ChannelClosed(m)
  BY <1>24, <1>0, <1>a, <1>s, <1>c DEF ChannelClosed, Settled, Outstanding, Handlers
<1> QED
  BY <1>1, <1>2, <1>3, <1>4, <1>5, <1>6, <1>7, <1>8, <1>9, <1>10, <1>11, <1>12,
     <1>13, <1>14, <1>15, <1>16, <1>17, <1>18, <1>19, <1>20, <1>21, <1>22,
     <1>23, <1>24 DEF Handle

\* So is channelOpen, which leaves the promises to the user's listeners.
LEMMA ChannelOpenType ==
  ASSUME TypeOK, NEW m \in Messages, fsm.h = "channelOpen", ChannelOpen(m)
  PROVE  HandlerDone
<1>0. /\ status \in Statuses /\ chanState \in States \cup {NoState}
      /\ ids \in SUBSET {"channel", "fsm"}
      /\ ws \in {"open", "closing", "closed"}
      /\ next \in FsmStates \cup {Nowhere}
      /\ fsm.op \in Ops \cup {NoOp} /\ fsm.h \in Handlers
  BY DEF TypeOK, FsmStates
<1>a. /\ \A h \in Handlers : Goto(h) => loop' = "enter" /\ next' \in FsmStates
      /\ Fail => loop' = "enter" /\ next' \in FsmStates \cup {Nowhere}
      /\ AskSign => loop' = "sign" /\ next' = next
  BY <1>0, Ends
<1> QED
  BY <1>0, <1>a, UpdateCarriesState
  DEF ChannelOpen, HandlerDone, Info, Sign, Statuses, Handlers, SigningHandlers

-----------------------------------------------------------------------------
(* What dequeueAction does to the queue, to its lock and to the event loop *)

\* It moves the head of the queue into the lock or leaves both alone, and the
\* queue it leaves is not one that it could have served.
LEMMA DequeueQueue ==
  ASSUME TypeOK, NEW h, NEW q \in Seq(Ops), NEW ph \in [Ops -> Phases], Once(q),
         \A o \in Ops : Has(q, o) <=> ph[o] = "queued",
         DequeueAction(h, q, ph)
  PROVE  /\ actQueue' \in Seq(Ops)
         /\ act' \in Ops \cup {NoOp}
         /\ phase' \in [Ops -> Phases]
         /\ Once(actQueue')
         /\ \A o \in Ops : Has(actQueue', o) <=> phase'[o] = "queued"
         /\ actQueue' # <<>> /\ act' = NoOp => h # "channelOpen"
<1>0. act \in Ops \cup {NoOp} /\ NoOp \notin Ops
  BY ChannelAssumption DEF TypeOK
<1>1. CASE act = NoOp /\ q # <<>> /\ h = "channelOpen"
  <2>1. /\ actQueue' = Tail(q)
        /\ act' = Head(q)
        /\ phase' = [ph EXCEPT ![Head(q)] = IF SendFails THEN "unsent" ELSE "started"]
    BY <1>1 DEF DequeueAction
  <2>2. Tail(q) \in Seq(Ops) /\ Once(Tail(q)) /\ Head(q) \in Ops
    BY <1>1, OnceTail
  <2>3. phase' \in [Ops -> Phases]
    BY <2>1, <2>2 DEF Phases, Outstanding
  <2>4. ASSUME NEW o \in Ops PROVE Has(Tail(q), o) <=> phase'[o] = "queued"
    <3>1. Has(Tail(q), o) <=> Has(q, o) /\ o # Head(q)
      BY <1>1, HasTail
    <3> QED BY <2>1, <2>2, <3>1
  <2> QED BY <1>0, <2>1, <2>2, <2>3, <2>4
<1>2. CASE ~ (act = NoOp /\ q # <<>> /\ h = "channelOpen")
  BY <1>0, <1>2 DEF DequeueAction
<1> QED BY <1>1, <1>2

\* Its continuation is due in the event loop when, and only when, it took the
\* lock and its request did not throw.
LEMMA DequeueJobs ==
  ASSUME TypeOK, JobsOK, NEW h, NEW q \in Seq(Ops), NEW ph \in [Ops -> Phases],
         act # NoOp => (ph[act] = "unsent" <=> phase[act] = "unsent"),
         DequeueAction(h, q, ph),
         NEW j \in Seq(JobKinds), Once(j), Has(j, "act") <=> Has(jobs, "act")
  PROVE  /\ j \o ActionJob \in Seq(JobKinds)
         /\ Once(j \o ActionJob)
         /\ Has(j \o ActionJob, "loop") <=> Has(j, "loop")
         /\ Has(j \o ActionJob, "act") <=> act' # NoOp /\ phase'[act'] # "unsent"
<1>1. NoOp \notin Ops /\ act \in Ops \cup {NoOp}
  BY ChannelAssumption DEF TypeOK
<1>2. ActionJob \in {<<>>, <<"act">>}
  BY DEF ActionJob
<1>3. Has(j, "act") => ActionJob = <<>>
  BY DEF ActionJob, JobsOK
<1>4. /\ j \o ActionJob \in Seq(JobKinds)
      /\ Once(j \o ActionJob)
      /\ \A y : Has(j \o ActionJob, y) <=> Has(j, y) \/ (ActionJob = <<"act">> /\ y = "act")
  <2>1. "act" \in JobKinds
    BY DEF JobKinds
  <2> QED BY <1>2, <1>3, <2>1, Extend
<1>5. ActionJob = <<"act">> <=> act = NoOp /\ act' # NoOp /\ ~SendFails
  BY DEF ActionJob
<1>6. Has(j \o ActionJob, "act") => act' # NoOp /\ phase'[act'] # "unsent"
  <2>1. CASE act = NoOp
    <3>1. ASSUME act' # NoOp
          PROVE  phase'[act'] = IF SendFails THEN "unsent" ELSE "started"
      BY <2>1, <3>1, HeadTailProperties DEF DequeueAction
    <3> QED BY <1>4, <1>5, <2>1, <3>1 DEF JobsOK
  <2>2. CASE act # NoOp
    <3>1. act' = act /\ phase' = ph
      BY <2>2 DEF DequeueAction
    <3> QED BY <1>4, <1>5, <2>2, <3>1 DEF JobsOK
  <2> QED BY <2>1, <2>2
<1>7. ASSUME act' # NoOp, phase'[act'] # "unsent" PROVE Has(j \o ActionJob, "act")
  <2>1. CASE act = NoOp
    <3>1. Head(q) \in Ops /\ phase'[act'] = IF SendFails THEN "unsent" ELSE "started"
      BY <1>7, <2>1, HeadTailProperties DEF DequeueAction
    <3> QED BY <1>4, <1>5, <1>7, <2>1, <3>1
  <2>2. CASE act # NoOp
    <3>1. act' = act /\ phase' = ph
      BY <2>2 DEF DequeueAction
    <3> QED BY <1>4, <1>7, <2>2, <3>1 DEF JobsOK
  <2> QED BY <2>1, <2>2
<1> QED BY <1>4, <1>5, <1>6, <1>7

\* enqueueAction puts a new operation at the end before dequeueAction runs.
LEMMA Enqueued ==
  ASSUME TypeOK, ActionsOK, NEW o \in Ops, phase[o] = "idle"
  PROVE  /\ Append(actQueue, o) \in Seq(Ops)
         /\ Once(Append(actQueue, o))
         /\ [phase EXCEPT ![o] = "queued"] \in [Ops -> Phases]
         /\ \A x \in Ops : Has(Append(actQueue, o), x)
                             <=> [phase EXCEPT ![o] = "queued"][x] = "queued"
         /\ act # NoOp => (  [phase EXCEPT ![o] = "queued"][act] = "unsent"
                           <=> phase[act] = "unsent")
<1>1. actQueue \in Seq(Ops) /\ phase \in [Ops -> Phases] /\ act \in Ops \cup {NoOp}
  BY DEF TypeOK
<1>2. Append(actQueue, o) = actQueue \o <<o>>
  BY <1>1, AppendIsConcat
<1>3. ~ Has(actQueue, o)
  BY DEF ActionsOK
<1>4. /\ actQueue \o <<o>> \in Seq(Ops)
      /\ Once(actQueue \o <<o>>)
      /\ \A y : Has(actQueue \o <<o>>, y) <=> Has(actQueue, y) \/ y = o
  BY <1>1, <1>3, Extend DEF ActionsOK
<1>5. [phase EXCEPT ![o] = "queued"] \in [Ops -> Phases]
  BY <1>1 DEF Phases
<1>6. \A x \in Ops : Has(actQueue, x) \/ x = o
                       <=> [phase EXCEPT ![o] = "queued"][x] = "queued"
  BY <1>1 DEF ActionsOK
<1> QED BY <1>1, <1>2, <1>4, <1>5, <1>6

-----------------------------------------------------------------------------
(* Every step preserves the invariant *)

\* The continuation of dequeueMessage is due when it neither waits nor is stuck.
LEMMA LoopJobs ==
  ASSUME NEW k \in Seq(JobKinds), Once(k), ~ Has(k, "loop")
  PROVE  /\ k \o LoopJob \in Seq(JobKinds)
         /\ Once(k \o LoopJob)
         /\ Has(k \o LoopJob, "act") <=> Has(k, "act")
         /\ loop' \in {"enter", "next"} <=> Has(k \o LoopJob, "loop")
<1>1. /\ LoopJob \in {<<>>, <<"loop">>}
      /\ LoopJob = <<"loop">> <=> loop' \in {"enter", "next"}
  BY DEF LoopJob
<1>2. "loop" \in JobKinds
  BY DEF JobKinds
<1>3. /\ k \o LoopJob \in Seq(JobKinds)
      /\ Once(k \o LoopJob)
      /\ \A y : Has(k \o LoopJob, y) <=> Has(k, y) \/ (LoopJob = <<"loop">> /\ y = "loop")
  BY <1>1, <1>2, Extend
<1> QED BY <1>1, <1>3

\* handleMessage, whoever calls it with the rest of the jobs j.
LEMMA HandleMessageStep ==
  ASSUME IInv, NEW m \in Messages, NEW j \in Seq(JobKinds), Once(j),
         ~ Has(j, "loop"), Has(j, "act") <=> Has(jobs, "act"),
         HandleMessage(m, j), msgQueue' \in Seq(Messages)
  PROVE  IInv'
<1> USE DEF IInv
<1>1. fsm' = fsm /\ chats' = chats /\ cur' = fsm
  BY DEF HandleMessage
<1>2. HandlerDone
  BY HandleType, ChannelOpenType DEF HandleMessage
<1>3. LoopOK'
  BY <1>1, <1>2 DEF LoopOK, HandlerDone, TypeOK
<1>t. told' \in {"nothing", "open", "state", "unexpected"}
  BY DEF HandleMessage, Told, TypeOK
<1>4. CASE Handle(m) /\ jobs' = j \o LoopJob /\ UNCHANGED <<actQueue, act>>
  <2>1. /\ phase' \in [Ops -> Phases]
        /\ \A o \in Ops : phase[o] \notin Outstanding => phase'[o] = phase[o]
        /\ \A o \in Ops : phase[o] \in Outstanding
                            => phase'[o] \in Outstanding \cup Settled
    BY <1>4, HandleType, SettlingKeeps DEF TypeOK
  <2>2. /\ jobs' \in Seq(JobKinds)
        /\ Once(jobs')
        /\ Has(jobs', "act") <=> Has(jobs, "act")
        /\ loop' \in {"enter", "next"} <=> Has(jobs', "loop")
    BY <1>4, LoopJobs
  <2>3. TypeOK'
    BY <1>1, <1>2, <1>t, <1>4, <2>1, <2>2 DEF TypeOK, HandlerDone, JobKinds
  <2>4. act # NoOp => (phase'[act] = "unsent" <=> phase[act] = "unsent")
    BY <2>1 DEF TypeOK, Outstanding, Settled
  <2>5. JobsOK'
    BY <1>4, <2>2, <2>4 DEF JobsOK
  <2>6. \A o \in Ops : phase'[o] = "queued" <=> phase[o] = "queued"
    BY <2>1 DEF Outstanding, Settled
  <2>7. ActionsOK'
    BY <1>1, <1>4, <2>6 DEF ActionsOK
  <2> QED BY <1>3, <2>3, <2>5, <2>7
<1>5. CASE jobs' = j \o LoopJob /\ UNCHANGED <<actQueue, act, phase>>
  <2>1. /\ jobs' \in Seq(JobKinds)
        /\ Once(jobs')
        /\ Has(jobs', "act") <=> Has(jobs, "act")
        /\ loop' \in {"enter", "next"} <=> Has(jobs', "loop")
    BY <1>5, LoopJobs
  <2>2. TypeOK'
    BY <1>1, <1>2, <1>t, <1>5, <2>1 DEF TypeOK, HandlerDone, JobKinds
  <2>3. JobsOK' /\ ActionsOK'
    BY <1>1, <1>5, <2>1 DEF JobsOK, ActionsOK
  <2> QED BY <1>3, <2>2, <2>3
<1>6. ASSUME NEW o \in Ops, EnqueueAction(o), jobs' = j \o ActionJob \o LoopJob
      PROVE  IInv'
  <2> DEFINE q == Append(actQueue, o)
             ph == [phase EXCEPT ![o] = "queued"]
  <2>1. phase[o] = "idle" /\ DequeueAction(fsm.h, q, ph)
    BY <1>6 DEF EnqueueAction
  <2>2. /\ q \in Seq(Ops) /\ Once(q) /\ ph \in [Ops -> Phases]
        /\ \A x \in Ops : Has(q, x) <=> ph[x] = "queued"
        /\ act # NoOp => (ph[act] = "unsent" <=> phase[act] = "unsent")
    BY <2>1, Enqueued
  <2> HIDE DEF q, ph
  <2>3. /\ actQueue' \in Seq(Ops) /\ act' \in Ops \cup {NoOp}
        /\ phase' \in [Ops -> Phases] /\ Once(actQueue')
        /\ \A x \in Ops : Has(actQueue', x) <=> phase'[x] = "queued"
        /\ actQueue' # <<>> /\ act' = NoOp => fsm.h # "channelOpen"
    BY <2>1, <2>2, DequeueQueue
  <2>4. /\ j \o ActionJob \in Seq(JobKinds) /\ Once(j \o ActionJob)
        /\ ~ Has(j \o ActionJob, "loop")
        /\ Has(j \o ActionJob, "act") <=> act' # NoOp /\ phase'[act'] # "unsent"
    BY <2>1, <2>2, DequeueJobs
  <2>5. /\ jobs' \in Seq(JobKinds)
        /\ Once(jobs')
        /\ Has(jobs', "act") <=> Has(j \o ActionJob, "act")
        /\ loop' \in {"enter", "next"} <=> Has(jobs', "loop")
    BY <1>6, <2>4, LoopJobs
  <2>6. TypeOK'
    BY <1>1, <1>2, <1>t, <2>3, <2>5 DEF TypeOK, HandlerDone, JobKinds
  <2>7. JobsOK' /\ ActionsOK'
    BY <1>1, <2>3, <2>4, <2>5 DEF JobsOK, ActionsOK
  <2> QED BY <1>3, <2>6, <2>7
<1> QED BY <1>4, <1>5, <1>6 DEF HandleMessage

\* The first continuation of the event loop, and what is left without it.
LEMMA NextJob ==
  ASSUME TypeOK, JobsOK, jobs # <<>>
  PROVE  /\ Tail(jobs) \in Seq(JobKinds) /\ Once(Tail(jobs))
         /\ Has(jobs, Head(jobs))
         /\ \A x : Has(Tail(jobs), x) <=> Has(jobs, x) /\ x # Head(jobs)
BY OnceTail, HasTail DEF TypeOK, JobsOK, JobKinds

\* An operation's handler is not channelOpen.
LEMMA FirstHandlerType ==
  ASSUME NEW o \in Ops
  PROVE  FirstHandler[Kind[o]] \in Handlers \ {"channelOpen"}
<1>1. Kind[o] \in Kinds
  BY ChannelAssumption
<1> QED BY <1>1 DEF Kinds, FirstHandler, Handlers, OpHandlers

\* The handler a signature or a refusal leads to.
LEMMA AfterSignType ==
  ASSUME cur \in FsmStates, cur.h \in SigningHandlers, NEW r
  PROVE  AfterSign(r) \in FsmStates
<1>1. AfterSigned[cur.h] \in Handlers /\ AfterRefused[cur.h] \in Handlers
  <2>1. AfterSigned \in [SigningHandlers -> Handlers]
    BY DEF SigningHandlers, AfterSigned, Handlers, OpHandlers
  <2>2. AfterRefused \in [SigningHandlers -> Handlers]
    BY <2>1 DEF AfterRefused, Handlers, OpHandlers
  <2> QED BY <2>1, <2>2
<1>2. cur.op \in Ops \cup {NoOp}
  BY DEF FsmStates
<1> QED BY <1>1, <1>2 DEF AfterSign, FsmStates

\* The invariant holds at first,
LEMMA InitInvariant == Init => IInv
<1> SUFFICES ASSUME Init PROVE IInv
  OBVIOUS
<1>1. TypeOK
  BY ChannelAssumption
  DEF Init, TypeOK, FsmStates, Handlers, StartHandlers, Statuses, Phases
<1>2. JobsOK
  BY HasEmpty DEF Init, JobsOK
<1>3. LoopOK
  BY DEF Init, LoopOK
<1>4. ActionsOK
  BY HasEmpty DEF Init, ActionsOK
<1> QED BY <1>1, <1>2, <1>3, <1>4 DEF IInv

\* and no step breaks it.
LEMMA StepInvariant == IInv /\ [Next]_vars => IInv'
<1> SUFFICES ASSUME IInv, [Next]_vars PROVE IInv'
  OBVIOUS
<1> USE DEF IInv
<1>0. /\ act \in Ops \cup {NoOp} /\ NoOp \notin Ops
      /\ phase \in [Ops -> Phases] /\ msgQueue \in Seq(Messages)
      /\ actQueue \in Seq(Ops) /\ jobs \in Seq(JobKinds)
  BY ChannelAssumption DEF TypeOK, JobKinds
<1>1. CASE ActionEntered
  <2>1. act # NoOp /\ act \in Ops
    BY <1>0, <1>1, NextJob DEF ActionEntered, JobsOK
  <2>2. /\ fsm' \in FsmStates /\ fsm'.h # "channelOpen"
    BY <1>1, <2>1, FirstHandlerType DEF ActionEntered, FsmStates
  <2>3. /\ jobs' \in Seq(JobKinds) /\ Once(jobs') /\ ~ Has(jobs', "act")
        /\ Has(jobs', "loop") <=> Has(jobs, "loop")
    BY <1>1, NextJob DEF ActionEntered
  <2>4. TypeOK'
    BY <1>1, <2>2, <2>3 DEF ActionEntered, TypeOK, JobKinds
  <2>5. JobsOK' /\ LoopOK' /\ ActionsOK'
    BY <1>1, <2>2, <2>3 DEF ActionEntered, JobsOK, LoopOK, ActionsOK
  <2> QED BY <2>4, <2>5
<1>2. CASE MessageEntered
  <2>1. /\ jobs # <<>> /\ Head(jobs) = "loop"
        /\ UNCHANGED <<chanState, ids, ws, msgQueue, chats>>
        /\ cur' = Nowhere /\ next' = Nowhere
        /\ loop' \in {"next", "stuck"} /\ (loop' = "stuck" => ~ErrorListener)
        /\ jobs' = Tail(jobs) \o ActionJob \o LoopJob
    BY <1>2 DEF MessageEntered, AfterError
  <2>2. /\ Tail(jobs) \in Seq(JobKinds) /\ Once(Tail(jobs))
        /\ Has(Tail(jobs), "act") <=> Has(jobs, "act")
        /\ ~ Has(Tail(jobs), "loop")
    BY <2>1, NextJob
  <2>3. /\ fsm' \in FsmStates /\ status' \in Statuses
        /\ actQueue' \in Seq(Ops) /\ act' \in Ops \cup {NoOp}
        /\ phase' \in [Ops -> Phases] /\ Once(actQueue')
        /\ \A x \in Ops : Has(actQueue', x) <=> phase'[x] = "queued"
        /\ actQueue' # <<>> /\ act' = NoOp => fsm'.h # "channelOpen"
        /\ Tail(jobs) \o ActionJob \in Seq(JobKinds)
        /\ Once(Tail(jobs) \o ActionJob)
        /\ ~ Has(Tail(jobs) \o ActionJob, "loop")
        /\ Has(Tail(jobs) \o ActionJob, "act") <=> act' # NoOp /\ phase'[act'] # "unsent"
    <3>1. CASE next # Nowhere
      <4>1. /\ next \in FsmStates
            /\ fsm' = next
            /\ status' = IF next.h = "channelOpen" THEN "open" ELSE status
            /\ DequeueAction(next.h, actQueue, phase)
        BY <1>2, <3>1 DEF MessageEntered, EnterState, TypeOK
      <4>2. status' \in Statuses
        BY <4>1 DEF TypeOK, Statuses
      <4>3. /\ actQueue' \in Seq(Ops) /\ act' \in Ops \cup {NoOp}
            /\ phase' \in [Ops -> Phases] /\ Once(actQueue')
            /\ \A x \in Ops : Has(actQueue', x) <=> phase'[x] = "queued"
            /\ actQueue' # <<>> /\ act' = NoOp => next.h # "channelOpen"
        BY <1>0, <4>1, DequeueQueue DEF ActionsOK
      <4>4. /\ Tail(jobs) \o ActionJob \in Seq(JobKinds)
            /\ Once(Tail(jobs) \o ActionJob)
            /\ ~ Has(Tail(jobs) \o ActionJob, "loop")
            /\ Has(Tail(jobs) \o ActionJob, "act") <=> act' # NoOp /\ phase'[act'] # "unsent"
        BY <1>0, <2>2, <4>1, DequeueJobs
      <4> QED BY <4>1, <4>2, <4>3, <4>4
    <3>2. CASE next = Nowhere
      <4>1. UNCHANGED <<fsm, status, actQueue, act, phase>>
        BY <1>2, <3>2 DEF MessageEntered
      <4>2. ActionJob = <<>>
        BY <4>1 DEF ActionJob
      <4>3. Tail(jobs) \o ActionJob = Tail(jobs)
        BY <2>2, <4>2, ConcatEmptySeq
      <4> QED BY <2>2, <4>1, <4>3 DEF TypeOK, JobsOK, ActionsOK
    <3> QED BY <3>1, <3>2
  <2>4. /\ jobs' \in Seq(JobKinds) /\ Once(jobs')
        /\ Has(jobs', "act") <=> Has(Tail(jobs) \o ActionJob, "act")
        /\ loop' \in {"enter", "next"} <=> Has(jobs', "loop")
    BY <2>1, <2>3, LoopJobs
  <2>5. TypeOK'
    <3>1. told' = told
      BY <1>2 DEF MessageEntered
    <3> QED BY <2>1, <2>3, <2>4, <3>1 DEF TypeOK, JobKinds
  <2>6. JobsOK' /\ LoopOK' /\ ActionsOK'
    BY <2>1, <2>3, <2>4 DEF JobsOK, LoopOK, ActionsOK
  <2> QED BY <2>5, <2>6
<1>3. CASE NextMessage
  <2>1. jobs # <<>> /\ Head(jobs) = "loop" /\ loop = "next"
    BY <1>3 DEF NextMessage
  <2>2. /\ Tail(jobs) \in Seq(JobKinds) /\ Once(Tail(jobs))
        /\ Has(Tail(jobs), "act") <=> Has(jobs, "act")
        /\ ~ Has(Tail(jobs), "loop")
    BY <2>1, NextJob
  <2>3. CASE msgQueue = <<>>
    BY <1>3, <2>2, <2>3
    DEF NextMessage, TypeOK, JobsOK, LoopOK, ActionsOK, JobKinds
  <2>4. CASE msgQueue # <<>>
    <3>1. /\ msgQueue' \in Seq(Messages) /\ Head(msgQueue) \in Messages
      BY <1>0, <1>3, <2>4, HeadTailProperties DEF NextMessage
    <3>2. HandleMessage(Head(msgQueue), Tail(jobs))
      BY <1>3, <2>4 DEF NextMessage
    <3> QED BY <2>2, <3>1, <3>2, HandleMessageStep
  <2> QED BY <2>3, <2>4
<1>4. ASSUME NEW m \in Messages, Receive(m) PROVE IInv'
  <2>1. CASE loop = "idle"
    <3>1. HandleMessage(m, <<>>) /\ msgQueue' = msgQueue /\ jobs = <<>>
      BY <1>4, <2>1 DEF Receive
    <3>2. <<>> \in Seq(JobKinds) /\ Once(<<>>) /\ ~ Has(<<>>, "loop")
      BY HasEmpty
    <3> QED BY <1>0, <3>1, <3>2, HandleMessageStep
  <2>2. CASE loop # "idle"
    <3>1. /\ msgQueue' = Append(msgQueue, m)
          /\ UNCHANGED <<fsm, status, chanState, ids, ws, loop, cur, next,
                         actQueue, act, phase, jobs, chats, told>>
      BY <1>4, <2>2 DEF Receive
    <3>2. msgQueue' \in Seq(Messages)
      BY <1>0, <3>1, AppendProperties
    <3> QED BY <2>2, <3>1, <3>2 DEF TypeOK, JobsOK, LoopOK, ActionsOK
  <2> QED BY <2>1, <2>2
<1>5. CASE RpcReply
  <2>1. jobs' \in Seq(JobKinds) /\ Once(jobs') /\ (\A y : Has(jobs', y) <=> y = "loop")
    BY <1>5, HasSingle DEF RpcReply, JobKinds
  <2>2. ~ Has(jobs, "act")
    BY <1>5, HasEmpty DEF RpcReply
  <2>3. TypeOK'
    BY <1>5, <2>1 DEF RpcReply, TypeOK, JobKinds, FsmStates, Handlers
  <2> QED BY <1>5, <2>1, <2>2, <2>3 DEF RpcReply, JobsOK, LoopOK, ActionsOK
<1>6. CASE WsClosed
  BY <1>6 DEF WsClosed, TypeOK, JobsOK, LoopOK, ActionsOK, Statuses
<1>7. ASSUME NEW o \in Ops, Call(o) PROVE IInv'
  <2> DEFINE q == Append(actQueue, o)
             ph == [phase EXCEPT ![o] = "queued"]
  <2>1. /\ phase[o] = "idle" /\ DequeueAction(fsm.h, q, ph)
        /\ jobs' = jobs \o ActionJob
        /\ UNCHANGED <<fsm, status, chanState, ids, ws, msgQueue, loop, cur, next, chats, told>>
    BY <1>7 DEF Call, EnqueueAction
  <2>2. /\ q \in Seq(Ops) /\ Once(q) /\ ph \in [Ops -> Phases]
        /\ \A x \in Ops : Has(q, x) <=> ph[x] = "queued"
        /\ act # NoOp => (ph[act] = "unsent" <=> phase[act] = "unsent")
    BY <2>1, Enqueued
  <2> HIDE DEF q, ph
  <2>3. /\ actQueue' \in Seq(Ops) /\ act' \in Ops \cup {NoOp}
        /\ phase' \in [Ops -> Phases] /\ Once(actQueue')
        /\ \A x \in Ops : Has(actQueue', x) <=> phase'[x] = "queued"
        /\ actQueue' # <<>> /\ act' = NoOp => fsm.h # "channelOpen"
    BY <2>1, <2>2, DequeueQueue
  <2>4. /\ jobs' \in Seq(JobKinds) /\ Once(jobs')
        /\ Has(jobs', "loop") <=> Has(jobs, "loop")
        /\ Has(jobs', "act") <=> act' # NoOp /\ phase'[act'] # "unsent"
    <3>1. Once(jobs)
      BY DEF JobsOK
    <3> QED BY <1>0, <2>1, <2>2, <3>1, DequeueJobs
  <2>5. TypeOK'
    BY <2>1, <2>3, <2>4 DEF TypeOK, JobKinds
  <2> QED BY <2>1, <2>3, <2>4, <2>5 DEF JobsOK, LoopOK, ActionsOK
<1>8. ASSUME NEW r \in {"signed", "refused", "thrown"}, SignDone(r) PROVE IInv'
  <2>1. Settling
    BY <1>8 DEF SignDone, Settling, Outstanding, LoopOK, FsmStates
  <2>2. /\ phase' \in [Ops -> Phases]
        /\ \A o \in Ops : phase[o] \notin Outstanding => phase'[o] = phase[o]
        /\ \A o \in Ops : phase[o] \in Outstanding
                            => phase'[o] \in Outstanding \cup Settled
    BY <1>0, <2>1, SettlingKeeps
  <2>3. next' \in FsmStates \cup {Nowhere}
    BY <1>8, AfterSignType DEF SignDone, LoopOK
  <2>4. /\ jobs' \in Seq(JobKinds) /\ Once(jobs')
        /\ \A y : Has(jobs', y) <=> Has(jobs, y) \/ y = "loop"
    <3>1. "loop" \in JobKinds
      BY DEF JobKinds
    <3>2. jobs' = jobs \o <<"loop">>
      BY <1>0, <1>8, <3>1, AppendIsConcat DEF SignDone
    <3>3. ~ Has(jobs, "loop") /\ Once(jobs)
      BY <1>8 DEF SignDone, JobsOK
    <3> QED BY <1>0, <3>1, <3>2, <3>3, Extend
  <2>5. TypeOK'
    BY <1>8, <2>2, <2>3, <2>4 DEF SignDone, TypeOK, JobKinds
  <2>6. /\ act # NoOp => (phase'[act] = "unsent" <=> phase[act] = "unsent")
        /\ \A o \in Ops : phase'[o] = "queued" <=> phase[o] = "queued"
    BY <1>0, <2>2 DEF Outstanding, Settled
  <2> QED BY <1>8, <2>4, <2>5, <2>6 DEF SignDone, JobsOK, LoopOK, ActionsOK
<1>9. CASE Disconnect
  BY <1>9 DEF Disconnect, TypeOK, JobsOK, LoopOK, ActionsOK
<1>10. CASE SendMessage
  BY <1>10 DEF SendMessage, TypeOK, JobsOK, LoopOK, ActionsOK
<1>11. CASE UNCHANGED vars
  BY <1>11 DEF vars, TypeOK, JobsOK, LoopOK, ActionsOK
<1> QED
  BY <1>1, <1>2, <1>3, <1>4, <1>5, <1>6, <1>7, <1>8, <1>9, <1>10, <1>11
  DEF Next, Job

\* The invariant of every reachable state.
THEOREM Invariance == Spec => []IInv
BY InitInvariant, StepInvariant, PTL DEF Spec

-----------------------------------------------------------------------------
(* What it implies *)

\* Every variable keeps its type: no handler leads to an unknown handler, and
\* the two queues hold messages of the node and operations of the user.
THEOREM TypeCorrect == Spec => []TypeOK
<1>1. IInv => TypeOK
  BY DEF IInv
<1> QED BY <1>1, Invariance, PTL

\* No message the node sent waits without somebody who comes back for it
\* (internal.ts:366-380).
THEOREM MessagesAreServed == Spec => []NoMessageForgotten
<1>1. IInv => NoMessageForgotten
  BY DEF IInv, JobsOK, LoopOK, NoMessageForgotten, Has
<1> QED BY <1>1, Invariance, PTL

\* No operation the user called waits in the queue of an open channel while
\* the lock is free, and the lock is held only while its continuation is due or
\* because the request threw (internal.ts:318-329).
THEOREM ActionsAreServed == Spec => []NoActionForgotten
<1>1. IInv => NoActionForgotten
  BY DEF IInv, JobsOK, ActionsOK, NoActionForgotten, Has
<1> QED BY <1>1, Invariance, PTL

-----------------------------------------------------------------------------
(* The channel implements RequestQueue *)

Out == {o \in Ops : phase[o] \in Outstanding}
Done == {o \in Ops : phase[o] \in Settled \cup {"unsent"}}

\* A step of the channel, as the callers of its operations see it.
Seen == [Requests!Next]_(Requests!vars)

\* Settling one promise finishes its operation, or is not seen.
LEMMA SettlingSeen ==
  ASSUME phase \in [Ops -> Phases], Settling, UNCHANGED actQueue
  PROVE  Seen
<1>1. CASE UNCHANGED phase
  BY <1>1 DEF Seen, Requests!vars
<1>2. ASSUME NEW o \in Ops \cup {NoOp}, NEW p \in Outstanding \cup Settled, Settle(o, p)
      PROVE  Seen
  <2>1. phase' = [x \in Ops |-> IF x = o /\ phase[x] \in Outstanding THEN p ELSE phase[x]]
    BY <1>2 DEF Settle
  <2>2. CASE o \in Ops /\ phase[o] \in Outstanding /\ p \in Settled
    <3>1. o \in Out /\ Out' = Out \ {o} /\ Done' = Done \cup {o}
      BY <2>1, <2>2 DEF Out, Done, Outstanding, Settled
    <3>2. Requests!Finish(o)
      BY <3>1 DEF Requests!Finish, Out, Done
    <3> QED BY <2>2, <3>2 DEF Seen, Requests!Next
  <2>3. CASE ~ (o \in Ops /\ phase[o] \in Outstanding /\ p \in Settled)
    <3>1. Out' = Out /\ Done' = Done
      BY <2>1, <2>3 DEF Out, Done, Outstanding, Settled
    <3> QED BY <3>1 DEF Seen, Requests!vars, Out, Done
  <2> QED BY <2>2, <2>3
<1> QED BY <1>1, <1>2 DEF Settling

\* What is seen of dequeueAction when it takes the head of its queue.
LEMMA DequeueSeen ==
  ASSUME NEW q \in Seq(Ops), NEW ph \in [Ops -> Phases], q # <<>>,
         actQueue' = Tail(q), ph[Head(q)] = "queued",
         phase' = [ph EXCEPT ![Head(q)] = IF SendFails THEN "unsent" ELSE "started"],
         \A o \in Ops : ph[o] = phase[o] \/ (ph[o] = "queued" /\ phase[o] = "idle")
  PROVE  Requests!Request(q)
<1>1. Head(q) \in Ops
  BY HeadTailProperties
<1>2. CASE SendFails
  <2>1. Out' = Out /\ Done' = Done \cup {Head(q)}
    BY <1>1, <1>2 DEF Out, Done, Outstanding, Settled
  <2> QED BY <2>1 DEF Requests!Request, Out, Done
<1>3. CASE ~SendFails
  <2>1. Out' = Out \cup {Head(q)} /\ Done' = Done
    BY <1>1, <1>3 DEF Out, Done, Outstanding, Settled
  <2> QED BY <2>1 DEF Requests!Request, Out, Done
<1> QED BY <1>2, <1>3

\* enqueueAction submits an operation, which may request the head at once.
LEMMA EnqueueSeen ==
  ASSUME TypeOK, ActionsOK, NEW o \in Ops, EnqueueAction(o)
  PROVE  Seen
<1> DEFINE q == Append(actQueue, o)
           ph == [phase EXCEPT ![o] = "queued"]
<1>1. phase[o] = "idle" /\ DequeueAction(fsm.h, q, ph) /\ phase \in [Ops -> Phases]
  BY DEF EnqueueAction, TypeOK
<1>2. /\ q \in Seq(Ops) /\ ph \in [Ops -> Phases] /\ Once(q)
      /\ \A x \in Ops : Has(q, x) <=> ph[x] = "queued"
  BY <1>1, Enqueued
<1>3. \A x \in Ops : ph[x] = phase[x] \/ (ph[x] = "queued" /\ phase[x] = "idle")
  BY <1>1
<1>4. Requests!Fresh(o)
  <2>1. ~ Has(actQueue, o) /\ o \notin Out /\ o \notin Done
    BY <1>1 DEF ActionsOK, Out, Done, Outstanding, Settled
  <2> QED BY <2>1 DEF Requests!Fresh, Has, Out, Done
<1>5. CASE act = NoOp /\ q # <<>> /\ fsm.h = "channelOpen"
  <2>1. Head(q) \in Ops /\ Has(q, Head(q))
    BY <1>2, <1>5, OnceTail
  <2> HIDE DEF q, ph
  <2>2. Requests!Request(q)
    <3>1. /\ actQueue' = Tail(q) /\ ph[Head(q)] = "queued"
          /\ phase' = [ph EXCEPT ![Head(q)] = IF SendFails THEN "unsent" ELSE "started"]
      BY <1>1, <1>2, <1>5, <2>1 DEF DequeueAction
    <3> QED BY <1>2, <1>3, <1>5, <3>1, DequeueSeen DEF Requests!Request
  <2> QED BY <1>4, <2>2 DEF Seen, Requests!Next, Requests!Submit, q
<1>6. CASE ~ (act = NoOp /\ q # <<>> /\ fsm.h = "channelOpen")
  <2>1. actQueue' = q /\ phase' = ph
    BY <1>1, <1>6 DEF DequeueAction
  <2>2. Out' = Out /\ Done' = Done
    BY <1>1, <2>1 DEF Out, Done, Outstanding, Settled
  <2>3. Requests!Submit(o)
    BY <1>4, <2>1, <2>2 DEF Requests!Submit, Out, Done
  <2> QED BY <2>3 DEF Seen, Requests!Next
<1> QED BY <1>5, <1>6

\* A message is seen as what its handler settles, or as what a listener calls.
LEMMA HandleMessageSeen ==
  ASSUME IInv, NEW m \in Messages, NEW j, HandleMessage(m, j)
  PROVE  Seen
<1> USE DEF IInv
<1>1. CASE Handle(m) /\ UNCHANGED <<actQueue, act>>
  BY <1>1, HandleType, SettlingSeen DEF TypeOK
<1>2. CASE UNCHANGED <<actQueue, act, phase>>
  BY <1>2 DEF Seen, Requests!vars
<1>3. ASSUME NEW o \in Ops, EnqueueAction(o) PROVE Seen
  BY <1>3, EnqueueSeen
<1> QED BY <1>1, <1>2, <1>3 DEF HandleMessage

\* Every step of the channel is a step of the request queue, or not seen.
LEMMA StepSeen == IInv /\ [Next]_vars => Seen
<1> SUFFICES ASSUME IInv, [Next]_vars PROVE Seen
  OBVIOUS
<1> USE DEF IInv
<1>1. CASE MessageEntered
  <2>1. CASE UNCHANGED <<actQueue, phase>>
    BY <2>1 DEF Seen, Requests!vars
  <2>2. CASE DequeueAction(next.h, actQueue, phase)
    <3>1. actQueue \in Seq(Ops) /\ phase \in [Ops -> Phases] /\ Once(actQueue)
      BY DEF TypeOK, ActionsOK
    <3>2. CASE act = NoOp /\ actQueue # <<>> /\ next.h = "channelOpen"
      <4>1. Head(actQueue) \in Ops /\ Has(actQueue, Head(actQueue))
        BY <3>1, <3>2, OnceTail
      <4>2. Requests!Request(actQueue)
        <5>1. /\ actQueue' = Tail(actQueue) /\ phase[Head(actQueue)] = "queued"
              /\ phase' = [phase EXCEPT ![Head(actQueue)] =
                              IF SendFails THEN "unsent" ELSE "started"]
          BY <2>2, <3>1, <3>2, <4>1 DEF DequeueAction, ActionsOK
        <5> QED BY <3>1, <3>2, <5>1, DequeueSeen DEF Requests!Request
      <4> QED BY <4>2 DEF Seen, Requests!Next
    <3>3. CASE ~ (act = NoOp /\ actQueue # <<>> /\ next.h = "channelOpen")
      BY <2>2, <3>3 DEF DequeueAction, Seen, Requests!vars
    <3> QED BY <3>2, <3>3
  <2> QED BY <1>1, <2>1, <2>2 DEF MessageEntered, EnterState
<1>2. CASE NextMessage
  <2>1. CASE msgQueue = <<>>
    BY <1>2, <2>1 DEF NextMessage, Seen, Requests!vars
  <2>2. CASE msgQueue # <<>>
    <3>1. Head(msgQueue) \in Messages
      BY <2>2, HeadTailProperties DEF TypeOK
    <3> QED BY <1>2, <2>2, <3>1, HandleMessageSeen DEF NextMessage
  <2> QED BY <2>1, <2>2
<1>3. ASSUME NEW m \in Messages, Receive(m) PROVE Seen
  <2>1. CASE loop = "idle"
    BY <1>3, <2>1, HandleMessageSeen DEF Receive
  <2>2. CASE loop # "idle"
    BY <1>3, <2>2 DEF Receive, Seen, Requests!vars
  <2> QED BY <2>1, <2>2
<1>4. ASSUME NEW o \in Ops, Call(o) PROVE Seen
  BY <1>4, EnqueueSeen DEF Call
<1>5. ASSUME NEW r \in {"signed", "refused", "thrown"}, SignDone(r) PROVE Seen
  <2>1. Settling
    BY <1>5 DEF SignDone, Settling, Outstanding, LoopOK, FsmStates
  <2> QED BY <1>5, <2>1, SettlingSeen DEF SignDone, TypeOK
<1>6. CASE ActionEntered \/ RpcReply \/ WsClosed \/ Disconnect \/ SendMessage \/ UNCHANGED vars
  BY <1>6
  DEF ActionEntered, RpcReply, WsClosed, Disconnect, SendMessage, vars, Seen, Requests!vars
<1> QED BY <1>1, <1>2, <1>3, <1>4, <1>5, <1>6 DEF Next, Job

\* Requests go to the node in the order of the calls, each at most once, and
\* each promise is settled at most once (internal.ts:318-347).
THEOREM ImplementsRequestQueue == Spec => InOrder
<1>1. Init => Requests!Init
  BY DEF Init, Requests!Init, Outstanding, Settled
<1>2. IInv /\ [Next]_vars => [Requests!Next]_(Requests!vars)
  BY StepSeen DEF Seen
<1> QED BY <1>1, <1>2, Invariance, PTL DEF Spec, InOrder, Requests!Spec

-----------------------------------------------------------------------------
(* The life of an operation *)

\* The handlers before the channel is open.
OpeningHandlers ==
  StartHandlers \cup
  {"awaitingChannelReestablished", "awaitingChannelCreateTx", "awaitingOnChainTx",
   "awaitingBlockInclusion", "awaitingOpenConfirmation", "awaitingChannelsUpdate"}

\* The handlers whose state is that of an operation, for each kind of operation.
HandlersOf ==
  [update |-> {"awaitingOffChainTx", "awaitingUpdateCompletion"},
   deposit |-> {"awaitingActionTx", "awaitingActionCompletion"},
   withdraw |-> {"awaitingActionTx", "awaitingActionCompletion"},
   createContract |-> {"awaitingContractTx", "awaitingContractCompletion"},
   callContract |-> {"awaitingContractTx", "awaitingContractCompletion"},
   forceProgress |-> {"awaitingForceProgressTx", "awaitingForceProgressOnChain"},
   cleanContractCalls |-> {"awaitingCallsPruned"},
   leave |-> {"awaitingLeave"},
   shutdown |-> {"awaitingShutdownTx", "awaitingShutdownOnChain", "channelClosed"}]

-----------------------------------------------------------------------------
(* The inductive invariant of an operation's life *)

\* The handlers of the opening run only before anything was requested, and
\* whatever they lead to is theirs, channelOpen or channelClosed.
OpeningOK ==
  /\ fsm.h \in OpeningHandlers =>
       /\ act = NoOp
       /\ \A o \in Ops : phase[o] \in {"idle", "queued"}
       /\ fsm.h \in OpeningHandlers \cup {"channelClosed"}
       /\ cur.h \in OpeningHandlers \cup {"channelClosed", "none"}
       /\ next.h \in OpeningHandlers \cup {"channelOpen", "channelClosed", "none"}
  /\ cur.h \in OpeningHandlers \/ next.h \in OpeningHandlers
       => fsm.h \in OpeningHandlers

\* A state of the FSM that belongs to an operation: a handler of its kind is in
\* charge, its request was sent, and an update is completed only if it was signed.
FitsIn(s, a, ph) ==
  s.op \in Ops =>
    /\ s.h \in HandlersOf[Kind[s.op]]
    /\ s.op # a
    /\ ph[s.op] \in Outstanding \cup Settled
    /\ s.h = "awaitingUpdateCompletion" /\ ph[s.op] \in Outstanding
         => ph[s.op] = "signed"

Fits(s) == FitsIn(s, act, phase)

\* The operation that holds the lock has just been requested, or never will.
StatesOK ==
  /\ Fits(fsm) /\ Fits(cur) /\ Fits(next)
  /\ act \in Ops => phase[act] \in {"started", "unsent"}

\* handleMessage works on the state it has read, unless that was channelOpen's: an
\* operation may have started since.
CurOK ==
  /\ cur # Nowhere <=> loop \in {"sign", "rpc", "enter"}
  /\ next # Nowhere => loop = "enter"
  /\ loop = "rpc" => cur.h = "awaitingReconnection"
  /\ cur.h \notin {"none", "channelOpen"} => cur = fsm /\ ~ Has(jobs, "act")
  /\ cur.h = "channelOpen" /\ fsm.h # "channelOpen"
       => fsm.op \in Ops /\ fsm.h = FirstHandler[Kind[fsm.op]]

\* A new operation enters its handler when no other has the FSM, and before
\* anything else happens unless the handler is still channelOpen.
ActJobOK ==
  Has(jobs, "act") =>
    /\ fsm.op = NoOp
    /\ Head(jobs) = "act" \/ (Reentrant /\ fsm.h = "channelOpen")
    /\ fsm.h = "channelOpen" \/ Reentrant

\* The next state keeps the operation of the one it follows, or it is settled.
NextOK ==
  next # Nowhere =>
    /\ next.op \in {NoOp, cur.op}
    /\ cur.op \in Ops /\ next.op # cur.op => phase[cur.op] \notin Outstanding
    /\ cur.h = "channelClosed" => next.h = "channelClosed"
    /\ cur.h = "channelOpen" => next.h \notin {"none"} \cup OpeningHandlers

LifeOK == OpeningOK /\ StatesOK /\ CurOK /\ ActJobOK /\ NextOK

LInv == IInv /\ LifeOK

-----------------------------------------------------------------------------
(* What a handler does to the operation in charge *)

\* A state of no operation, or of the FSM's own under a handler of its kind.
OwnNext ==
  /\ next'.op \in {NoOp, fsm.op}
  /\ fsm.op \in Ops /\ next'.op # fsm.op => phase'[fsm.op] \notin Outstanding
  /\ next'.op \in Ops =>
       next'.h \in HandlersOf[Kind[next'.op]] \ {"awaitingUpdateCompletion"}
  /\ fsm.h = "channelClosed" => next'.h = "channelClosed"
  /\ fsm.h \in OpeningHandlers =>
       next'.h \in OpeningHandlers \cup {"channelOpen", "channelClosed"}
  /\ fsm.h \notin OpeningHandlers => next'.h \notin OpeningHandlers \cup {"none"}

\* Only the FSM's own operation is settled, and accepted only by the handler
\* that awaits its completion.
OwnSettled ==
  \A o \in Ops : phase'[o] # phase[o] =>
    /\ o = fsm.op
    /\ phase[o] \in Outstanding
    /\ phase'[o] \in Settled \cup {"txSeen"}
    /\ phase'[o] = "txSeen" => fsm.h = "channelClosed"
    /\ phase'[o] = "accepted" => fsm.h # "awaitingOffChainTx"

HandlerLife ==
  /\ \/ loop' = "enter" /\ (next' = Nowhere \/ OwnNext)
     \/ loop' = "rpc" /\ next' = next /\ fsm.h = "awaitingReconnection"
     \/ loop' = "sign" /\ next' = next
  /\ OwnSettled
  /\ fsm.h \notin OpeningHandlers => status' = status
  /\ status' \in {status, "accepted", "halfSigned", "signed"}

\* Which handlers belong to operations.
LEMMA Belongs ==
  ASSUME NEW o \in Ops
  PROVE  /\ HandlersOf[Kind[o]] \subseteq OpHandlers \cup {"channelClosed"}
         /\ "awaitingActionCompletion" \in HandlersOf[Kind[o]]
              <=> "awaitingActionTx" \in HandlersOf[Kind[o]]
         /\ "awaitingContractCompletion" \in HandlersOf[Kind[o]]
              <=> "awaitingContractTx" \in HandlersOf[Kind[o]]
         /\ "awaitingForceProgressOnChain" \in HandlersOf[Kind[o]]
              <=> "awaitingForceProgressTx" \in HandlersOf[Kind[o]]
         /\ "awaitingOffChainTx" \in HandlersOf[Kind[o]] <=> Kind[o] = "update"
         /\ "awaitingUpdateCompletion" \in HandlersOf[Kind[o]] <=> Kind[o] = "update"
         /\ "awaitingShutdownTx" \in HandlersOf[Kind[o]] <=> Kind[o] = "shutdown"
         /\ "awaitingShutdownOnChain" \in HandlersOf[Kind[o]] <=> Kind[o] = "shutdown"
         /\ "channelClosed" \in HandlersOf[Kind[o]] <=> Kind[o] = "shutdown"
         /\ FirstHandler[Kind[o]]
              \in HandlersOf[Kind[o]] \ {"awaitingUpdateCompletion", "channelClosed"}
<1>1. Kind[o] \in Kinds
  BY ChannelAssumption
<1> QED BY <1>1 DEF Kinds, HandlersOf, OpHandlers, FirstHandler

\* Every handler but channelOpen, on behalf of the operation in charge.
LEMMA HandleLife ==
  ASSUME TypeOK, Fits(fsm), next = Nowhere, NEW m \in Messages, Handle(m)
  PROVE  HandlerLife
<1> USE DEF Info, Sign, GotoWith, Goto, Fail, AskSign, HandleUnexpectedMessage
<1>0. fsm.op \in Ops \cup {NoOp} /\ NoOp \notin Ops /\ fsm.h \in Handlers
  BY ChannelAssumption DEF TypeOK, FsmStates
<1>s. \A p : Settle(fsm.op, p) =>
        \A o \in Ops : phase'[o] =
          IF o = fsm.op /\ phase[o] \in Outstanding THEN p ELSE phase[o]
  BY DEF Settle
<1>u. fsm.h \notin OpHandlers \cup {"channelClosed"} => fsm.op = NoOp
  BY <1>0, Belongs DEF Fits, FitsIn
<1>c. AwaitingCompletion(m, fsm.op) =>
        /\ loop' = "enter" /\ next' = [h |-> "channelOpen", op |-> NoOp]
        /\ \E p \in {"declined", "rejected"} : Settle(fsm.op, p)
  BY DEF AwaitingCompletion
<1>d. AwaitingSuccess(m) =>
        /\ loop' = "enter" /\ next' = [h |-> "channelOpen", op |-> NoOp]
        /\ \E p \in Settled : Settle(fsm.op, p)
  BY <1>c DEF AwaitingSuccess, Settled
<1> USE DEF HandlerLife, OwnNext, OwnSettled, Fits, FitsIn, OpeningHandlers,
            StartHandlers, OpHandlers, Outstanding, Settled
<1>1. CASE fsm.h = "awaitingConnection" /\ AwaitingConnection(m)
  BY <1>1, <1>0, <1>s, <1>u, <1>c, <1>d, Belongs DEF AwaitingConnection
<1>2. CASE fsm.h = "awaitingReestablish" /\ AwaitingReestablish(m)
  BY <1>2, <1>0, <1>s, <1>u, <1>c, <1>d, Belongs DEF AwaitingReestablish
<1>3. CASE fsm.h = "awaitingChannelReestablished" /\ AwaitingChannelReestablished(m)
  BY <1>3, <1>0, <1>s, <1>u, <1>c, <1>d, Belongs DEF AwaitingChannelReestablished
<1>4. CASE fsm.h = "awaitingReconnection" /\ AwaitingReconnection(m)
  BY <1>4, <1>0, <1>s, <1>u, <1>c, <1>d, Belongs DEF AwaitingReconnection
<1>5. CASE fsm.h = "awaitingChannelCreateTx" /\ AwaitingChannelCreateTx(m)
  BY <1>5, <1>0, <1>s, <1>u, <1>c, <1>d, Belongs DEF AwaitingChannelCreateTx
<1>6. CASE fsm.h = "awaitingOnChainTx" /\ AwaitingOnChainTx(m)
  BY <1>6, <1>0, <1>s, <1>u, <1>c, <1>d, Belongs DEF AwaitingOnChainTx
<1>7. CASE fsm.h = "awaitingBlockInclusion" /\ AwaitingBlockInclusion(m)
  BY <1>7, <1>0, <1>s, <1>u, <1>c, <1>d, Belongs DEF AwaitingBlockInclusion
<1>8. CASE fsm.h = "awaitingOpenConfirmation" /\ AwaitingOpenConfirmation(m)
  BY <1>8, <1>0, <1>s, <1>u, <1>c, <1>d, Belongs DEF AwaitingOpenConfirmation
<1>9. CASE fsm.h = "awaitingChannelsUpdate" /\ AwaitingChannelsUpdate(m)
  BY <1>9, <1>0, <1>s, <1>u, <1>c, <1>d, Belongs DEF AwaitingChannelsUpdate
<1>10. CASE fsm.h = "awaitingTxSignRequest" /\ AwaitingTxSignRequest(m)
  BY <1>10, <1>0, <1>s, <1>u, <1>c, <1>d, Belongs DEF AwaitingTxSignRequest
<1>11. CASE fsm.h = "awaitingUpdateConflict" /\ AwaitingUpdateConflict(m)
  BY <1>11, <1>0, <1>s, <1>u, <1>c, <1>d, Belongs DEF AwaitingUpdateConflict
<1>12. CASE fsm.h = "awaitingOffChainTx" /\ AwaitingOffChainTx(m)
  BY <1>12, <1>0, <1>s, <1>u, <1>c, <1>d, Belongs DEF AwaitingOffChainTx
<1>13. CASE fsm.h = "awaitingUpdateCompletion" /\ AwaitingUpdateCompletion(m)
  BY <1>13, <1>0, <1>s, <1>u, <1>c, <1>d, Belongs DEF AwaitingUpdateCompletion
<1>14. CASE fsm.h = "awaitingActionTx" /\ AwaitingActionTx(m)
  BY <1>14, <1>0, <1>s, <1>u, <1>c, <1>d, Belongs DEF AwaitingActionTx
<1>15. CASE fsm.h = "awaitingActionCompletion" /\ AwaitingActionCompletion(m)
  BY <1>15, <1>0, <1>s, <1>u, <1>c, <1>d, Belongs DEF AwaitingActionCompletion
<1>16. CASE fsm.h = "awaitingContractTx" /\ AwaitingContractTx(m)
  BY <1>16, <1>0, <1>s, <1>u, <1>c, <1>d, Belongs DEF AwaitingContractTx
<1>17. CASE fsm.h = "awaitingContractCompletion" /\ AwaitingContractCompletion(m)
  BY <1>17, <1>0, <1>s, <1>u, <1>c, <1>d, Belongs DEF AwaitingContractCompletion
<1>18. CASE fsm.h = "awaitingForceProgressTx" /\ AwaitingForceProgressTx(m)
  BY <1>18, <1>0, <1>s, <1>u, <1>c, <1>d, Belongs DEF AwaitingForceProgressTx
<1>19. CASE fsm.h = "awaitingForceProgressOnChain" /\ AwaitingForceProgressOnChain(m)
  BY <1>19, <1>0, <1>s, <1>u, <1>c, <1>d, Belongs DEF AwaitingForceProgressOnChain
<1>20. CASE fsm.h = "awaitingCallsPruned" /\ AwaitingCallsPruned(m)
  BY <1>20, <1>0, <1>s, <1>u, <1>c, <1>d, Belongs DEF AwaitingCallsPruned
<1>21. CASE fsm.h = "awaitingLeave" /\ AwaitingLeave(m)
  BY <1>21, <1>0, <1>s, <1>u, <1>c, <1>d, Belongs DEF AwaitingLeave
<1>22. CASE fsm.h = "awaitingShutdownTx" /\ AwaitingShutdownTx(m)
  BY <1>22, <1>0, <1>s, <1>u, <1>c, <1>d, Belongs DEF AwaitingShutdownTx
<1>23. CASE fsm.h = "awaitingShutdownOnChain" /\ AwaitingShutdownOnChain(m)
  BY <1>23, <1>0, <1>s, <1>u, <1>c, <1>d, Belongs DEF AwaitingShutdownOnChain
<1>24. CASE fsm.h = "channelClosed" /\ ChannelClosed(m)
  BY <1>24, <1>0, <1>s, <1>u, <1>c, <1>d, Belongs DEF ChannelClosed
<1> QED
  BY <1>1, <1>2, <1>3, <1>4, <1>5, <1>6, <1>7, <1>8, <1>9, <1>10, <1>11, <1>12,
     <1>13, <1>14, <1>15, <1>16, <1>17, <1>18, <1>19, <1>20, <1>21, <1>22,
     <1>23, <1>24 DEF Handle

\* channelOpen, whose state is that of no operation, leads on to no opening
\* handler; it awaits a signature itself only when the peer shuts the channel down.
OpenLife(m) ==
  /\ \/ /\ loop' = "enter"
        /\ \/ next' = Nowhere
           \/ next'.op = NoOp /\ next'.h \notin {"none"} \cup OpeningHandlers
     \/ loop' = "sign" /\ next' = next /\ m = [m |-> "sign", d |-> "shutdown_sign_ack"]
  /\ \/ status' \in {status, "closing"}
     \/ status' \in {"closed", "died"} /\ loop' = "enter" /\ next'.h = "channelClosed"

\* And that is all it does.
LEMMA ChannelOpenLife ==
  ASSUME NEW m \in Messages, ChannelOpen(m)
  PROVE  OpenLife(m)
<1>1. Sign(m, "shutdown_sign_ack") => m = [m |-> "sign", d |-> "shutdown_sign_ack"]
  BY ChannelAssumption DEF Sign, AllMessages
<1> QED
  BY <1>1
  DEF ChannelOpen, OpenLife, Info, Goto, GotoWith, Fail, AskSign, Nowhere,
      OpeningHandlers, StartHandlers

\* Once the user has signed, or refused to, the operation stays in charge.
LEMMA AfterSignLife ==
  ASSUME cur \in FsmStates, cur.h \in SigningHandlers, Fits(cur),
         NEW r \in {"signed", "refused"}
  PROVE  /\ cur.op \in Ops =>
              /\ AfterSign(r).op = cur.op
              /\ AfterSign(r).h \in HandlersOf[Kind[cur.op]]
              /\ AfterSign(r).h = "awaitingUpdateCompletion" => r = "signed"
         /\ cur.op = NoOp => AfterSign(r).op = NoOp
         /\ cur.h \in OpeningHandlers => AfterSign(r).h \in OpeningHandlers
         /\ cur.h \notin OpeningHandlers => AfterSign(r).h \notin {"none"} \cup OpeningHandlers
<1>1. /\ cur.h = "awaitingChannelCreateTx" => AfterSigned[cur.h] = "awaitingOnChainTx"
      /\ cur.h = "channelOpen" => AfterSigned[cur.h] = "channelOpen"
      /\ cur.h = "awaitingTxSignRequest" => AfterSigned[cur.h] = "channelOpen"
      /\ cur.h = "awaitingOffChainTx" => AfterSigned[cur.h] = "awaitingUpdateCompletion"
      /\ cur.h = "awaitingActionTx" => AfterSigned[cur.h] = "awaitingActionCompletion"
      /\ cur.h = "awaitingContractTx" => AfterSigned[cur.h] = "awaitingContractCompletion"
      /\ cur.h = "awaitingForceProgressTx" => AfterSigned[cur.h] = "awaitingForceProgressOnChain"
      /\ cur.h = "awaitingShutdownTx" => AfterSigned[cur.h] = "awaitingShutdownOnChain"
  BY DEF AfterSigned
<1>2. AfterRefused[cur.h] =
        IF cur.h \in {"channelOpen", "awaitingTxSignRequest"} THEN "awaitingUpdateConflict"
        ELSE IF cur.h = "awaitingOffChainTx" THEN "awaitingOffChainTx"
        ELSE AfterSigned[cur.h]
  BY DEF AfterRefused, AfterSigned, SigningHandlers
<1>3. cur.op \in Ops \cup {NoOp} /\ NoOp \notin Ops
  BY ChannelAssumption DEF FsmStates
<1> HIDE DEF AfterSigned, AfterRefused
<1>4. CASE cur.op \in Ops
  BY <1>1, <1>2, <1>3, <1>4, Belongs
  DEF AfterSign, Fits, FitsIn, SigningHandlers, OpHandlers, OpeningHandlers, StartHandlers
<1>5. CASE cur.op = NoOp
  BY <1>1, <1>2, <1>3, <1>5
  DEF AfterSign, SigningHandlers, OpeningHandlers, StartHandlers
<1> QED BY <1>3, <1>4, <1>5

-----------------------------------------------------------------------------
(* What dequeueAction does to the operations *)

\* The operation it takes had not been requested; others at most join the queue.
Advance(h) ==
  /\ \/ act' = act
     \/ /\ act = NoOp /\ h = "channelOpen"
        /\ act' \in Ops /\ phase[act'] \in {"idle", "queued"}
        /\ phase'[act'] \in {"started", "unsent"}
  /\ \A o \in Ops : \/ phase'[o] = phase[o]
                    \/ phase[o] = "idle" /\ phase'[o] = "queued"
                    \/ act = NoOp /\ act' = o
  /\ ActionJob # <<>> => act' # act

\* So does dequeueAction with the queue as it is,
LEMMA DequeueAdvances ==
  ASSUME TypeOK, ActionsOK, NEW h, DequeueAction(h, actQueue, phase)
  PROVE  Advance(h)
<1>1. phase \in [Ops -> Phases] /\ actQueue \in Seq(Ops)
      /\ act \in Ops \cup {NoOp} /\ NoOp \notin Ops
  BY ChannelAssumption DEF TypeOK
<1>2. CASE act = NoOp /\ actQueue # <<>> /\ h = "channelOpen"
  <2>1. Head(actQueue) \in Ops /\ Has(actQueue, Head(actQueue))
    BY <1>1, <1>2, OnceTail DEF ActionsOK
  <2>2. phase[Head(actQueue)] = "queued"
    BY <2>1 DEF ActionsOK
  <2> QED BY <1>1, <1>2, <2>1, <2>2 DEF DequeueAction, Advance
<1>3. CASE ~ (act = NoOp /\ actQueue # <<>> /\ h = "channelOpen")
  BY <1>1, <1>3 DEF DequeueAction, Advance, ActionJob
<1> QED BY <1>2, <1>3

\* and after enqueueAction has put an operation at the end.
LEMMA EnqueueAdvances ==
  ASSUME TypeOK, ActionsOK, NEW o \in Ops, EnqueueAction(o)
  PROVE  Advance(fsm.h)
<1> DEFINE q == Append(actQueue, o)
           ph == [phase EXCEPT ![o] = "queued"]
<1>1. phase \in [Ops -> Phases] /\ act \in Ops \cup {NoOp} /\ NoOp \notin Ops
  BY ChannelAssumption DEF TypeOK
<1>2. phase[o] = "idle" /\ DequeueAction(fsm.h, q, ph)
  BY DEF EnqueueAction
<1>3. /\ q \in Seq(Ops) /\ Once(q) /\ ph \in [Ops -> Phases]
      /\ \A x \in Ops : Has(q, x) <=> ph[x] = "queued"
  BY <1>2, Enqueued
<1>4. \A x \in Ops : ph[x] = IF x = o THEN "queued" ELSE phase[x]
  BY <1>1
<1> HIDE DEF q, ph
<1>5. CASE act = NoOp /\ q # <<>> /\ fsm.h = "channelOpen"
  <2>1. Head(q) \in Ops /\ Has(q, Head(q))
    BY <1>3, <1>5, OnceTail
  <2>2. ph[Head(q)] = "queued"
    BY <1>3, <2>1
  <2>3. phase[Head(q)] \in {"idle", "queued"}
    BY <1>2, <1>4, <2>1, <2>2
  <2>4. act' = Head(q) /\ phase' = [ph EXCEPT ![Head(q)] = IF SendFails THEN "unsent" ELSE "started"]
    BY <1>2, <1>5 DEF DequeueAction
  <2>5. /\ phase'[Head(q)] \in {"started", "unsent"}
        /\ \A x \in Ops : x # Head(q) => phase'[x] = ph[x]
    BY <1>3, <2>1, <2>4
  <2> QED BY <1>1, <1>2, <1>4, <1>5, <2>1, <2>3, <2>4, <2>5 DEF Advance
<1>6. CASE ~ (act = NoOp /\ q # <<>> /\ fsm.h = "channelOpen")
  BY <1>1, <1>2, <1>4, <1>6 DEF DequeueAction, Advance, ActionJob
<1> QED BY <1>5, <1>6

\* An operation in charge of the FSM is not the one that is requested.
LEMMA FitsStays ==
  ASSUME NEW s, FitsIn(s, act, phase), NEW h, Advance(h)
  PROVE  FitsIn(s, act', phase')
BY ChannelAssumption DEF Advance, FitsIn, Outstanding, Settled

\* The request under way is a new one, or the one it was.
LEMMA ActStays ==
  ASSUME act \in Ops \cup {NoOp}, act \in Ops => phase[act] \in {"started", "unsent"},
         NEW h, Advance(h)
  PROVE  act' \in Ops => phase'[act'] \in {"started", "unsent"}
BY ChannelAssumption DEF Advance

-----------------------------------------------------------------------------
(* Every step preserves the invariant *)

\* Settling the promise of the operation in charge leaves the others alone.
LEMMA FitsSettled ==
  ASSUME TypeOK, StatesOK, OwnSettled, NEW s, s.op \in Ops => s.op \in {fsm.op, NoOp}
  PROVE  /\ FitsIn(s, act, phase) => FitsIn(s, act, phase')
         /\ act \in Ops => phase'[act] = phase[act]
<1>1. NoOp \notin Ops
  BY ChannelAssumption
<1>2. act \in Ops => fsm.op # act
  BY <1>1 DEF StatesOK, Fits, FitsIn
<1>3. act \in Ops => phase'[act] = phase[act]
  BY <1>2 DEF OwnSettled
<1>4. ASSUME FitsIn(s, act, phase), s.op \in Ops PROVE FitsIn(s, act, phase')
  <2>1. CASE phase'[s.op] = phase[s.op]
    BY <1>4, <2>1 DEF FitsIn
  <2>2. CASE phase'[s.op] # phase[s.op]
    <3>1. s.op = fsm.op /\ phase[s.op] \in Outstanding
          /\ phase'[s.op] \in Settled \cup {"txSeen"}
          /\ (phase'[s.op] = "txSeen" => fsm.h = "channelClosed")
      BY <1>4, <2>2 DEF OwnSettled
    <3>2. CASE phase'[s.op] \in Settled
      BY <1>4, <3>1, <3>2 DEF FitsIn, Settled, Outstanding
    <3>3. CASE phase'[s.op] = "txSeen"
      <4>1. Kind[s.op] = "shutdown"
        BY <1>4, <3>1, <3>3, Belongs DEF StatesOK, Fits, FitsIn
      <4>2. s.h # "awaitingUpdateCompletion"
        BY <1>4, <4>1, Belongs DEF FitsIn
      <4> QED BY <1>4, <3>3, <4>2 DEF FitsIn, Outstanding
    <3> QED BY <3>1, <3>2, <3>3
  <2> QED BY <2>1, <2>2
<1> QED BY <1>3, <1>4 DEF FitsIn

\* handleMessage, whoever calls it with the rest of the jobs j.
LEMMA HandleMessageLife ==
  ASSUME LInv, NEW m \in Messages, NEW j \in Seq(JobKinds), Once(j), ~ Has(j, "loop"),
         Has(j, "act") <=> Has(jobs, "act"), Has(jobs, "act") => Head(jobs) # "act",
         loop \in {"idle", "next"}, HandleMessage(m, j)
  PROVE  LifeOK'
<1> USE DEF LInv, IInv, LifeOK
<1>0. /\ NoOp \notin Ops /\ fsm \in FsmStates /\ Nowhere \notin FsmStates
      /\ act \in Ops \cup {NoOp}
      /\ next = Nowhere /\ cur = Nowhere
  BY ChannelAssumption DEF TypeOK, CurOK, Nowhere, FsmStates, Handlers, StartHandlers, OpHandlers
<1>1. fsm' = fsm /\ cur' = fsm
  BY DEF HandleMessage
<1>2. Has(jobs, "act") => Reentrant /\ fsm.h = "channelOpen" /\ fsm.op = NoOp
  BY DEF ActJobOK
<1>3. fsm.h \notin OpHandlers \cup {"channelClosed"} => fsm.op = NoOp
  BY <1>0, Belongs DEF StatesOK, Fits, FitsIn, FsmStates
<1>4. Nowhere.op \notin Ops /\ Nowhere.h = "none"
  BY <1>0 DEF Nowhere
<1>5. CASE Handle(m) /\ jobs' = j \o LoopJob /\ UNCHANGED <<actQueue, act>>
  <2>1. HandlerLife
    BY <1>0, <1>5, HandleLife DEF StatesOK
  <2>2. OwnSettled /\ act' = act
    BY <1>5, <2>1 DEF HandlerLife
  <2>3. fsm.h # "channelOpen" /\ fsm.h # "none"
    BY <1>0, <1>5 DEF Handle, FsmStates, Handlers, StartHandlers, OpHandlers
  <2>4. ~ Has(jobs', "act")
    BY <1>2, <1>5, <2>3, LoopJobs
  <2>5. /\ next' # Nowhere => loop' = "enter" /\ OwnNext
        /\ loop' \in {"enter", "sign", "rpc"}
        /\ loop' = "rpc" => fsm.h = "awaitingReconnection"
    BY <1>0, <2>1 DEF HandlerLife
  <2>6. Fits(fsm)' /\ Fits(cur)' /\ (act' \in Ops => phase'[act'] \in {"started", "unsent"})
    BY <1>1, <2>2, FitsSettled DEF StatesOK, Fits
  <2>7. Fits(next)'
    <3>1. CASE next' = Nowhere
      BY <1>4, <3>1 DEF Fits, FitsIn
    <3>2. CASE OwnNext /\ next'.op \in Ops
      BY <1>0, <1>1, <2>6, <3>2 DEF OwnNext, Fits, FitsIn
    <3>3. CASE OwnNext /\ next'.op \notin Ops
      BY <3>3 DEF Fits, FitsIn
    <3> QED BY <2>5, <3>1, <3>2, <3>3
  <2>8. OpeningOK'
    <3>1. fsm.h \in OpeningHandlers
            => \A o \in Ops : phase'[o] = phase[o]
      BY <2>2 DEF OpeningOK, OwnSettled, Outstanding
    <3>2. CASE fsm.h \in OpeningHandlers
      BY <1>0, <1>1, <1>4, <2>2, <2>5, <3>1, <3>2 DEF OpeningOK, OwnNext
    <3>3. CASE fsm.h \notin OpeningHandlers
      <4>1. status' = status
        BY <2>1, <3>3 DEF HandlerLife
      <4>2. next'.h \notin OpeningHandlers
        <5>1. "none" \notin OpeningHandlers
          BY DEF OpeningHandlers, StartHandlers
        <5> QED BY <1>4, <2>5, <3>3, <5>1 DEF OwnNext
      <4> QED BY <1>0, <1>1, <1>4, <2>2, <2>5, <3>1, <3>3, <4>1, <4>2 DEF OpeningOK, OwnNext
    <3> QED BY <3>2, <3>3
  <2>9. CurOK'
    BY <1>0, <1>1, <2>3, <2>4, <2>5 DEF CurOK
  <2>10. NextOK'
    BY <1>0, <1>1, <2>3, <2>5 DEF NextOK, OwnNext
  <2> QED BY <2>4, <2>6, <2>7, <2>8, <2>9, <2>10 DEF StatesOK, ActJobOK
<1>6. CASE fsm.h = "channelOpen" /\ ChannelOpen(m)
  <2>1. OpenLife(m) /\ fsm.op = NoOp
    BY <1>3, <1>6, ChannelOpenLife
    DEF OpeningOK, OpHandlers, OpeningHandlers, StartHandlers
  <2>2. /\ next' # Nowhere => loop' = "enter" /\ next'.op = NoOp
                              /\ next'.h \notin {"none"} \cup OpeningHandlers
        /\ loop' \in {"enter", "sign"}
    BY <1>0, <2>1 DEF OpenLife
  <2>3. /\ act' \in Ops => phase'[act'] \in {"started", "unsent"}
        /\ Has(jobs', "act") => Reentrant
    <3>1. CASE jobs' = j \o LoopJob /\ UNCHANGED <<actQueue, act, phase>>
      BY <1>2, <3>1, LoopJobs DEF StatesOK
    <3>2. CASE Reentrant /\ \E o \in Ops : EnqueueAction(o)
      BY <1>0, <3>2, EnqueueAdvances, ActStays DEF StatesOK
    <3> QED BY <1>6, <3>1, <3>2 DEF HandleMessage, Handle
  <2>4. "channelOpen" \notin OpeningHandlers /\ "none" \notin OpeningHandlers
    BY DEF OpeningHandlers, StartHandlers
  <2>5. OpeningOK'
    BY <1>1, <1>4, <1>6, <2>2, <2>4 DEF OpeningOK
  <2>6. StatesOK'
    BY <1>0, <1>1, <1>4, <2>1, <2>2, <2>3 DEF StatesOK, Fits, FitsIn
  <2>7. CurOK' /\ ActJobOK' /\ NextOK'
    BY <1>0, <1>1, <1>6, <2>1, <2>2, <2>3 DEF CurOK, ActJobOK, NextOK
  <2> QED BY <2>5, <2>6, <2>7
<1> QED BY <1>5, <1>6 DEF HandleMessage

\* The invariant holds at first,
LEMMA InitLife == Init => LifeOK
<1> SUFFICES ASSUME Init PROVE LifeOK
  OBVIOUS
<1>1. fsm.op \notin Ops /\ Nowhere.op \notin Ops /\ fsm.h \in OpeningHandlers
      /\ Nowhere.h = "none" /\ "none" \notin OpeningHandlers /\ NoOp \notin Ops
  BY ChannelAssumption DEF Init, Nowhere, OpeningHandlers, StartHandlers
<1> QED BY <1>1, HasEmpty
    DEF Init, LifeOK, OpeningOK, StatesOK, Fits, FitsIn, CurOK, ActJobOK, NextOK

\* Jobs among which dequeueMessage's is not are dequeueAction's, if any.
LEMMA OnlyActs ==
  ASSUME NEW k \in Seq(JobKinds), Once(k), ~ Has(k, "loop")
  PROVE  k \in {<<>>, <<"act">>}
<1>1. Len(k) \in Nat /\ k \in [1 .. Len(k) -> JobKinds]
  BY LenProperties
<1>2. \A i \in 1 .. Len(k) : k[i] = "act"
  BY <1>1 DEF Has, JobKinds
<1>3. Len(k) <= 1
  BY <1>1, <1>2 DEF Once
<1>4. CASE Len(k) = 0
  BY <1>4, EmptySeq
<1>5. CASE Len(k) = 1
  <2>1. <<"act">> \in Seq(JobKinds) /\ Len(<<"act">>) = 1 /\ <<"act">>[1] = "act"
    BY DEF JobKinds
  <2>2. \A i \in 1 .. Len(k) : k[i] = <<"act">>[i]
    BY <1>2, <1>5, <2>1
  <2> QED BY <1>5, <2>1, <2>2, SeqEqual
<1> QED BY <1>1, <1>3, <1>4, <1>5

\* One job on its own.
LEMMA SingleJobs ==
  /\ <<>> \in Seq(JobKinds) /\ <<"act">> \in Seq(JobKinds) /\ <<"loop">> \in Seq(JobKinds)
  /\ <<"act">> # <<>> /\ Head(<<"act">>) = "act"
BY DEF JobKinds

\* What is appended to a sequence does not come first.
LEMMA HeadStays ==
  ASSUME NEW S, NEW k \in Seq(S), NEW l \in Seq(S), k # <<>>
  PROVE  k \o l # <<>> /\ Head(k \o l) = Head(k)
<1>1. Len(k) \in Nat \ {0} /\ Len(l) \in Nat
  BY EmptySeq, LenProperties
<1>2. Len(k \o l) # 0 /\ (k \o l)[1] = k[1] /\ k \o l \in Seq(S)
  BY <1>1, ConcatProperties
<1> QED BY <1>2

\* and no step breaks it.
LEMMA StepLife == LInv /\ [Next]_vars => LifeOK'
<1> SUFFICES ASSUME LInv, [Next]_vars PROVE LifeOK'
  OBVIOUS
<1> USE DEF LInv, IInv, LifeOK
<1>0. /\ act \in Ops \cup {NoOp} /\ NoOp \notin Ops /\ fsm \in FsmStates
      /\ jobs \in Seq(JobKinds) /\ Once(jobs)
      /\ cur \in FsmStates \cup {Nowhere} /\ next \in FsmStates \cup {Nowhere}
      /\ Nowhere.op = NoOp /\ Nowhere.h = "none"
      /\ \A s \in FsmStates : s.h \in Handlers /\ s.op \in Ops \cup {NoOp}
      /\ "none" \notin Handlers
  BY ChannelAssumption
  DEF TypeOK, JobsOK, JobKinds, Nowhere, FsmStates, Handlers, StartHandlers, OpHandlers
<1>a. /\ "channelOpen" \notin OpeningHandlers /\ "none" \notin OpeningHandlers
      /\ "channelClosed" \notin OpeningHandlers
      /\ \A o \in Ops : HandlersOf[Kind[o]] \cap OpeningHandlers = {}
      /\ \A o \in Ops : "channelOpen" \notin HandlersOf[Kind[o]]
  BY Belongs DEF OpeningHandlers, StartHandlers, OpHandlers
<1>b. fsm.h = "channelOpen" => fsm.op = NoOp
  BY <1>0, <1>a DEF StatesOK, Fits, FitsIn
<1>1. CASE ActionEntered
  <2>1. act \in Ops /\ Has(jobs, "act") /\ ~ Has(jobs', "act")
    BY <1>0, <1>1, NextJob DEF ActionEntered, JobsOK
  <2>2. /\ fsm' = [h |-> FirstHandler[Kind[act]], op |-> act]
        /\ act' = NoOp
        /\ UNCHANGED <<status, cur, next, loop, phase>>
    BY <1>1 DEF ActionEntered
  <2>3. phase[act] \in Outstanding
    <3>1. phase[act] # "unsent"
      BY <1>0, <1>1, <2>1 DEF ActionEntered, JobsOK
    <3> QED BY <2>1, <3>1 DEF StatesOK, Outstanding
  <2>4. FirstHandler[Kind[act]] \in HandlersOf[Kind[act]] \ {"awaitingUpdateCompletion"}
    BY <2>1, Belongs
  <2>5. StatesOK'
    BY <1>0, <2>1, <2>2, <2>3, <2>4 DEF StatesOK, Fits, FitsIn
  <2>6. OpeningOK'
    BY <1>0, <1>a, <2>1, <2>2, <2>4 DEF OpeningOK
  <2>7. CurOK'
    BY <1>0, <1>a, <2>1, <2>2, <2>4 DEF CurOK
  <2>8. ActJobOK' /\ NextOK'
    BY <2>1, <2>2 DEF ActJobOK, NextOK
  <2> QED BY <2>5, <2>6, <2>7, <2>8
<1>2. CASE MessageEntered
  <2>1. /\ jobs # <<>> /\ Head(jobs) = "loop" /\ loop = "enter"
        /\ cur' = Nowhere /\ next' = Nowhere
        /\ loop' \in {"next", "stuck"}
        /\ jobs' = Tail(jobs) \o ActionJob \o LoopJob
    BY <1>2 DEF MessageEntered, AfterError
  <2>2. /\ Tail(jobs) \in Seq(JobKinds) /\ Once(Tail(jobs))
        /\ Has(Tail(jobs), "act") <=> Has(jobs, "act")
        /\ ~ Has(Tail(jobs), "loop")
    BY <2>1, NextJob
  <2>3. CurOK' /\ NextOK'
    BY <1>0, <2>1 DEF CurOK, NextOK
  <2>4. CASE next = Nowhere
    <3>1. UNCHANGED <<fsm, status, actQueue, act, phase>>
      BY <1>2, <2>4 DEF MessageEntered
    <3>2. ActionJob = <<>>
      BY <3>1 DEF ActionJob
    <3>3. StatesOK' /\ OpeningOK'
      BY <1>0, <1>a, <2>1, <3>1 DEF StatesOK, Fits, FitsIn, OpeningOK
    <3>4. ASSUME Has(jobs', "act") PROVE Has(jobs, "act")
      <4>1. Tail(jobs) \o ActionJob = Tail(jobs)
        BY <2>2, <3>2, ConcatEmptySeq
      <4> QED BY <2>1, <2>2, <3>4, <4>1, LoopJobs
    <3>5. ActJobOK'
      BY <2>1, <3>1, <3>4 DEF ActJobOK
    <3> QED BY <2>3, <3>3, <3>5
  <2>5. CASE next # Nowhere
    <3>1. /\ fsm' = next /\ next \in FsmStates
          /\ status' = IF next.h = "channelOpen" THEN "open" ELSE status
          /\ DequeueAction(next.h, actQueue, phase)
      BY <1>0, <1>2, <2>5 DEF MessageEntered, EnterState
    <3>2. Advance(next.h)
      BY <3>1, DequeueAdvances
    <3>3. StatesOK'
      <4>1. FitsIn(next, act', phase')
        BY <3>2, FitsStays DEF StatesOK, Fits
      <4>2. act' \in Ops => phase'[act'] \in {"started", "unsent"}
        BY <1>0, <3>2, ActStays DEF StatesOK
      <4> QED BY <1>0, <2>1, <3>1, <4>1, <4>2 DEF StatesOK, Fits, FitsIn
    <3>4. OpeningOK'
      <4>1. CASE next.h = "channelOpen"
        BY <1>0, <1>a, <2>1, <3>1, <4>1 DEF OpeningOK
      <4>2. CASE next.h # "channelOpen"
        <5>1. act' = act /\ phase' = phase /\ status' = status
          BY <3>1, <4>2 DEF DequeueAction
        <5> QED BY <1>0, <1>a, <2>1, <2>5, <3>1, <4>2, <5>1 DEF OpeningOK
      <4> QED BY <4>1, <4>2
    <3>5. next.h = "channelOpen" => next.op = NoOp
      BY <1>0, <1>a, <3>1 DEF StatesOK, Fits, FitsIn
    <3>6. /\ Tail(jobs) \o ActionJob \in Seq(JobKinds)
          /\ Once(Tail(jobs) \o ActionJob)
          /\ ~ Has(Tail(jobs) \o ActionJob, "loop")
      BY <1>0, <2>2, <3>1, DequeueJobs DEF TypeOK
    <3>7. Has(jobs', "act") => Has(Tail(jobs) \o ActionJob, "act")
      BY <2>1, <3>6, LoopJobs
    <3>8. ASSUME Has(jobs', "act") PROVE fsm'.op = NoOp
      <4>1. CASE Has(jobs, "act")
        <5>1. cur \in FsmStates /\ cur.h = "channelOpen"
          BY <1>0, <2>1, <4>1 DEF CurOK
        <5>2. cur.op = NoOp
          BY <1>0, <1>a, <5>1 DEF StatesOK, Fits, FitsIn
        <5> QED BY <2>5, <3>1, <5>2 DEF NextOK
      <4>2. CASE ~ Has(jobs, "act")
        <5>1. ActionJob # <<>>
          BY <2>2, <3>7, <3>8, <4>2, ConcatEmptySeq
        <5> QED BY <3>1, <3>2, <3>5, <5>1 DEF Advance
      <4> QED BY <4>1, <4>2
    <3>9. ASSUME Has(jobs', "act")
          PROVE  Head(jobs') = "act" /\ (fsm'.h = "channelOpen" \/ Reentrant)
      <4>1. Tail(jobs) \in {<<>>, <<"act">>}
        BY <2>2, OnlyActs
      <4>2. ActionJob \in {<<>>, <<"act">>}
        BY DEF ActionJob
      <4>3. LoopJob \in {<<>>, <<"loop">>}
        BY DEF LoopJob
      <4>6. ActionJob \in Seq(JobKinds)
        BY <4>2, SingleJobs
      <4>7. LoopJob \in Seq(JobKinds)
        BY <4>3, SingleJobs
      <4>4. CASE Tail(jobs) = <<"act">>
        <5>1. Has(jobs, "act")
          BY <2>2, <4>4, HasSingle
        <5>2. Reentrant
          BY <2>1, <5>1 DEF ActJobOK
        <5>3. Head(jobs') = "act"
          <6>1. /\ Tail(jobs) \o ActionJob # <<>>
                /\ Head(Tail(jobs) \o ActionJob) = "act"
            BY <2>2, <4>4, <4>6, SingleJobs, HeadStays
          <6> QED BY <2>1, <3>6, <4>7, <6>1, SingleJobs, HeadStays
        <5> QED BY <5>2, <5>3
      <4>5. CASE Tail(jobs) = <<>>
        <5>1. ActionJob = <<"act">>
          <6>1. Tail(jobs) \o <<>> = <<>>
            BY <2>2, <4>5, ConcatEmptySeq
          <6> QED BY <3>7, <3>9, <4>2, <4>5, <6>1, HasEmpty
        <5>2. next.h = "channelOpen"
          BY <3>2, <5>1 DEF Advance
        <5>3. Head(jobs') = "act"
          <6>1. Tail(jobs) \o ActionJob = <<"act">>
            BY <4>5, <4>6, <5>1, ConcatEmptySeq
          <6> QED BY <2>1, <3>6, <4>7, <6>1, SingleJobs, HeadStays
        <5> QED BY <3>1, <5>2, <5>3
      <4> QED BY <4>1, <4>4, <4>5
    <3>10. ActJobOK'
      BY <3>8, <3>9 DEF ActJobOK
    <3> QED BY <2>3, <3>3, <3>4, <3>10
  <2> QED BY <2>4, <2>5
<1>3. CASE NextMessage
  <2>1. jobs # <<>> /\ Head(jobs) = "loop" /\ loop = "next"
    BY <1>3 DEF NextMessage
  <2>2. /\ Tail(jobs) \in Seq(JobKinds) /\ Once(Tail(jobs))
        /\ Has(Tail(jobs), "act") <=> Has(jobs, "act")
        /\ ~ Has(Tail(jobs), "loop")
    BY <2>1, NextJob
  <2>3. CASE msgQueue = <<>>
    <3>1. /\ UNCHANGED <<fsm, status, cur, next, act, phase>>
          /\ loop' = "idle" /\ jobs' = Tail(jobs)
      BY <1>3, <2>3 DEF NextMessage
    <3>2. cur = Nowhere /\ next = Nowhere
      BY <2>1 DEF CurOK
    <3>3. Has(jobs', "act") => fsm.h = "channelOpen" /\ Reentrant
      BY <2>1, <2>2, <3>1 DEF ActJobOK
    <3>4. OpeningOK' /\ StatesOK' /\ NextOK'
      BY <3>1 DEF OpeningOK, StatesOK, Fits, FitsIn, NextOK
    <3>5. CurOK' /\ ActJobOK'
      BY <1>0, <1>b, <3>1, <3>2, <3>3 DEF CurOK, ActJobOK
    <3> QED BY <3>4, <3>5
  <2>4. CASE msgQueue # <<>>
    <3>1. Head(msgQueue) \in Messages
      BY <2>4, HeadTailProperties DEF TypeOK
    <3>2. HandleMessage(Head(msgQueue), Tail(jobs))
      BY <1>3, <2>4 DEF NextMessage
    <3> QED BY <2>1, <2>2, <3>1, <3>2, HandleMessageLife
  <2> QED BY <2>3, <2>4
<1>4. ASSUME NEW m \in Messages, Receive(m) PROVE LifeOK'
  <2>1. CASE loop = "idle"
    <3>1. HandleMessage(m, <<>>) /\ jobs = <<>>
      BY <1>4, <2>1 DEF Receive
    <3>2. /\ <<>> \in Seq(JobKinds) /\ Once(<<>>)
          /\ ~ Has(<<>>, "loop") /\ ~ Has(<<>>, "act")
      BY HasEmpty
    <3> QED BY <2>1, <3>1, <3>2, HandleMessageLife
  <2>2. CASE loop # "idle"
    BY <1>4, <2>2
    DEF Receive, OpeningOK, StatesOK, Fits, FitsIn, CurOK, ActJobOK, NextOK
  <2> QED BY <2>1, <2>2
<1>5. CASE RpcReply
  <2>1. /\ loop = "rpc" /\ loop' = "enter" /\ jobs' = <<"loop">>
        /\ next' \in {next, [h |-> "channelOpen", op |-> NoOp]}
        /\ UNCHANGED <<fsm, status, cur, act, phase>>
    BY <1>5 DEF RpcReply
  <2>2. next = Nowhere /\ cur # Nowhere /\ cur.h = "awaitingReconnection" /\ cur = fsm
    BY <2>1 DEF CurOK
  <2>3. ~ Has(jobs', "act")
    BY <2>1, HasSingle
  <2>4. cur.op = NoOp
    BY <1>0, <1>a, <2>2 DEF StatesOK, Fits, FitsIn, OpeningHandlers, StartHandlers
  <2>5. OpeningOK'
    BY <1>a, <1>0, <2>1, <2>2 DEF OpeningOK, OpeningHandlers, StartHandlers
  <2>6. StatesOK'
    BY <1>0, <2>1, <2>2 DEF StatesOK, Fits, FitsIn
  <2>7. CurOK' /\ ActJobOK' /\ NextOK'
    BY <1>0, <1>a, <2>1, <2>2, <2>3, <2>4 DEF CurOK, ActJobOK, NextOK
  <2> QED BY <2>5, <2>6, <2>7
<1>6. CASE WsClosed
  BY <1>6
  DEF WsClosed, OpeningOK, StatesOK, Fits, FitsIn, CurOK, ActJobOK, NextOK
<1>7. ASSUME NEW o \in Ops, Call(o) PROVE LifeOK'
  <2>1. /\ Reentrant \/ jobs = <<>>
        /\ EnqueueAction(o) /\ jobs' = jobs \o ActionJob
        /\ UNCHANGED <<fsm, status, loop, cur, next>>
    BY <1>7 DEF Call, UserMayRun
  <2>2. Advance(fsm.h)
    BY <2>1, EnqueueAdvances
  <2>3. StatesOK'
    <3>1. FitsIn(fsm, act', phase') /\ FitsIn(cur, act', phase') /\ FitsIn(next, act', phase')
      BY <2>2, FitsStays DEF StatesOK, Fits
    <3>2. act' \in Ops => phase'[act'] \in {"started", "unsent"}
      BY <1>0, <2>2, ActStays DEF StatesOK
    <3> QED BY <2>1, <3>1, <3>2 DEF StatesOK, Fits
  <2>4. OpeningOK'
    <3>1. CASE fsm.h = "channelOpen"
      BY <1>a, <2>1, <3>1 DEF OpeningOK
    <3>2. CASE fsm.h # "channelOpen"
      <4>1. /\ act' = act
            /\ \A x \in Ops : phase'[x] = phase[x] \/ phase'[x] = "queued" \/ x \notin Ops
        BY <1>0, <1>7, <2>1, <3>2 DEF EnqueueAction, DequeueAction, TypeOK
      <4> QED BY <2>1, <4>1 DEF OpeningOK
    <3> QED BY <3>1, <3>2
  <2>5. ActionJob \in {<<>>, <<"act">>} /\ (ActionJob # <<>> => fsm.h = "channelOpen")
    BY <2>2 DEF Advance, ActionJob
  <2>8. NextOK'
    <3>1. ASSUME cur.op \in Ops, phase[cur.op] \notin Outstanding
          PROVE  phase'[cur.op] \notin Outstanding
      BY <1>0, <2>2, <3>1 DEF Advance, StatesOK, Fits, FitsIn, Outstanding, Settled
    <3> QED BY <2>1, <3>1 DEF NextOK
  <2>6. CASE ActionJob = <<>>
    <3>1. jobs' = jobs
      BY <1>0, <2>1, <2>6, ConcatEmptySeq
    <3> QED BY <2>1, <2>3, <2>4, <2>8, <3>1 DEF CurOK, ActJobOK
  <2>7. CASE ActionJob = <<"act">>
    <3>1. fsm.h = "channelOpen" /\ fsm.op = NoOp
      BY <1>b, <2>5, <2>7
    <3>2. CurOK'
      BY <1>0, <2>1, <3>1 DEF CurOK
    <3>3. ActJobOK'
      <4>1. CASE Reentrant
        BY <2>1, <3>1, <4>1 DEF ActJobOK
      <4>2. CASE jobs = <<>>
        <5>1. jobs' = <<"act">>
          BY <2>1, <2>7, <4>2, ConcatEmptySeq
        <5> QED BY <2>1, <3>1, <5>1 DEF ActJobOK
      <4> QED BY <2>1, <4>1, <4>2
    <3> QED BY <2>3, <2>4, <2>8, <3>2, <3>3
  <2> QED BY <2>5, <2>6, <2>7
<1>8. ASSUME NEW r \in {"signed", "refused", "thrown"}, SignDone(r) PROVE LifeOK'
  <2>1. /\ loop = "sign" /\ loop' = "enter" /\ jobs' = Append(jobs, "loop")
        /\ next' = Nowhere \/ (r # "thrown" /\ next' = AfterSign(r))
        /\ IF r = "thrown" THEN UNCHANGED phase ELSE Settle(cur.op, r)
        /\ UNCHANGED <<fsm, status, cur, act>>
        /\ Reentrant \/ jobs = <<>>
    BY <1>8 DEF SignDone, UserMayRun
  <2>2. next = Nowhere /\ cur # Nowhere /\ cur \in FsmStates /\ cur.h \in SigningHandlers
    BY <2>1 DEF CurOK, LoopOK
  <2>3. /\ Has(jobs', "act") => Has(jobs, "act")
        /\ Has(jobs, "act") => Head(jobs') = Head(jobs)
    <3>1. "loop" \in JobKinds /\ jobs' = jobs \o <<"loop">>
      BY <1>0, <2>1, AppendIsConcat DEF JobKinds
    <3>2. ~ Has(jobs, "loop")
      BY <2>1 DEF JobsOK
    <3>3. Has(jobs', "act") => Has(jobs, "act")
      BY <1>0, <3>1, <3>2, Extend
    <3>4. jobs # <<>> => Head(jobs') = Head(jobs)
      BY <1>0, <3>1, HeadStays
    <3> QED BY <3>3, <3>4, HasEmpty
  <2>4. \A x \in Ops : phase'[x] =
          IF r # "thrown" /\ x = cur.op /\ phase[x] \in Outstanding THEN r ELSE phase[x]
    BY <2>1 DEF Settle
  <2>5. cur.op \in Ops => cur = fsm /\ cur.h # "awaitingUpdateCompletion" /\ cur.op # act
    BY <1>0, <1>a, <2>2 DEF CurOK, StatesOK, Fits, FitsIn, SigningHandlers
  <2>6. ASSUME NEW s \in FsmStates \cup {Nowhere}, FitsIn(s, act, phase),
               s.op \in Ops /\ s.op = cur.op => s.h # "awaitingUpdateCompletion"
        PROVE  FitsIn(s, act, phase')
    BY <1>8, <2>4, <2>6 DEF FitsIn, Outstanding, Settled
  <2>7. Fits(fsm)' /\ Fits(cur)'
    BY <1>0, <2>1, <2>5, <2>6 DEF StatesOK, Fits
  <2>8. next' # Nowhere => /\ r \in {"signed", "refused"}
                           /\ cur.op \in Ops =>
                                /\ next'.op = cur.op
                                /\ next'.h \in HandlersOf[Kind[cur.op]]
                                /\ next'.h = "awaitingUpdateCompletion" => r = "signed"
                           /\ cur.op = NoOp => next'.op = NoOp
                           /\ cur.h \in OpeningHandlers => next'.h \in OpeningHandlers
                           /\ cur.h \notin OpeningHandlers
                                => next'.h \notin {"none"} \cup OpeningHandlers
    BY <1>8, <2>1, <2>2, AfterSignLife DEF StatesOK
  <2>9. Fits(next)'
    <3>1. CASE next' = Nowhere
      BY <1>0, <3>1 DEF Fits, FitsIn
    <3>2. CASE next' # Nowhere /\ cur.op \in Ops
      BY <1>0, <2>1, <2>4, <2>5, <2>7, <2>8, <3>2 DEF Fits, FitsIn, Outstanding, Settled
    <3>3. CASE next' # Nowhere /\ cur.op = NoOp
      BY <1>0, <2>8, <3>3 DEF Fits, FitsIn
    <3> QED BY <1>0, <2>2, <3>1, <3>2, <3>3
  <2>10. act' \in Ops => phase'[act'] \in {"started", "unsent"}
    BY <2>1, <2>4, <2>5 DEF StatesOK
  <2>11. OpeningOK'
    <3>1. fsm.h \in OpeningHandlers
            => \A o \in Ops : phase'[o] = phase[o]
      BY <2>4 DEF OpeningOK, Outstanding
    <3>2. fsm.h \in OpeningHandlers
            => cur.h \in OpeningHandlers
      BY <1>0, <2>2 DEF OpeningOK, SigningHandlers, OpeningHandlers, StartHandlers
    <3>3. cur.h \in OpeningHandlers => fsm.h \in OpeningHandlers
      BY DEF OpeningOK
    <3> QED BY <1>0, <1>a, <2>1, <2>8, <3>1, <3>2, <3>3 DEF OpeningOK
  <2>12. CurOK' /\ ActJobOK'
    BY <1>0, <2>1, <2>2, <2>3 DEF CurOK, ActJobOK
  <2>13. NextOK'
    BY <1>0, <1>a, <2>1, <2>2, <2>8 DEF NextOK, SigningHandlers
  <2> QED BY <2>7, <2>9, <2>10, <2>11, <2>12, <2>13 DEF StatesOK
<1>9. CASE Disconnect
  BY <1>9 DEF Disconnect, OpeningOK, StatesOK, Fits, FitsIn, CurOK, ActJobOK, NextOK
<1>10. CASE SendMessage
  BY <1>10 DEF SendMessage, OpeningOK, StatesOK, Fits, FitsIn, CurOK, ActJobOK, NextOK
<1>11. CASE UNCHANGED vars
  BY <1>11 DEF vars, OpeningOK, StatesOK, Fits, FitsIn, CurOK, ActJobOK, NextOK
<1> QED
  BY <1>1, <1>2, <1>3, <1>4, <1>5, <1>6, <1>7, <1>8, <1>9, <1>10, <1>11
  DEF Next, Job

\* The invariant of every reachable state.
THEOREM LifeInvariance == Spec => []LInv
<1>1. Init => LInv
  BY InitInvariant, InitLife DEF LInv
<1>2. LInv /\ [Next]_vars => LInv'
  BY StepInvariant, StepLife DEF LInv
<1> QED BY <1>1, <1>2, PTL DEF Spec

-----------------------------------------------------------------------------
(* Before the channel is open *)

\* What an opening leads to: the next of its handlers, or channelClosed.
BeforeOpen == OpeningHandlers \cup {"channelClosed"}

Untold == told \in {"nothing", "open"}

\* While the node has not told that the channel is open, handlers of its opening
\* are in charge, and come next, and nothing is requested; the state of the
\* channel is awaited only once the node said "open".
UntoldOK ==
  /\ fsm.h = "awaitingChannelsUpdate" \/ next.h = "awaitingChannelsUpdate"
       => told # "nothing"
  /\ Untold => /\ act = NoOp
               /\ \A o \in Ops : phase[o] \in {"idle", "queued"}
               /\ fsm.h \in BeforeOpen
               /\ next.h \in BeforeOpen \cup {"none"}

\* The handlers of the opening, by where they lead.
LEMMA OpeningLeads ==
  ASSUME NEW m \in Messages, Handle(m), fsm.h \in BeforeOpen, next = Nowhere
  PROVE  /\ next'.h \in BeforeOpen \cup {"none", "channelOpen"}
         /\ next'.h = "channelOpen" =>
               UnexpectedWhileOpening(m) \/ fsm.h = "awaitingChannelsUpdate"
         /\ next'.h = "awaitingChannelsUpdate" =>
               fsm.h = "awaitingOpenConfirmation" /\ Info(m, {"open"})
<1> USE DEF GotoWith, Goto, Fail, AskSign, HandleUnexpectedMessage, Nowhere,
            BeforeOpen, OpeningHandlers, StartHandlers, UnexpectedWhileOpening
<1>1. CASE fsm.h = "awaitingConnection" /\ AwaitingConnection(m)
  BY <1>1 DEF AwaitingConnection
<1>2. CASE fsm.h = "awaitingReestablish" /\ AwaitingReestablish(m)
  BY <1>2 DEF AwaitingReestablish
<1>3. CASE fsm.h = "awaitingChannelReestablished" /\ AwaitingChannelReestablished(m)
  BY <1>3 DEF AwaitingChannelReestablished
<1>4. CASE fsm.h = "awaitingReconnection" /\ AwaitingReconnection(m)
  BY <1>4 DEF AwaitingReconnection
<1>5. CASE fsm.h = "awaitingChannelCreateTx" /\ AwaitingChannelCreateTx(m)
  BY <1>5 DEF AwaitingChannelCreateTx
<1>6. CASE fsm.h = "awaitingOnChainTx" /\ AwaitingOnChainTx(m)
  BY <1>6 DEF AwaitingOnChainTx
<1>7. CASE fsm.h = "awaitingBlockInclusion" /\ AwaitingBlockInclusion(m)
  BY <1>7 DEF AwaitingBlockInclusion
<1>8. CASE fsm.h = "awaitingOpenConfirmation" /\ AwaitingOpenConfirmation(m)
  BY <1>8 DEF AwaitingOpenConfirmation
<1>9. CASE fsm.h = "awaitingChannelsUpdate" /\ AwaitingChannelsUpdate(m)
  BY <1>9 DEF AwaitingChannelsUpdate
<1>10. CASE fsm.h = "channelClosed" /\ ChannelClosed(m)
  BY <1>10 DEF ChannelClosed
<1> QED BY <1>1, <1>2, <1>3, <1>4, <1>5, <1>6, <1>7, <1>8, <1>9, <1>10 DEF Handle

\* A message handled keeps it,
LEMMA HandleMessageUntold ==
  ASSUME LInv, UntoldOK, NEW m \in Messages, NEW j, HandleMessage(m, j),
         loop \in {"idle", "next"}
  PROVE  UntoldOK'
<1> USE DEF LInv, IInv, LifeOK
<1>0. next = Nowhere /\ fsm' = fsm /\ told' = Told(m)
      /\ told \in {"nothing", "open", "state", "unexpected"}
  BY DEF CurOK, HandleMessage, TypeOK
<1>1. CASE ~Untold
  BY <1>0, <1>1 DEF Told, Untold, UntoldOK
<1>2. CASE Untold
  <2>1. fsm.h \in BeforeOpen /\ act = NoOp /\ \A o \in Ops : phase[o] \in {"idle", "queued"}
    BY <1>2 DEF UntoldOK
  <2>2. fsm.h # "channelOpen"
    BY <2>1 DEF BeforeOpen, OpeningHandlers, StartHandlers
  <2>3. Handle(m) /\ UNCHANGED act
    BY <2>2 DEF HandleMessage
  <2>4. \A o \in Ops : phase'[o] = phase[o]
    BY <1>0, <2>1, <2>3, HandleLife DEF StatesOK, HandlerLife, OwnSettled, Outstanding
  <2>5. /\ next'.h \in BeforeOpen \cup {"none", "channelOpen"}
        /\ next'.h = "channelOpen" =>
              UnexpectedWhileOpening(m) \/ fsm.h = "awaitingChannelsUpdate"
        /\ next'.h = "awaitingChannelsUpdate" =>
              fsm.h = "awaitingOpenConfirmation" /\ Info(m, {"open"})
    BY <1>0, <2>1, <2>3, OpeningLeads
  <2>6. fsm.h = "awaitingChannelsUpdate" => told = "open"
    BY <1>2 DEF UntoldOK, Untold
  <2>7. Untold' => next'.h # "channelOpen"
    BY <1>0, <1>2, <2>5, <2>6 DEF Told, Untold
  <2>8. fsm.h = "awaitingChannelsUpdate" => told' # "nothing"
    BY <1>0, <2>6 DEF Told
  <2>9. next'.h = "awaitingChannelsUpdate" => told' # "nothing"
    BY <1>0, <2>5 DEF Told, UnexpectedWhileOpening
  <2> QED BY <1>0, <2>1, <2>3, <2>4, <2>5, <2>7, <2>8, <2>9 DEF UntoldOK
<1> QED BY <1>1, <1>2

\* and so does every other step.
LEMMA StepUntold == LInv /\ UntoldOK /\ [Next]_vars => UntoldOK'
<1> SUFFICES ASSUME LInv, UntoldOK, [Next]_vars PROVE UntoldOK'
  OBVIOUS
<1> USE DEF LInv, IInv, LifeOK
<1>0. /\ act \in Ops \cup {NoOp} /\ NoOp \notin Ops /\ Nowhere.h = "none"
      /\ next \in FsmStates \cup {Nowhere} /\ \A s \in FsmStates : s.h # "none"
      /\ "channelOpen" \notin BeforeOpen
      /\ told \in {"nothing", "open", "state", "unexpected"}
  BY ChannelAssumption
  DEF TypeOK, Nowhere, FsmStates, Handlers, BeforeOpen, OpeningHandlers, StartHandlers, OpHandlers
<1>1. CASE ActionEntered
  <2>1. Has(jobs, "act") /\ act \in Ops /\ UNCHANGED <<next, told>>
        /\ fsm' = [h |-> FirstHandler[Kind[act]], op |-> act]
    BY <1>0, <1>1, NextJob DEF ActionEntered, JobsOK
  <2>2. ~Untold
    BY <1>0, <2>1 DEF UntoldOK
  <2> QED BY <1>0, <2>1, <2>2 DEF UntoldOK, Untold
<1>2. CASE MessageEntered
  <2>1. next' = Nowhere /\ told' = told
    BY <1>2 DEF MessageEntered
  <2>2. CASE next = Nowhere
    <3>1. UNCHANGED <<fsm, act, phase>>
      BY <1>2, <2>2 DEF MessageEntered
    <3> QED BY <1>0, <2>1, <3>1 DEF UntoldOK, Untold
  <2>3. CASE next # Nowhere
    <3>1. fsm' = next /\ DequeueAction(next.h, actQueue, phase)
      BY <1>2, <2>3 DEF MessageEntered, EnterState
    <3>2. Untold => next.h \in BeforeOpen
      BY <1>0, <2>3 DEF UntoldOK
    <3>3. Untold => UNCHANGED <<act, phase>>
      BY <1>0, <3>1, <3>2 DEF DequeueAction
    <3> QED BY <1>0, <2>1, <3>1, <3>2, <3>3 DEF UntoldOK, Untold
  <2> QED BY <2>2, <2>3
<1>3. CASE NextMessage
  <2>1. loop = "next"
    BY <1>3 DEF NextMessage
  <2>2. CASE msgQueue = <<>>
    BY <1>3, <2>2 DEF NextMessage, UntoldOK, Untold
  <2>3. CASE msgQueue # <<>>
    <3>1. Head(msgQueue) \in Messages
      BY <2>3, HeadTailProperties DEF TypeOK
    <3>2. HandleMessage(Head(msgQueue), Tail(jobs))
      BY <1>3, <2>3 DEF NextMessage
    <3> QED BY <2>1, <3>1, <3>2, HandleMessageUntold
  <2> QED BY <2>2, <2>3
<1>4. ASSUME NEW m \in Messages, Receive(m) PROVE UntoldOK'
  <2>1. CASE loop = "idle"
    <3>1. HandleMessage(m, <<>>)
      BY <1>4, <2>1 DEF Receive
    <3> QED BY <2>1, <3>1, HandleMessageUntold
  <2>2. CASE loop # "idle"
    BY <1>4, <2>2 DEF Receive, UntoldOK, Untold
  <2> QED BY <2>1, <2>2
<1>5. CASE RpcReply
  <2>1. UNCHANGED <<fsm, act, phase>>
    BY <1>5 DEF RpcReply
  <2>2. CASE UNCHANGED <<next, told>>
    BY <2>1, <2>2 DEF UntoldOK, Untold
  <2>3. CASE told' = "state"
    BY <2>3 DEF UntoldOK, Untold
  <2> QED BY <1>5, <2>2, <2>3 DEF RpcReply
<1>6. CASE WsClosed
  BY <1>6 DEF WsClosed, UntoldOK, Untold
<1>7. ASSUME NEW o \in Ops, Call(o) PROVE UntoldOK'
  <2>1. UNCHANGED <<fsm, next, told>> /\ phase[o] = "idle"
        /\ DequeueAction(fsm.h, Append(actQueue, o), [phase EXCEPT ![o] = "queued"])
    BY <1>7 DEF Call, EnqueueAction
  <2>2. Untold => act' = act /\ phase' = [phase EXCEPT ![o] = "queued"]
    BY <1>0, <2>1 DEF UntoldOK, DequeueAction
  <2>3. Untold => \A x \in Ops : phase'[x] \in {"idle", "queued"}
    BY <2>2 DEF UntoldOK, TypeOK
  <2> QED BY <2>1, <2>2, <2>3 DEF UntoldOK, Untold
<1>8. ASSUME NEW r \in {"signed", "refused", "thrown"}, SignDone(r) PROVE UntoldOK'
  <2>1. /\ loop = "sign" /\ UNCHANGED <<fsm, told, act>>
        /\ next' = Nowhere \/ (r # "thrown" /\ next' = AfterSign(r))
        /\ IF r = "thrown" THEN UNCHANGED phase ELSE Settle(cur.op, r)
    BY <1>8 DEF SignDone
  <2>2. CASE ~Untold
    BY <2>1, <2>2 DEF UntoldOK, Untold
  <2>3. CASE Untold
    <3>1. fsm.h \in BeforeOpen /\ act = NoOp /\ \A o \in Ops : phase[o] \in {"idle", "queued"}
      BY <2>3 DEF UntoldOK
    <3>2. \A o \in Ops : phase'[o] = phase[o]
      BY <2>1, <3>1 DEF Settle, Outstanding
    <3>3. cur \in FsmStates /\ cur.h \in SigningHandlers
      BY <2>1 DEF LoopOK
    <3>4. cur.h = "awaitingChannelCreateTx"
      <4>1. CASE fsm.h \in OpeningHandlers
        BY <1>0, <3>3, <4>1 DEF OpeningOK, CurOK, SigningHandlers, OpeningHandlers, StartHandlers
      <4>2. CASE fsm.h = "channelClosed"
        <5>1. cur.h = "channelOpen" => fsm.op \in Ops /\ fsm.h = FirstHandler[Kind[fsm.op]]
          BY <4>2 DEF CurOK
        <5>2. cur.h # "channelOpen" => cur = fsm
          BY <1>0, <3>3 DEF CurOK
        <5>3. fsm.op \in Ops => phase[fsm.op] \in Outstanding \cup Settled
          BY DEF StatesOK, Fits, FitsIn
        <5> QED BY <3>1, <3>3, <4>2, <5>1, <5>2, <5>3 DEF SigningHandlers, Outstanding, Settled
      <4> QED BY <3>1, <4>1, <4>2 DEF BeforeOpen
    <3>5. r # "thrown" => AfterSign(r).h = "awaitingOnChainTx"
      BY <1>8, <3>4 DEF AfterSign, AfterSigned, AfterRefused
    <3>6. next'.h \in {"none", "awaitingOnChainTx"}
      BY <1>0, <2>1, <3>5
    <3> QED BY <2>1, <2>3, <3>1, <3>2, <3>6
        DEF UntoldOK, Untold, BeforeOpen, OpeningHandlers
  <2> QED BY <2>2, <2>3
<1>9. CASE Disconnect
  BY <1>9 DEF Disconnect, UntoldOK, Untold
<1>10. CASE SendMessage
  BY <1>10 DEF SendMessage, UntoldOK, Untold
<1>11. CASE UNCHANGED vars
  BY <1>11 DEF vars, UntoldOK, Untold
<1> QED
  BY <1>1, <1>2, <1>3, <1>4, <1>5, <1>6, <1>7, <1>8, <1>9, <1>10, <1>11
  DEF Next, Job

\* No operation is requested before the node said "open" and told the channel's
\* state, whatever the start and the messages, unless an unexpected message took a
\* handler of the opening to channelOpen (internal.ts:318-329, handlers.ts:69-307).
THEOREM NothingBeforeOpen == Spec => []NothingRequestedBeforeOpen
<1>1. Init => UntoldOK
  BY ChannelAssumption
  DEF Init, UntoldOK, Untold, Nowhere, BeforeOpen, OpeningHandlers, StartHandlers
<1>2. LInv /\ UntoldOK /\ [Next]_vars => UntoldOK'
  BY StepUntold
<1>3. UntoldOK => NothingRequestedBeforeOpen
  BY DEF UntoldOK, Untold, NothingRequestedBeforeOpen
<1> QED BY <1>1, <1>2, <1>3, LifeInvariance, PTL DEF Spec

-----------------------------------------------------------------------------
(* What a step does to the phases of the operations *)

\* A message is handled on behalf of the operation in charge, or a listener's
\* call of another one begins.
LEMMA HandleMessagePhase ==
  ASSUME LInv, loop \in {"idle", "next"}, NEW m \in Messages, NEW j, HandleMessage(m, j)
  PROVE  /\ OwnSettled \/ Advance(fsm.h)
         /\ (OwnSettled /\ act' = act) \/ Reentrant
         /\ fsm' = fsm
<1> USE DEF LInv, IInv, LifeOK
<1>1. next = Nowhere
  BY DEF CurOK
<1>2. CASE Handle(m) /\ UNCHANGED <<actQueue, act>>
  BY <1>1, <1>2, HandleLife DEF StatesOK, HandlerLife, HandleMessage
<1>3. CASE UNCHANGED <<actQueue, act, phase>>
  BY <1>3 DEF OwnSettled, HandleMessage
<1>4. CASE Reentrant /\ \E o \in Ops : EnqueueAction(o)
  BY <1>4, EnqueueAdvances DEF HandleMessage
<1> QED BY <1>2, <1>3, <1>4 DEF HandleMessage

\* The phases change in three ways only: a handler settles the promise of its
\* operation, the user's answer is noted for it, or a queue moves.
LEMMA StepPhase ==
  ASSUME LInv, Next
  PROVE  \/ OwnSettled
         \/ \E h : Advance(h)
         \/ \E r \in {"signed", "refused", "thrown"} : SignDone(r)
<1> USE DEF LInv, IInv, LifeOK
<1>0. UNCHANGED phase => OwnSettled
  BY DEF OwnSettled
<1>1. CASE ActionEntered \/ RpcReply \/ WsClosed \/ Disconnect \/ SendMessage
  BY <1>0, <1>1 DEF ActionEntered, RpcReply, WsClosed, Disconnect, SendMessage
<1>2. CASE MessageEntered
  <2>1. UNCHANGED phase \/ DequeueAction(next.h, actQueue, phase)
    BY <1>2 DEF MessageEntered, EnterState
  <2> QED BY <1>0, <2>1, DequeueAdvances
<1>3. CASE NextMessage
  <2>1. CASE msgQueue = <<>>
    BY <1>0, <1>3, <2>1 DEF NextMessage
  <2>2. CASE msgQueue # <<>>
    <3>1. Head(msgQueue) \in Messages
      BY <2>2, HeadTailProperties DEF TypeOK
    <3> QED BY <1>3, <2>2, <3>1, HandleMessagePhase DEF NextMessage
  <2> QED BY <2>1, <2>2
<1>4. ASSUME NEW m \in Messages, Receive(m)
      PROVE  OwnSettled \/ (\E h : Advance(h)) \/ UNCHANGED phase
  BY <1>4, HandleMessagePhase DEF Receive
<1>5. ASSUME NEW o \in Ops, Call(o) PROVE Advance(fsm.h)
  BY <1>5, EnqueueAdvances DEF Call
<1> QED BY <1>0, <1>1, <1>2, <1>3, <1>4, <1>5 DEF Next, Job

\* update() resolves as accepted only after its sign function returned a
\* transaction (Spend.ts:48-100).
THEOREM AcceptedWasSigned == Spec => AcceptedUpdateWasSigned
<1>1. ASSUME LInv, [Next]_vars, NEW o \in Ops,
             Kind[o] = "update", phase[o] # "accepted", phase'[o] = "accepted"
      PROVE  phase[o] = "signed"
  <2>1. Next
    BY <1>1 DEF vars
  <2>2. OwnSettled
    <3>1. ASSUME NEW h, Advance(h) PROVE FALSE
      BY <1>1, <3>1, ChannelAssumption DEF Advance
    <3>2. ASSUME NEW r \in {"signed", "refused", "thrown"}, SignDone(r) PROVE FALSE
      BY <1>1, <3>2 DEF SignDone, Settle
    <3> QED BY <1>1, <2>1, <3>1, <3>2, StepPhase
  <2>3. o = fsm.op /\ phase[o] \in Outstanding /\ fsm.h # "awaitingOffChainTx"
    BY <1>1, <2>2 DEF OwnSettled
  <2>4. fsm.h \in {"awaitingOffChainTx", "awaitingUpdateCompletion"}
    BY <1>1, <2>3 DEF LInv, LifeOK, StatesOK, Fits, FitsIn, HandlersOf
  <2> QED BY <1>1, <2>3, <2>4 DEF LInv, LifeOK, StatesOK, Fits, FitsIn
<1>2. LInv /\ [Next]_vars =>
        [\A o \in Ops :
           Kind[o] = "update" /\ phase[o] # "accepted" /\ phase'[o] = "accepted"
             => phase[o] = "signed"]_vars
  BY <1>1
<1> QED BY <1>2, LifeInvariance, PTL DEF Spec, AcceptedUpdateWasSigned

-----------------------------------------------------------------------------
(* When the FSM loses an operation *)

\* A step that handles a message, or waits, keeps track of what was tracked.
LEMMA TrackKept ==
  ASSUME NEW o \in Ops, Tracked(o), loop = "enter" => next' = next /\ loop' = loop,
         fsm' = fsm, act = o => act' = o
  PROVE  Tracked(o)'
BY DEF Tracked

\* An operation the FSM loses was settled, or channelOpen's result was stale.
LEMMA StepDrops ==
  ASSUME LInv, [Next]_vars, NEW o \in Ops, Tracked(o), ~ Tracked(o)',
         phase'[o] \in Outstanding
  PROVE  MessageEntered /\ cur.h = "channelOpen" /\ fsm.op = o
<1> USE DEF LInv, IInv, LifeOK
<1>0. NoOp \notin Ops /\ act \in Ops \cup {NoOp} /\ Nowhere.op = NoOp
      /\ next \in FsmStates \cup {Nowhere} /\ cur \in FsmStates \cup {Nowhere}
      /\ \A s \in FsmStates : s.h # "none"
  BY ChannelAssumption
  DEF TypeOK, Nowhere, FsmStates, Handlers, StartHandlers, OpHandlers
<1>1. CASE ActionEntered
  <2>1. /\ fsm'.op = act /\ UNCHANGED <<next, loop>> /\ Has(jobs, "act")
    BY <1>1, NextJob DEF ActionEntered
  <2>2. fsm.op = NoOp
    BY <2>1 DEF ActJobOK
  <2> QED BY <1>0, <2>1, <2>2 DEF Tracked
<1>2. CASE MessageEntered
  <2>1. loop = "enter" /\ act = o => act' = o
    BY <1>0, <1>2 DEF MessageEntered, EnterState, DequeueAction
  <2>2. CASE next = Nowhere
    BY <1>0, <1>2, <2>1, <2>2 DEF MessageEntered, Tracked
  <2>3. CASE next # Nowhere
    <3>1. /\ fsm' = next /\ loop = "enter"
          /\ UNCHANGED phase \/ DequeueAction(next.h, actQueue, phase)
      BY <1>2, <2>3 DEF MessageEntered, EnterState
    <3>2. fsm.op = o /\ next.op # o
      BY <1>2, <2>1, <3>1 DEF MessageEntered, Tracked
    <3>3. phase[o] \in Outstanding
      <4>1. phase[o] \in Outstanding \cup Settled
        BY <3>2 DEF StatesOK, Fits, FitsIn
      <4>2. o # act'
        BY <3>2 DEF Tracked
      <4> QED BY <3>1, <4>1, <4>2, DequeueAdvances DEF Advance, Outstanding, Settled
    <3>4. cur.h \in {"none", "channelOpen"}
      BY <3>2, <3>3, <2>3 DEF CurOK, NextOK
    <3>5. cur \in FsmStates
      BY <1>0, <3>1 DEF CurOK
    <3> QED BY <1>0, <1>2, <3>2, <3>4, <3>5
  <2> QED BY <2>2, <2>3
<1>3. CASE NextMessage
  <2>1. loop = "next" /\ fsm' = fsm
    BY <1>3 DEF NextMessage, HandleMessage
  <2>2. CASE msgQueue = <<>>
    BY <1>3, <2>1, <2>2, TrackKept DEF NextMessage
  <2>3. CASE msgQueue # <<>>
    <3>1. Head(msgQueue) \in Messages /\ HandleMessage(Head(msgQueue), Tail(jobs))
      BY <1>3, <2>3, HeadTailProperties DEF TypeOK, NextMessage
    <3>2. act = o => act' = o
      BY <1>0, <3>1 DEF HandleMessage, EnqueueAction, DequeueAction
    <3> QED BY <2>1, <3>2, TrackKept
  <2> QED BY <2>2, <2>3
<1>4. ASSUME NEW m \in Messages, Receive(m) PROVE FALSE
  <2>1. CASE loop = "idle"
    <3>1. HandleMessage(m, <<>>)
      BY <1>4, <2>1 DEF Receive
    <3>2. fsm' = fsm /\ (act = o => act' = o)
      BY <1>0, <3>1 DEF HandleMessage, EnqueueAction, DequeueAction
    <3> QED BY <2>1, <3>2, TrackKept
  <2>2. CASE loop # "idle"
    BY <1>4, <2>2 DEF Receive, Tracked
  <2> QED BY <2>1, <2>2
<1>5. CASE RpcReply
  BY <1>5 DEF RpcReply, Tracked
<1>6. CASE WsClosed \/ Disconnect \/ SendMessage \/ UNCHANGED vars
  BY <1>6 DEF WsClosed, Disconnect, SendMessage, vars, Tracked
<1>7. ASSUME NEW x \in Ops, Call(x) PROVE FALSE
  <2>1. UNCHANGED <<fsm, loop, next>> /\ (act = o => act' = o)
    BY <1>0, <1>7 DEF Call, EnqueueAction, DequeueAction
  <2> QED BY <2>1, TrackKept
<1>8. ASSUME NEW r \in {"signed", "refused", "thrown"}, SignDone(r) PROVE FALSE
  BY <1>8 DEF SignDone, Tracked
<1> QED BY <1>1, <1>2, <1>3, <1>4, <1>5, <1>6, <1>7, <1>8 DEF Next, Job

\* An unsettled operation is lost only to the stale result of channelOpen
\* (internal.ts:349-364).
THEOREM DropsAreStale == Spec => DroppedOnlyByStaleResult
<1>1. LInv /\ [Next]_vars =>
        [\A o \in Ops :
           Tracked(o) /\ ~Tracked(o)' /\ phase'[o] \in Outstanding
             => cur.h = "channelOpen" /\ fsm.op = o]_vars
  BY StepDrops
<1> QED BY <1>1, LifeInvariance, PTL DEF Spec, DroppedOnlyByStaleResult

-----------------------------------------------------------------------------
(* When user code runs only between messages *)

\* Without reentrancy, no operation starts while dequeueMessage has a result to
\* enter, and a channel that is closed has reached channelClosed or is about to.
ClosedOK ==
  /\ loop = "enter" => ~ Has(jobs, "act")
  /\ status \in {"closed", "died"} =>
       \/ fsm.h = "channelClosed"
       \/ fsm.h = "channelOpen" /\ loop = "enter" /\ next.h = "channelClosed"

\* What is due when a message is handled, without reentrancy.
LEMMA HandleMessageAlone ==
  ASSUME ~Reentrant, LInv, loop \in {"idle", "next"}, NEW m \in Messages,
         NEW j \in Seq(JobKinds), Once(j), ~ Has(j, "loop"),
         Has(j, "act") <=> Has(jobs, "act"), Has(jobs, "act") => Head(jobs) # "act",
         HandleMessage(m, j)
  PROVE  /\ ~ Has(jobs', "act") /\ act' = act /\ fsm' = fsm /\ cur' = fsm
         /\ fsm.h # "channelOpen" => HandlerLife
         /\ fsm.h = "channelOpen" => OpenLife(m) /\ phase' = phase
<1> USE DEF LInv, IInv, LifeOK
<1>1. ~ Has(j, "act") /\ next = Nowhere
  BY DEF ActJobOK, CurOK
<1>2. jobs' = j \o LoopJob /\ act' = act /\ fsm' = fsm /\ cur' = fsm
  BY DEF HandleMessage
<1>3. ~ Has(jobs', "act")
  BY <1>1, <1>2, LoopJobs
<1>4. CASE Handle(m)
  BY <1>1, <1>2, <1>3, <1>4, HandleLife DEF StatesOK, Handle
<1>5. CASE fsm.h = "channelOpen" /\ ChannelOpen(m) /\ UNCHANGED phase
  BY <1>2, <1>3, <1>5, ChannelOpenLife
<1> QED BY <1>4, <1>5 DEF HandleMessage

\* The step of a message, from a closed channel and towards one.
LEMMA HandleMessageClosed ==
  ASSUME ~Reentrant, LInv, ClosedOK, loop \in {"idle", "next"}, NEW m \in Messages,
         NEW j \in Seq(JobKinds), Once(j), ~ Has(j, "loop"),
         Has(j, "act") <=> Has(jobs, "act"), Has(jobs, "act") => Head(jobs) # "act",
         HandleMessage(m, j)
  PROVE  /\ ClosedOK'
         /\ fsm.h = "channelClosed" =>
              /\ fsm'.h = "channelClosed"
              /\ \A o \in Ops : phase'[o] \in Outstanding => phase[o] \in Outstanding
         /\ status \in {"closed", "died"} => status' = status
<1>1. /\ ~ Has(jobs', "act") /\ fsm' = fsm
      /\ fsm.h # "channelOpen" => HandlerLife
      /\ fsm.h = "channelOpen" => OpenLife(m)
  BY HandleMessageAlone
<1>2. CASE fsm.h # "channelOpen"
  <2>1. "channelClosed" \notin OpeningHandlers
    BY DEF OpeningHandlers, StartHandlers
  <2> QED BY <1>1, <1>2, <2>1 DEF ClosedOK, HandlerLife, OwnSettled, Settled, Outstanding
<1>3. CASE fsm.h = "channelOpen"
  BY <1>1, <1>3 DEF ClosedOK, OpenLife
<1> QED BY <1>2, <1>3

\* Every step, from a closed channel and towards one.
LEMMA StepClosed ==
  ASSUME ~Reentrant, LInv, ClosedOK, [Next]_vars
  PROVE  /\ ClosedOK'
         /\ fsm.h = "channelClosed" =>
              /\ fsm'.h = "channelClosed"
              /\ \A o \in Ops : phase'[o] \in Outstanding => phase[o] \in Outstanding
         /\ status \in {"closed", "died"} => status' \in {status, "disconnected"}
<1> USE DEF LInv, IInv, LifeOK
<1>0. /\ NoOp \notin Ops /\ cur \in FsmStates \cup {Nowhere}
      /\ Nowhere.h = "none" /\ \A s \in FsmStates : s.h # "none"
      /\ \A o \in Ops : FirstHandler[Kind[o]] \notin {"channelOpen", "channelClosed"}
  BY ChannelAssumption, Belongs, FirstHandlerType
  DEF TypeOK, Nowhere, FsmStates, Handlers, StartHandlers, OpHandlers
<1>c. fsm.h = "channelClosed" /\ next # Nowhere => next.h = "channelClosed"
  BY <1>0 DEF CurOK, NextOK
<1>1. CASE ActionEntered
  <2>1. /\ Has(jobs, "act") /\ UNCHANGED <<status, loop, next, phase>>
        /\ Has(jobs', "act") => FALSE
    BY <1>1, NextJob DEF ActionEntered
  <2>2. fsm.h = "channelOpen"
    BY <2>1 DEF ActJobOK
  <2> QED BY <2>1, <2>2 DEF ClosedOK
<1>2. CASE MessageEntered
  <2>1. loop = "enter" /\ loop' # "enter" /\ next' = Nowhere
    BY <1>2 DEF MessageEntered, AfterError
  <2>2. CASE next = Nowhere
    BY <1>0, <1>2, <2>1, <2>2 DEF MessageEntered, ClosedOK
  <2>3. CASE next # Nowhere
    <3>1. /\ fsm' = next
          /\ status' = IF next.h = "channelOpen" THEN "open" ELSE status
          /\ DequeueAction(next.h, actQueue, phase)
      BY <1>2, <2>3 DEF MessageEntered, EnterState
    <3>2. fsm.h = "channelClosed" => phase' = phase
      BY <1>c, <2>3, <3>1 DEF DequeueAction
    <3> QED BY <1>c, <2>1, <2>3, <3>1, <3>2 DEF ClosedOK
  <2> QED BY <2>2, <2>3
<1>3. CASE NextMessage
  <2>1. jobs # <<>> /\ Head(jobs) = "loop" /\ loop = "next"
    BY <1>3 DEF NextMessage
  <2>2. /\ Tail(jobs) \in Seq(JobKinds) /\ Once(Tail(jobs))
        /\ Has(Tail(jobs), "act") <=> Has(jobs, "act")
        /\ ~ Has(Tail(jobs), "loop")
    BY <2>1, NextJob
  <2>3. CASE msgQueue = <<>>
    BY <1>3, <2>1, <2>3 DEF NextMessage, ClosedOK
  <2>4. CASE msgQueue # <<>>
    <3>1. Head(msgQueue) \in Messages
      BY <2>4, HeadTailProperties DEF TypeOK
    <3>2. HandleMessage(Head(msgQueue), Tail(jobs))
      BY <1>3, <2>4 DEF NextMessage
    <3> QED BY <2>1, <2>2, <3>1, <3>2, HandleMessageClosed
  <2> QED BY <2>3, <2>4
<1>4. ASSUME NEW m \in Messages, Receive(m), loop = "idle"
      PROVE  /\ ClosedOK'
             /\ fsm.h = "channelClosed" =>
                  /\ fsm'.h = "channelClosed"
                  /\ \A o \in Ops : phase'[o] \in Outstanding => phase[o] \in Outstanding
             /\ status \in {"closed", "died"} => status' = status
  <2>1. HandleMessage(m, <<>>) /\ jobs = <<>>
    BY <1>4 DEF Receive
  <2>2. /\ <<>> \in Seq(JobKinds) /\ Once(<<>>)
        /\ ~ Has(<<>>, "loop") /\ ~ Has(<<>>, "act")
    BY HasEmpty
  <2> QED BY <1>4, <2>1, <2>2, HandleMessageClosed
<1>5. ASSUME NEW m \in Messages, Receive(m), loop # "idle"
      PROVE  UNCHANGED <<fsm, status, loop, next, phase, jobs>>
  BY <1>5 DEF Receive
<1>6. CASE RpcReply
  <2>1. fsm.h = "awaitingReconnection" /\ ~ Has(jobs', "act")
    BY <1>0, <1>6, HasSingle DEF RpcReply, CurOK
  <2> QED BY <1>6, <2>1 DEF RpcReply, ClosedOK
<1>7. CASE WsClosed \/ Disconnect \/ SendMessage \/ UNCHANGED vars
  BY <1>7 DEF WsClosed, Disconnect, SendMessage, vars, ClosedOK
<1>8. ASSUME NEW o \in Ops, Call(o)
      PROVE  /\ UNCHANGED <<fsm, status, loop, next>> /\ loop # "enter"
             /\ fsm.h = "channelClosed" =>
                  \A x \in Ops : phase'[x] \in Outstanding => phase[x] \in Outstanding
  <2>1. /\ jobs = <<>> /\ EnqueueAction(o) /\ UNCHANGED <<fsm, status, loop, next>>
    BY <1>8 DEF Call, UserMayRun
  <2>2. loop # "enter"
    BY <2>1, HasEmpty DEF JobsOK
  <2>3. fsm.h = "channelClosed" => phase' = [phase EXCEPT ![o] = "queued"]
    BY <2>1 DEF EnqueueAction, DequeueAction
  <2> QED BY <2>1, <2>2, <2>3 DEF TypeOK, Outstanding
<1>9. ASSUME NEW r \in {"signed", "refused", "thrown"}, SignDone(r)
      PROVE  /\ ClosedOK' /\ UNCHANGED <<fsm, status>> /\ fsm.h # "channelClosed"
  <2>1. /\ jobs = <<>> /\ loop = "sign" /\ jobs' = Append(jobs, "loop")
        /\ UNCHANGED <<fsm, status>>
    BY <1>9 DEF SignDone, UserMayRun
  <2>2. jobs' = <<"loop">>
    BY <2>1
  <2>3. ~ Has(jobs', "act")
    BY <2>2, HasSingle
  <2>4. fsm.h # "channelClosed"
    BY <1>0, <2>1 DEF LoopOK, CurOK, SigningHandlers
  <2> QED BY <2>1, <2>3, <2>4 DEF ClosedOK
<1> QED
  BY <1>1, <1>2, <1>3, <1>4, <1>5, <1>6, <1>7, <1>8, <1>9 DEF Next, Job, ClosedOK

\* A closed channel stays so, and processes no operation, if user code runs only
\* between messages (handlers.ts:394-433).
THEOREM ClosedStaysClosed ==
  ASSUME ~Reentrant
  PROVE  Spec => ClosedForGood
<1>1. Init => ClosedOK
  BY DEF Init, ClosedOK
<1>2. LInv /\ ClosedOK /\ [Next]_vars
        => /\ ClosedOK'
           /\ [/\ fsm.h = "channelClosed" =>
                   /\ fsm'.h = "channelClosed"
                   /\ \A o \in Ops : phase'[o] \in Outstanding => phase[o] \in Outstanding
               /\ status \in {"closed", "died"}
                    => status' \in {status, "disconnected"}]_vars
  BY StepClosed
<1> QED BY <1>1, <1>2, LifeInvariance, PTL DEF Spec, ClosedForGood

-----------------------------------------------------------------------------
(* One unsettled request at a time *)

\* What the peer sends to have us sign the shutdown it began.
ShutdownAck == [m |-> "sign", d |-> "shutdown_sign_ack"]

\* Without that message channelOpen waits for nobody: no operation starts
\* between the call of channelOpen and the next handler.
SyncedOK == cur.h = "channelOpen" => fsm.h = "channelOpen" /\ loop = "enter"

\* What the two assumptions make of a state.
SInv == LInv /\ ClosedOK /\ SyncedOK /\ EveryRequestTracked

\* No step starts an operation while channelOpen is at work.
LEMMA StepSynced ==
  ASSUME ~Reentrant, ShutdownAck \notin Messages, LInv, ClosedOK, SyncedOK, [Next]_vars
  PROVE  SyncedOK'
<1> USE DEF LInv, IInv, LifeOK
<1>0. Nowhere.h = "none"
  BY DEF Nowhere
<1>1. CASE ActionEntered
  <2>1. Has(jobs, "act") /\ UNCHANGED cur
    BY <1>1, NextJob DEF ActionEntered
  <2> QED BY <2>1 DEF SyncedOK, ClosedOK
<1>2. CASE MessageEntered
  BY <1>0, <1>2 DEF MessageEntered, SyncedOK
<1>3. ASSUME NEW m \in Messages, NEW j \in Seq(JobKinds), Once(j), ~ Has(j, "loop"),
             Has(j, "act") <=> Has(jobs, "act"), Has(jobs, "act") => Head(jobs) # "act",
             loop \in {"idle", "next"}, HandleMessage(m, j)
      PROVE  SyncedOK'
  <2>1. fsm' = fsm /\ cur' = fsm /\ (fsm.h = "channelOpen" => OpenLife(m))
    BY <1>3, HandleMessageAlone
  <2>2. m # ShutdownAck
    BY <1>3
  <2> QED BY <2>1, <2>2 DEF OpenLife, SyncedOK, ShutdownAck
<1>4. CASE NextMessage
  <2>1. jobs # <<>> /\ Head(jobs) = "loop" /\ loop = "next"
    BY <1>4 DEF NextMessage
  <2>2. /\ Tail(jobs) \in Seq(JobKinds) /\ Once(Tail(jobs))
        /\ Has(Tail(jobs), "act") <=> Has(jobs, "act")
        /\ ~ Has(Tail(jobs), "loop")
    BY <2>1, NextJob
  <2>3. CASE msgQueue = <<>>
    BY <1>4, <2>1, <2>3 DEF NextMessage, SyncedOK
  <2>4. CASE msgQueue # <<>>
    <3>1. Head(msgQueue) \in Messages
      BY <2>4, HeadTailProperties DEF TypeOK
    <3>2. HandleMessage(Head(msgQueue), Tail(jobs))
      BY <1>4, <2>4 DEF NextMessage
    <3> QED BY <1>3, <2>1, <2>2, <3>1, <3>2
  <2> QED BY <2>3, <2>4
<1>5. ASSUME NEW m \in Messages, Receive(m) PROVE SyncedOK'
  <2>1. CASE loop = "idle"
    <3>1. HandleMessage(m, <<>>) /\ jobs = <<>>
      BY <1>5, <2>1 DEF Receive
    <3>2. /\ <<>> \in Seq(JobKinds) /\ Once(<<>>)
          /\ ~ Has(<<>>, "loop") /\ ~ Has(<<>>, "act")
      BY HasEmpty
    <3> QED BY <1>3, <2>1, <3>1, <3>2
  <2>2. CASE loop # "idle"
    BY <1>5, <2>2 DEF Receive, SyncedOK
  <2> QED BY <2>1, <2>2
<1>6. ASSUME NEW o \in Ops, Call(o) PROVE SyncedOK'
  BY <1>6 DEF Call, SyncedOK
<1>7. ASSUME NEW r \in {"signed", "refused", "thrown"}, SignDone(r) PROVE SyncedOK'
  BY <1>7 DEF SignDone, SyncedOK
<1>8. CASE RpcReply \/ WsClosed \/ Disconnect \/ SendMessage \/ UNCHANGED vars
  BY <1>8 DEF RpcReply, WsClosed, Disconnect, SendMessage, vars, SyncedOK
<1> QED BY <1>1, <1>2, <1>4, <1>5, <1>6, <1>7, <1>8 DEF Next, Job

\* A request goes out by way of the lock, where the FSM tracks it.
LEMMA StepTracked ==
  ASSUME ~Reentrant, ShutdownAck \notin Messages, SInv, [Next]_vars
  PROVE  EveryRequestTracked'
<1> SUFFICES ASSUME NEW o \in Ops, phase'[o] \in Outstanding, ~ Tracked(o)'
             PROVE  FALSE
  BY DEF EveryRequestTracked
<1> USE DEF SInv, LInv, IInv, LifeOK
<1>1. phase[o] \notin Outstanding
  <2>1. SUFFICES ASSUME Tracked(o) PROVE FALSE
    BY DEF EveryRequestTracked
  <2>2. cur.h = "channelOpen" /\ fsm.op = o
    BY <2>1, StepDrops
  <2>3. "channelOpen" \in HandlersOf[Kind[o]]
    BY <2>2 DEF SyncedOK, StatesOK, Fits, FitsIn
  <2> QED BY <2>3, Belongs DEF OpHandlers
<1>2. Next
  BY <1>1 DEF vars
<1>3. CASE OwnSettled
  BY <1>1, <1>3 DEF OwnSettled
<1>4. ASSUME NEW h, Advance(h) PROVE FALSE
  BY <1>1, <1>4 DEF Advance, Tracked, Outstanding
<1>5. CASE ~ OwnSettled /\ ~ \E h : Advance(h)
  <2>1. \E r \in {"signed", "refused", "thrown"} : SignDone(r)
    BY <1>2, <1>5, StepPhase
  <2> QED BY <1>1, <2>1 DEF SignDone, Settle
<1> QED BY <1>3, <1>4, <1>5

\* Every request that is out has somebody who can settle it, if user code runs
\* only between messages and the peer's shutdown has no handshake of ours
\* (internal.ts:318-364).
THEOREM RequestsAreTracked ==
  ASSUME ~Reentrant, ShutdownAck \notin Messages
  PROVE  Spec => []EveryRequestTracked
<1>1. Init => ClosedOK /\ SyncedOK /\ EveryRequestTracked
  BY DEF Init, ClosedOK, SyncedOK, EveryRequestTracked, Nowhere, Outstanding
<1>2. SInv /\ LInv' /\ [Next]_vars => SInv'
  BY StepClosed, StepSynced, StepTracked DEF SInv
<1>3. SInv => EveryRequestTracked
  BY DEF SInv
<1>4. LInv /\ ClosedOK /\ SyncedOK /\ EveryRequestTracked => SInv
  BY DEF SInv
<1> QED BY <1>1, <1>2, <1>3, <1>4, LifeInvariance, PTL DEF Spec

\* A request goes out only when no other is unsettled.
LEMMA RequestsAlone ==
  ASSUME ~Reentrant, ShutdownAck \notin Messages, SInv, [Next]_vars,
         NEW o \in Ops, o \in Out', o \notin Out
  PROVE  Out = {}
<1> SUFFICES ASSUME NEW x \in Ops, phase[x] \in Outstanding PROVE FALSE
  BY DEF Out
<1> USE DEF SInv, LInv, IInv, LifeOK
<1>0. NoOp \notin Ops /\ Tracked(x) /\ phase'[o] \in Outstanding
      /\ phase[o] \notin Outstanding /\ cur \in FsmStates \cup {Nowhere}
      /\ \A s \in FsmStates : s.h # "none"
  BY ChannelAssumption
  DEF EveryRequestTracked, Out, TypeOK, FsmStates, Handlers, StartHandlers, OpHandlers
<1>1. Next
  BY <1>0 DEF vars
<1>2. ~ OwnSettled /\ ~ \E r \in {"signed", "refused", "thrown"} : SignDone(r)
  BY <1>0 DEF OwnSettled, SignDone, Settle
<1>3. act = NoOp /\ act' # act
  <2>1. PICK h : Advance(h)
    BY <1>1, <1>2, StepPhase
  <2> QED BY <1>0, <2>1 DEF Advance, Outstanding
<1>4. "channelOpen" \notin HandlersOf[Kind[x]]
  BY Belongs DEF OpHandlers
<1>5. CASE MessageEntered
  <2>1. loop = "enter" /\ next.h = "channelOpen" /\ next # Nowhere
    BY <1>3, <1>5 DEF MessageEntered, EnterState, DequeueAction
  <2>2. fsm.op = x /\ next.op # x
    BY <1>0, <1>3, <1>4, <2>1 DEF Tracked, StatesOK, Fits, FitsIn
  <2>3. cur.h = "channelOpen"
    BY <1>0, <2>1, <2>2 DEF CurOK, NextOK, Nowhere
  <2> QED BY <1>4, <2>2, <2>3 DEF SyncedOK, StatesOK, Fits, FitsIn
<1>6. CASE \E y \in Ops : Call(y)
  <2>1. jobs = <<>> /\ fsm.h = "channelOpen"
    BY <1>3, <1>6 DEF Call, UserMayRun, EnqueueAction, DequeueAction
  <2>2. loop # "enter"
    BY <2>1, HasEmpty DEF JobsOK
  <2> QED BY <1>0, <1>3, <1>4, <2>1, <2>2 DEF Tracked, StatesOK, Fits, FitsIn
<1>7. CASE NextMessage \/ \E m \in Messages : Receive(m)
  <2>1. act' = act \/ \E m, j : HandleMessage(m, j)
    BY <1>7 DEF NextMessage, Receive
  <2>2. \A m, j : HandleMessage(m, j) => act' = act
    BY DEF HandleMessage
  <2> QED BY <1>3, <2>1, <2>2
<1>8. CASE ActionEntered \/ RpcReply \/ WsClosed \/ Disconnect \/ SendMessage
  BY <1>2, <1>8
  DEF ActionEntered, RpcReply, WsClosed, Disconnect, SendMessage, OwnSettled
<1> QED BY <1>1, <1>2, <1>5, <1>6, <1>7, <1>8 DEF Next, Job

\* Every step is one of a serial request queue, or not seen.
LEMMA StepSerial ==
  ASSUME ~Reentrant, ShutdownAck \notin Messages, SInv, [Next]_vars
  PROVE  [SerialRequests!Next]_(SerialRequests!vars)
<1>1. Seen
  BY StepSeen DEF SInv, LInv
<1>2. CASE UNCHANGED Requests!vars
  BY <1>2 DEF Requests!vars, SerialRequests!vars
<1>3. ASSUME NEW q \in Seq(Ops), q # <<>>, Head(q) \notin Out, Requests!Request(q)
      PROVE  SerialRequests!Request(q)
  <2>1. Head(q) \in Ops
    BY <1>3, HeadTailProperties
  <2>2. Out' = Out \cup {Head(q)} => Out = {}
    BY <1>3, <2>1, RequestsAlone
  <2> QED BY <1>3, <2>2 DEF Requests!Request, SerialRequests!Request, Out, Done
<1>4. actQueue \in Seq(Ops) /\ \A o \in Ops : Has(actQueue, o) => o \notin Out
  BY DEF SInv, LInv, IInv, TypeOK, ActionsOK, Out, Outstanding
<1>5. CASE Requests!Request(actQueue)
  <2>1. actQueue # <<>>
    BY <1>5 DEF Requests!Request
  <2>2. Has(actQueue, Head(actQueue)) /\ Head(actQueue) \in Ops
    BY <1>4, <2>1, HeadTailProperties, HasHead
  <2>3. SerialRequests!Request(actQueue)
    BY <1>3, <1>4, <1>5, <2>1, <2>2 DEF Requests!Request, SerialRequests!Request
  <2> QED BY <2>3 DEF SerialRequests!Next
<1>6. ASSUME NEW o \in Ops, Requests!Finish(o) PROVE SerialRequests!Next
  BY <1>6 DEF Requests!Finish, SerialRequests!Finish, SerialRequests!Next
<1>7. ASSUME NEW o \in Ops, Requests!Submit(o) PROVE SerialRequests!Next
  <2>1. CASE UNCHANGED <<Out, Done>> /\ actQueue' = Append(actQueue, o)
    BY <1>7, <2>1
    DEF Requests!Submit, Requests!Fresh, SerialRequests!Submit, SerialRequests!Fresh,
        SerialRequests!Next, Out, Done
  <2>2. CASE Requests!Request(Append(actQueue, o))
    <3>1. Append(actQueue, o) \in Seq(Ops) /\ Append(actQueue, o) # <<>>
      BY <1>4, AppendProperties
    <3>2. Head(Append(actQueue, o)) \notin Out
      <4>1. Has(Append(actQueue, o), Head(Append(actQueue, o)))
            /\ Head(Append(actQueue, o)) \in Ops
        BY <3>1, HeadTailProperties, HasHead
      <4>2. Has(actQueue, Head(Append(actQueue, o))) \/ Head(Append(actQueue, o)) = o
        BY <1>4, <4>1, HasAppend
      <4>3. o \notin Out
        BY <1>7 DEF Requests!Submit, Requests!Fresh, Out
      <4> QED BY <1>4, <4>1, <4>2, <4>3
    <3>3. SerialRequests!Request(Append(actQueue, o))
      BY <1>3, <2>2, <3>1, <3>2 DEF Requests!Request, SerialRequests!Request
    <3> QED BY <1>7, <3>3
        DEF Requests!Submit, Requests!Fresh, SerialRequests!Submit, SerialRequests!Fresh,
            SerialRequests!Next
  <2> QED BY <1>7, <2>1, <2>2 DEF Requests!Submit, Out, Done
<1> QED BY <1>1, <1>2, <1>5, <1>6, <1>7 DEF Seen, Requests!Next, SerialRequests!Next

\* And there is at most one such request at a time.
THEOREM ImplementsSerialQueue ==
  ASSUME ~Reentrant, ShutdownAck \notin Messages
  PROVE  Spec => OneAtATime
<1>1. Init => ClosedOK /\ SyncedOK /\ EveryRequestTracked
  BY DEF Init, ClosedOK, SyncedOK, EveryRequestTracked, Nowhere, Outstanding
<1>2. SInv /\ LInv' /\ [Next]_vars => SInv'
  BY StepClosed, StepSynced, StepTracked DEF SInv
<1>3. LInv /\ ClosedOK /\ SyncedOK /\ EveryRequestTracked => SInv
  BY DEF SInv
<1>4. Init => SerialRequests!Init
  BY DEF Init, SerialRequests!Init, Outstanding, Settled
<1>5. SInv /\ [Next]_vars => [SerialRequests!Next]_(SerialRequests!vars)
  BY StepSerial
<1> QED
  BY <1>1, <1>2, <1>3, <1>4, <1>5, LifeInvariance, PTL
  DEF Spec, OneAtATime, SerialRequests!Spec
=============================================================================
