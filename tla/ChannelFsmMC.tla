----------------------------- MODULE ChannelFsmMC -----------------------------
(***************************************************************************)
(* Instances of ChannelFsm for TLC: which operations the user calls, and   *)
(* which of the node's messages can arrive, one definition per run.        *)
(***************************************************************************)
EXTENDS ChannelFsm

M(m, ds) == [m : {m}, d : ds]

KindByName ==
  [update1 |-> "update", update2 |-> "update", deposit |-> "deposit",
   withdraw |-> "withdraw", create |-> "createContract",
   call |-> "callContract", force |-> "forceProgress",
   clean |-> "cleanContractCalls", leave |-> "leave", shutdown |-> "shutdown"]

MCKind == [o \in Ops |-> KindByName[o]]

\* Opening: everything the node sends before the channel is open.
OpeningMessages ==
  M("info", {"fsm_up", "channel_accept", "funding_created", "funding_signed",
             "own_funding_locked", "funding_locked", "open",
             "channel_reestablished", "timeout"})
  \cup M("sign", {"initiator_sign", "responder_sign"})
  \cup M("on_chain_tx", {"funding_signed", "funding_created", "other"})
  \cup M("update", {"offchain"})
  \cup M("error", {"-"})

\* What the node sends while the channel is open, to any operation of Spend.ts
\* and Base.ts, by way of the peer's updates and of closing.
SpendMessages ==
  M("info", {"fsm_up", "update", "own_deposit_locked", "deposit_locked",
             "withdraw_locked", "closing", "closed_confirmed", "died",
             "peer_disconnected", "aborted_update"})
  \cup M("sign", {"update", "update_ack", "deposit_tx", "withdraw_tx"})
  \cup M("on_chain_tx", {"other"})
  \cup M("update", {"offchain"})
  \cup M("conflict", {"-"}) \cup M("error", {"-"}) \cup M("reply_error", {"-"})

\* Leaving and mutual close, by either side.
ClosingMessages ==
  M("info", {"fsm_up", "update", "closing", "closed_confirmed", "died", "shutdown"})
  \cup M("sign", {"update", "update_ack", "shutdown_sign", "shutdown_sign_ack"})
  \cup M("on_chain_tx", {"channel_closed", "other"})
  \cup M("update", {"offchain"})
  \cup M("leave", {"-"}) \cup M("error", {"-"}) \cup M("reply_error", {"-"})

\* A channel reestablished, with contracts; no handshake of a mutual close, whose
\* signature channelOpen awaits itself.  A co-signed transaction need not be off-chain.
ContractMessages ==
  M("info", {"channel_reestablished", "open", "update", "aborted_update"})
  \cup M("sign", {"update", "update_ack", "force_progress_tx"})
  \cup M("on_chain_tx", {"other"})
  \cup M("update", {"offchain", "deposit"})
  \cup M("conflict", {"-"}) \cup M("calls_pruned", {"-"})
  \cup M("reply_error", {"-"})
=============================================================================
