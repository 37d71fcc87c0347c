------------------------------ MODULE Payment ------------------------------
(***************************************************************************)
(* What a transaction must look like to pay for a checkout session         *)
(* (internal/chain/tx.go and the checks of api/sessions.go on it).  A      *)
(* transaction says twice what it does: in its calldata, which the sender  *)
(* signed, and in the logs the token wrote while it ran.  For an ordinary  *)
(* token the two agree; a token with a fee or a redirection can log        *)
(* something else than the caller asked for.                               *)
(***************************************************************************)
EXTENDS Integers, Sequences

CONSTANTS
  Sessions, Txs, Wallets, Addresses,
  Token, Treasury,   \* the ERC-20 and the recipient of first payments
  From,              \* [Txs -> Wallets]: the recovered sender
  Tx,                \* [Txs -> Transaction]: callee, calldata and logs
  Price              \* [Sessions -> Nat]: the price of the session's plan

\* The canonical Transfer events only: three topics and one word of data.
Log == [emitter : Addresses, from : Addresses, to : Addresses, value : Nat]
Transaction == [to : Addresses, method : {"transfer", "other"},
                recipient : Addresses, value : Nat, logs : Seq(Log)]

ASSUME PaymentAssumption ==
  /\ Wallets \subseteq Addresses /\ {Token, Treasury} \subseteq Addresses
  /\ From \in [Txs -> Wallets] /\ Tx \in [Txs -> Transaction]
  /\ Price \in [Sessions -> Nat]

(* The calldata is transfer(treasury, price) on the token.                 *)
CallPays(t, s) ==
  /\ Tx[t].to = Token /\ Tx[t].method = "transfer"
  /\ Tx[t].recipient = Treasury /\ Tx[t].value = Price[s]

\* DecodeTransferLog: the token's logs of that amount; the first one counts.
LogsOf(t, value) ==
  {i \in DOMAIN Tx[t].logs : /\ Tx[t].logs[i].emitter = Token
                             /\ Tx[t].logs[i].value = value}

\* Mutant: the parties of the log are not compared.
LogOfThatAmount(t, s) == LogsOf(t, Price[s]) # {}

(* The first such log is a payment by the sender to the treasury.          *)
LogAgrees(t, s) ==
  \E i \in LogsOf(t, Price[s]) :
     /\ \A j \in LogsOf(t, Price[s]) : i <= j
     /\ Tx[t].logs[i].from = From[t] /\ Tx[t].logs[i].to = Treasury

(* What the checks are for: the token itself says that the treasury got    *)
(* the price from the wallet.                                              *)
Received(t, s) ==
  \E i \in DOMAIN Tx[t].logs :
     Tx[t].logs[i] = [emitter |-> Token, from |-> From[t], to |-> Treasury,
                      value |-> Price[s]]
=============================================================================
