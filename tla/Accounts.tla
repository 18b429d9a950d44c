----------------------------- MODULE Accounts -----------------------------
(***************************************************************************)
(* What the ledger of a branch says, computed from the branch alone: who   *)
(* has an account, since which height, what it is worth and whether it may *)
(* stake.  This is the reference that the account maps of block.c (module  *)
(* Ledger) are compared with, and all that the nodes (module Node) need to *)
(* know of the ledger.                                                     *)
(*                                                                         *)
(* A header is a record [pk |-> creator, txns |-> sequence of              *)
(* transactions]; a transaction is a record with the fields that enter its *)
(* hash, so equal records are identical transactions.                      *)
(***************************************************************************)
EXTENDS Integers, FiniteSetsExt, SequencesExt

CONSTANTS COINBASE_TRANSACTION,  \* reward of a block's creator
          DELEGATE_VALUE,        \* value of one delegate
          WAITING_PERIOD,        \* blocks before an account may stake
          U64,                   \* number of values of an uint64_t
          U32                    \* number of values of an uint32_t

(* The change that a transaction makes to the account pk.                  *)
TransferTo(pk, txn) == (IF txn.recipient = pk THEN txn.value ELSE 0)
                       - (IF txn.sender = pk THEN txn.value ELSE 0)

(* The change that a block makes to the account pk.                        *)
ChangeTo(pk, header) ==
    LET sum[i \in 0..Len(header.txns)] ==
          IF i = 0 THEN IF header.pk = pk THEN COINBASE_TRANSACTION ELSE 0
                   ELSE sum[i - 1] + TransferTo(pk, header.txns[i])
    IN  sum[Len(header.txns)]

(* All that the account pk ever got, less all that it ever spent.          *)
NetWorth(b, pk) ==
    LET sum[h \in 0..Len(b)] == IF h = 0 THEN 0 ELSE sum[h - 1] + ChangeTo(pk, b[h])
    IN  sum[Len(b)]

(* What an uint64_t makes of it.                                           *)
Balance(b, pk) == NetWorth(b, pk) % U64

Touches(header, pk) ==
    \/ header.pk = pk
    \/ \E i \in 1..Len(header.txns) : pk \in {header.txns[i].sender, header.txns[i].recipient}

(* The heights of the blocks of b that hold a record of the account pk.    *)
TouchedAt(b, pk) == {h \in 1..Len(b) : Touches(b[h], pk)}

HasAccount(b, pk) == TouchedAt(b, pk) # {}

Delegates(value) == (value \div DELEGATE_VALUE) % U32

(* May pk create a block on top of b?  This is the rule of block.c, on the *)
(* branch in place of the records: up to the height WAITING_PERIOD every   *)
(* account with a delegate may, later it must have been opened at least    *)
(* WAITING_PERIOD blocks below b.  The rule that block.h describes differs *)
(* at both bounds and for keys without an account.                         *)
StakingAllowed(b, pk) ==
    \/ b = << >>
    \/ /\ HasAccount(b, pk)
       /\ Delegates(Balance(b, pk)) # 0
       /\ \/ Len(b) <= WAITING_PERIOD
          \/ Min(TouchedAt(b, pk)) + WAITING_PERIOD <= Len(b)

(* The transactions that the branch b confirms.                            *)
Confirmed(b) == UNION {ToSet(b[h].txns) : h \in 1..Len(b)}
=============================================================================
